---------------------------- MODULE WorkersProofs ----------------------------
(***************************************************************************)
(* Theorems about the machines of MCWorkers.  Each machine gets an         *)
(* inductive invariant of its own: the download, the upload, the remote    *)
(* shell and the local one here, the control of a transfer in              *)
(* TransferControlProofs and the tab in SessionWorkerProofs, both used     *)
(* through INSTANCE.  WhoSteps says that a step of the run is a step of    *)
(* one machine and leaves the variables of the others alone, so the        *)
(* conjunction of the invariants, WorkersInv, is inductive, and the        *)
(* properties of the run follow from it.                                   *)
(***************************************************************************)
EXTENDS MCWorkers, SequenceFacts, WellFoundedInduction, TLAPS

------------------------------------------------------------------------------
(* The download, by itself, for every size of the file, every chunk size,   *)
(* every window and every number of attempts, starts and aborts.  TypeOK    *)
(* needs Order to be inductive.  Plan says where each attempt stands; for   *)
(* as long as nothing disturbs it, Filled says which cells of the `.part`   *)
(* hold fetched bytes, and the two properties follow.                       *)

USE DEF fileVars, planVars, chunkVars, endVars

------------------------------------------------------------------------------
(* The least and the greatest of some numbers. *)

\* What ChunkEnd and the next offset are: the smaller of two numbers.
LEMMA MinOfTwo == ASSUME NEW a \in Int, NEW b \in Int
                  PROVE  Min({a, b}) = IF a <= b THEN a ELSE b
<1> DEFINE m == IF a <= b THEN a ELSE b
<1>1. m \in {a, b} /\ \A y \in {a, b} : m <= y
  OBVIOUS
<1>2. \A x \in {a, b} : (\A y \in {a, b} : x <= y) => x = m
  OBVIOUS
<1> QED
  BY <1>1, <1>2 DEF Min

\* The length of the `.part` after a write: the larger of two numbers.
LEMMA MaxOfTwo == ASSUME NEW a \in Int, NEW b \in Int
                  PROVE  Max({a, b}) = IF a >= b THEN a ELSE b
<1> DEFINE m == IF a >= b THEN a ELSE b
<1>1. m \in {a, b} /\ \A y \in {a, b} : m >= y
  OBVIOUS
<1>2. \A x \in {a, b} : (\A y \in {a, b} : x >= y) => x = m
  OBVIOUS
<1> QED
  BY <1>1, <1>2 DEF Max

\* A set of naturals has its least member, as the count of contiguous chunks needs.
LEMMA MinOfMany == ASSUME NEW S \in SUBSET Nat, S # {}
                   PROVE  Min(S) \in S /\ \A y \in S : Min(S) <= y
<1>1. PICK x \in S : \A y \in S : ~ (<<y, x>> \in OpToRel(<, Nat))
  BY NatLessThanWellFounded, WFMin
<1>2. ASSUME NEW y \in S, y < x PROVE FALSE
  <2>1. <<y, x>> \in Nat \X Nat /\ <<y, x>>[1] < <<y, x>>[2]
    BY <1>2
  <2>2. <<y, x>> \in OpToRel(<, Nat)
    BY <2>1 DEF OpToRel
  <2> QED
    BY <1>1, <2>2
<1>3. \A y \in S : x <= y
  BY <1>2
<1> QED
  BY <1>3 DEF Min

------------------------------------------------------------------------------
(* Where chunks lie. *)

\* The constants' assumption, conjunct by conjunct.
LEMMA ConstantFacts == Size \in Nat \ {0} /\ Chunk \in Nat \ {0} /\ WindowMin \in Nat \ {0}
                       /\ WindowMax \in Nat \ {0} /\ Attempts \in Nat \ {0} /\ WindowMin <= WindowMax
                       /\ MaxStarts \in Nat /\ MaxKills \in Nat
  BY DownloadAssumption

\* A later chunk begins no earlier.
LEMMA TimesGrows == \A i, j \in Nat : i <= j => i * Chunk <= j * Chunk
<1> SUFFICES ASSUME NEW i \in Nat, NEW j \in Nat, i <= j PROVE i * Chunk <= j * Chunk
  OBVIOUS
<1>1. (j - i) * Chunk >= 0
  BY ConstantFacts
<1>2. (j - i) * Chunk = j * Chunk - i * Chunk
  BY ConstantFacts
<1> QED
  BY <1>1, <1>2, ConstantFacts

\* The next chunk begins a chunk further.
LEMMA TimesNext == \A i \in Int : i * Chunk \in Int /\ (i + 1) * Chunk = i * Chunk + Chunk
  BY ConstantFacts

\* A range that ends within a length holds only cells of it.
LEMMA RangeWithin == \A a, n, len \in Nat : a + n <= len => \A c \in a .. a + n - 1 : c \in 0 .. len - 1
  OBVIOUS

\* Every distance falls into one chunk.
LEMMA ChunkOf == \A d \in Nat : \E i \in 0 .. d : i * Chunk <= d /\ d < (i + 1) * Chunk
<1> SUFFICES ASSUME NEW d \in Nat PROVE \E i \in 0 .. d : i * Chunk <= d /\ d < (i + 1) * Chunk
  OBVIOUS
<1> DEFINE i == d \div Chunk
<1>1. i \in Nat /\ i * Chunk <= d /\ d < i * Chunk + Chunk
  BY ConstantFacts
<1>2. i <= i * Chunk
  BY <1>1, ConstantFacts
<1> QED
  BY <1>1, <1>2, TimesNext

------------------------------------------------------------------------------
\* The plan of an attempt lies within the file it was made for.
Order == resume <= total /\ resume <= offset /\ offset <= total

\* Chunk tasks live in the drain; an attempt that has neither failed nor been stopped when it
\* closes has spawned every chunk.
Plan ==
  /\ inflight # {} => pc = "drain"
  /\ promoted => pc = "idle"
  /\ pc \in {"open", "batch"} => failure = "none" /\ ~vanished /\ ~stopped
  /\ pc = "drain" => ~stopped
  /\ pc = "close" /\ failure = "none" /\ ~stopped => offset = total /\ ~vanished

\* What holds fetched bytes while an attempt is under way: all below its resume point, every
\* completed chunk, and of a chunk in flight what it has read.  Unless one failed or vanished,
\* every chunk below the offset is one or the other.
Running == pc \in {"open", "batch", "drain", "close"}
Filled ==
  /\ total = Size
  /\ 0 .. resume - 1 \subseteq good
  /\ \A i \in completed : ChunkStart(i) .. ChunkEnd(i) - 1 \subseteq good
  /\ \A i \in inflight : /\ ChunkStart(i) <= cur[i] /\ cur[i] < ChunkEnd(i)
                         /\ ChunkStart(i) .. cur[i] - 1 \subseteq good
  /\ failure = "none" /\ ~vanished =>
       \A i \in Chunks : ChunkStart(i) < offset => i \in completed \cup inflight

\* The inductive invariant for as long as nothing disturbs the download.
Kept ==
  Undisturbed => /\ pc \in {"idle", "stat", "backoff", "open"} => good = 0 .. partLen - 1
                 /\ promoted => final = Cells
                 /\ Running => Filled

IInv == TypeOK /\ Order /\ Plan /\ Kept

------------------------------------------------------------------------------
(* Type correctness. *)

\* A retry goes to one of two places and counts no further than it may.
LEMMA RetryFacts ==
  ASSUME NEW kind \in {"transient", "fatal"}, attempt \in 0 .. Attempts, Retry(kind)
  PROVE  pc' \in {"idle", "backoff"} /\ attempt' \in 0 .. Attempts
  BY ConstantFacts DEF Retry

\* A chunk of the plan lies between its resume point and its end.
LEMMA ChunkBounds ==
  ASSUME Order, resume \in 0 .. Size, total \in 0 .. Size, NEW i \in Nat
  PROVE  /\ ChunkStart(i) \in Nat /\ resume <= ChunkStart(i)
         /\ ChunkEnd(i) = IF ChunkStart(i) + Chunk <= total THEN ChunkStart(i) + Chunk ELSE total
         /\ ChunkEnd(i) \in Nat /\ ChunkEnd(i) <= total
<1>1. i * Chunk \in Nat /\ (i + 1) * Chunk = i * Chunk + Chunk
  BY ConstantFacts, TimesNext
<1>2. ChunkEnd(i) = Min({ChunkStart(i) + Chunk, total})
  BY <1>1, ConstantFacts DEF ChunkEnd, ChunkStart
<1> QED
  BY <1>1, <1>2, MinOfTwo, ConstantFacts DEF ChunkStart, Order

\* A window moves the offset forward, and within the file.
LEMMA OffsetFacts ==
  ASSUME TypeOK, offset < total
  PROVE  LET reach == Min({offset + window * Chunk, total})
         IN  reach \in 0 .. Size /\ offset < reach /\ reach <= total
<1>1. window * Chunk \in Nat /\ window * Chunk >= 1
  BY ConstantFacts DEF TypeOK
<1> QED
  BY <1>1, MinOfTwo, ConstantFacts DEF TypeOK

\* All chunks below the count of contiguous ones are completed.
LEMMA ContiguousFacts ==
  ASSUME TypeOK
  PROVE  Contiguous \in 0 .. Size /\ \A i \in 0 .. Size : i < Contiguous => i \in completed
<1> DEFINE S == {i \in 0 .. Size : i \notin completed}
<1>1. S \in SUBSET Nat /\ S # {}
  <2>1. Size \in S
    BY ConstantFacts DEF TypeOK, Chunks
  <2> QED
    BY <2>1
<1>2. Min(S) \in S /\ \A y \in S : Min(S) <= y
  BY <1>1, MinOfMany
<1> QED
  BY <1>2, ConstantFacts DEF Contiguous

\* The watermark lies between the resume point and the end of the file.
LEMMA WatermarkFacts ==
  ASSUME TypeOK, Order
  PROVE  Watermark \in 0 .. Size /\ resume <= Watermark /\ Watermark <= total
         /\ Watermark <= resume + Contiguous * Chunk
<1>1. Contiguous * Chunk \in Nat
  BY ContiguousFacts, ConstantFacts
<1>2. total - resume \in Nat
  BY DEF TypeOK, Order
<1> QED
  BY <1>1, <1>2, MinOfTwo, ConstantFacts DEF Watermark, TypeOK, Order

\* What a chunk reads stays within the file.
LEMMA ReadFacts ==
  ASSUME TypeOK, Order, NEW i \in Chunks, ChunkRead(i)
  PROVE  \E n \in Nat \ {0} :
           /\ cur[i] + n <= remote /\ cur[i] + n <= ChunkEnd(i)
           /\ good' = good \cup (cur[i] .. cur[i] + n - 1)
           /\ partLen' = (IF partLen >= cur[i] + n THEN partLen ELSE cur[i] + n)
           /\ cur' = [cur EXCEPT ![i] = @ + n]
           /\ IF cur[i] + n < ChunkEnd(i)
              THEN UNCHANGED <<inflight, completed>>
              ELSE inflight' = inflight \ {i} /\ completed' = completed \cup {i}
<1>1. i \in Nat /\ cur[i] \in Int /\ partLen \in Int /\ remote \in Int
  BY DEF TypeOK, Chunks
<1>2. ChunkEnd(i) \in Int
  BY <1>1, ChunkBounds DEF TypeOK
<1>3. PICK n \in 1 .. Min({ChunkEnd(i), remote}) - cur[i] :
           /\ good' = good \cup (cur[i] .. cur[i] + n - 1)
           /\ partLen' = Max({partLen, cur[i] + n})
           /\ cur' = [cur EXCEPT ![i] = @ + n]
           /\ IF cur[i] + n < ChunkEnd(i)
              THEN UNCHANGED <<inflight, completed>>
              ELSE inflight' = inflight \ {i} /\ completed' = completed \cup {i}
  BY DEF ChunkRead
<1>4. Min({ChunkEnd(i), remote}) = IF ChunkEnd(i) <= remote THEN ChunkEnd(i) ELSE remote
  BY <1>1, <1>2, MinOfTwo
<1>5. Max({partLen, cur[i] + n}) = IF partLen >= cur[i] + n THEN partLen ELSE cur[i] + n
  BY <1>1, MaxOfTwo
<1>6. n \in Nat \ {0} /\ cur[i] + n <= remote /\ cur[i] + n <= ChunkEnd(i)
  BY <1>1, <1>2, <1>3, <1>4
<1> QED
  BY <1>3, <1>5, <1>6

\* A longer file has the cells of the shorter one.
LEMMA RangeGrows ==
  ASSUME NEW m \in Nat, NEW n \in Nat, m <= n PROVE 0 .. m - 1 \subseteq 0 .. n - 1
OBVIOUS

\* Every step of the download keeps the types and the order of the plan.
LEMMA TypeStep == TypeOK /\ Order /\ [Next]_vars => TypeOK' /\ Order'
<1> SUFFICES ASSUME TypeOK, Order, [Next]_vars PROVE TypeOK' /\ Order'
  OBVIOUS
<1> USE ConstantFacts DEF TypeOK, Order, PcStates, Cells
<1>1. CASE Start
  <2>1. attempt' \in 0 .. Attempts /\ starts' \in 0 .. MaxStarts
    BY <1>1 DEF Start
  <2> QED
    BY <1>1, <2>1 DEF Start
<1>2. CASE Stop
  BY <1>2 DEF Stop
<1>3. CASE Kill
  BY <1>3 DEF Kill
<1>4. CASE Shrink
  BY <1>4 DEF Shrink
<1>5. CASE Backoff
  BY <1>5 DEF Backoff
<1>6. CASE StatFail
  BY <1>6, RetryFacts DEF StatFail
<1>7. CASE Stat
  <2>1. total' \in 0 .. Size /\ resume' \in 0 .. Size /\ offset' = resume' /\ resume' <= total'
    BY <1>7 DEF Stat
  <2>2. window' \in WindowMin .. WindowMax
    BY <1>7 DEF Stat
  <2>3. partLen' \in 0 .. Size /\ good' \in SUBSET (0 .. partLen' - 1)
    <3>1. CASE resume' = 0
      BY <1>7, <3>1 DEF Stat
    <3>2. CASE resume' # 0
      <4>1. partLen' = partLen /\ good' = good
        BY <1>7, <3>2 DEF Stat
      <4> QED
        BY <4>1
    <3> QED
      BY <3>1, <3>2
  <2>4. Order'
    BY <2>1
  <2>5. /\ UNCHANGED <<remote, promoted, final, attempt, stop, cur, inflight, starts, kills>>
        /\ completed' = {} /\ failure' = "none" /\ vanished' = FALSE /\ stopped' = FALSE /\ pc' = "open"
    BY <1>7 DEF Stat
  <2> QED
    BY <2>1, <2>2, <2>3, <2>4, <2>5
<1>8. CASE OpenFail
  BY <1>8, RetryFacts DEF OpenFail
<1>9. CASE Open
  BY <1>9 DEF Open
<1>10. CASE LastBatch
  BY <1>10 DEF LastBatch
<1>11. CASE SpawnWindow
  <2>1. offset' \in 0 .. Size /\ offset < offset' /\ offset' <= total
    BY <1>11, OffsetFacts DEF SpawnWindow
  <2>2. inflight' \in SUBSET Chunks
    BY <1>11 DEF SpawnWindow
  <2>3. \A i \in inflight' : ChunkStart(i) \in 0 .. Size
    <3> SUFFICES ASSUME NEW i \in inflight' PROVE ChunkStart(i) \in 0 .. Size
      OBVIOUS
    <3>1. ChunkStart(i) \in offset .. offset' - 1
      BY <1>11 DEF SpawnWindow
    <3>2. offset \in 0 .. Size /\ offset' \in 0 .. Size
      BY <2>1
    <3> QED
      BY <3>1, <3>2
  <2>4. cur' \in [Chunks -> 0 .. Size]
    <3>1. \A i \in Chunks : (IF i \in inflight' THEN ChunkStart(i) ELSE 0) \in 0 .. Size
      BY <2>3
    <3>2. cur' = [i \in Chunks |-> IF i \in inflight' THEN ChunkStart(i) ELSE 0]
      BY <1>11 DEF SpawnWindow
    <3> QED
      BY ONLY <3>1, <3>2
  <2>5. pc' = "drain"
        /\ UNCHANGED <<remote, fileVars, attempt, stop, resume, total, window, completed, endVars, starts, kills>>
    BY <1>11 DEF SpawnWindow
  <2> QED
    BY <2>1, <2>2, <2>4, <2>5
<1>12. CASE WindowBroken
  BY <1>12 DEF WindowBroken
<1>13. CASE WindowDone
  <2>1. Min({WindowMax, 2 * window}) <= WindowMax
    BY MinOfTwo
  <2>2. window' \in WindowMin .. WindowMax
    <3>1. Min({WindowMax, 2 * window}) \in Int
      BY MinOfTwo
    <3> QED
      BY <1>13, <2>1, <3>1 DEF WindowDone
  <2> QED
    BY <1>13, <2>2 DEF WindowDone
<1>14. CASE Promote
  BY <1>14 DEF Promote
<1>15. CASE PromoteFail
  BY <1>15, RetryFacts DEF PromoteFail
<1>16. CASE CutBack
  <2>1. Watermark \in 0 .. Size
    BY WatermarkFacts
  <2>2. pc' \in PcStates /\ attempt' \in 0 .. Attempts
    <3>1. CASE failure = "none"
      BY <1>16, <3>1 DEF CutBack
    <3>2. CASE failure # "none"
      BY <1>16, <3>2, RetryFacts DEF CutBack
    <3> QED
      BY <3>1, <3>2
  <2> QED
    BY <1>16, <2>1, <2>2 DEF CutBack
<1>17. ASSUME NEW i \in Chunks, ChunkStep(i) PROVE TypeOK' /\ Order'
  <2>1. CASE ChunkRead(i)
    <3>1. i \in Nat /\ cur[i] \in 0 .. Size
      BY DEF Chunks
    <3>2. PICK n \in Nat \ {0} :
             /\ cur[i] + n <= remote /\ cur[i] + n <= ChunkEnd(i)
             /\ good' = good \cup (cur[i] .. cur[i] + n - 1)
             /\ partLen' = (IF partLen >= cur[i] + n THEN partLen ELSE cur[i] + n)
             /\ cur' = [cur EXCEPT ![i] = @ + n]
             /\ IF cur[i] + n < ChunkEnd(i)
                THEN UNCHANGED <<inflight, completed>>
                ELSE inflight' = inflight \ {i} /\ completed' = completed \cup {i}
      BY <2>1, ReadFacts
    <3>3. cur[i] + n \in 0 .. Size /\ remote \in 0 .. Size
      BY <3>1, <3>2
    <3>4. partLen' \in 0 .. Size /\ partLen <= partLen' /\ cur[i] + n <= partLen'
      BY <3>1, <3>2, <3>3
    <3>5. good' \in SUBSET (0 .. partLen' - 1)
      <4> SUFFICES ASSUME NEW c \in good' PROVE c \in 0 .. partLen' - 1
        OBVIOUS
      <4>1. CASE c \in good
        <5>1. good \in SUBSET (0 .. partLen - 1) /\ partLen \in Nat /\ partLen' \in Nat /\ partLen <= partLen'
          BY <3>4
        <5>2. 0 .. partLen - 1 \subseteq 0 .. partLen' - 1
          BY ONLY <5>1, RangeGrows, Zenon
        <5> QED
          BY ONLY <4>1, <5>1, <5>2, Zenon
      <4>2. CASE c \in cur[i] .. cur[i] + n - 1
        <5>1. cur[i] \in Nat /\ n \in Nat /\ partLen' \in Nat /\ cur[i] + n <= partLen'
          BY <3>1, <3>4
        <5> QED
          BY ONLY <4>2, <5>1, RangeWithin
      <4> QED
        BY <3>2, <4>1, <4>2
    <3>6. cur' \in [Chunks -> 0 .. Size]
      BY <3>2, <3>3
    <3>7. inflight' \in SUBSET Chunks /\ completed' \in SUBSET Chunks
      BY <3>2
    <3> QED
      BY <2>1, <3>4, <3>5, <3>6, <3>7 DEF ChunkRead
  <2>2. CASE ChunkEof(i)
    BY <2>2 DEF ChunkEof
  <2>3. CASE ChunkFail(i)
    BY <2>3 DEF ChunkFail
  <2>4. CASE ChunkDropped(i)
    BY <2>4 DEF ChunkDropped
  <2>5. CASE ChunkVanish(i)
    BY <2>5 DEF ChunkVanish
  <2> QED
    BY <1>17, <2>1, <2>2, <2>3, <2>4, <2>5 DEF ChunkStep
<1>18. CASE UNCHANGED vars
  BY <1>18 DEF vars
<1> QED
  BY <1>1, <1>2, <1>3, <1>4, <1>5, <1>6, <1>7, <1>8, <1>9, <1>10, <1>11, <1>12, <1>13, <1>14,
     <1>15, <1>16, <1>17, <1>18 DEF Next, Outside, Attempt, Ended

------------------------------------------------------------------------------
(* Which cells hold fetched bytes. *)

\* Every step keeps where an attempt stands: no chunk task outlives its drain.
LEMMA PlanStep == TypeOK /\ Plan /\ [Next]_vars => Plan'
<1> SUFFICES ASSUME TypeOK, Plan, [Next]_vars PROVE Plan'
  OBVIOUS
<1> USE DEF Plan
<1>0. attempt \in 0 .. Attempts
  BY DEF TypeOK
<1>1. CASE Start
  BY <1>1 DEF Start
<1>2. CASE Stop
  BY <1>2 DEF Stop
<1>3. CASE Kill
  BY <1>3 DEF Kill
<1>4. CASE Shrink
  BY <1>4 DEF Shrink
<1>5. CASE Backoff
  BY <1>5 DEF Backoff
<1>6. CASE StatFail
  BY <1>0, <1>6, RetryFacts DEF StatFail
<1>7. CASE Stat
  BY <1>7 DEF Stat
<1>8. CASE OpenFail
  BY <1>0, <1>8, RetryFacts DEF OpenFail
<1>9. CASE Open
  BY <1>9 DEF Open
<1>10. CASE LastBatch
  BY <1>10 DEF LastBatch
<1>11. CASE SpawnWindow
  BY <1>11 DEF SpawnWindow
<1>12. CASE WindowBroken
  BY <1>12 DEF WindowBroken
<1>13. CASE WindowDone
  BY <1>13 DEF WindowDone
<1>14. CASE Promote
  BY <1>14 DEF Promote
<1>15. CASE PromoteFail
  BY <1>0, <1>15, RetryFacts DEF PromoteFail
<1>16. CASE CutBack
  <2>1. pc' \in {"idle", "backoff"}
    BY <1>0, <1>16, RetryFacts DEF CutBack, TypeOK
  <2> QED
    BY <1>16, <2>1 DEF CutBack
<1>17. ASSUME NEW i \in Chunks, ChunkStep(i) PROVE Plan'
  <2>1. /\ pc = "drain" /\ pc' = "drain" /\ UNCHANGED <<promoted, stopped>>
    BY <1>17 DEF ChunkStep, ChunkRead, ChunkEof, ChunkFail, ChunkDropped, ChunkVanish
  <2> QED
    BY <2>1
<1>18. CASE UNCHANGED vars
  BY <1>18 DEF vars
<1> QED
  BY <1>1, <1>2, <1>3, <1>4, <1>5, <1>6, <1>7, <1>8, <1>9, <1>10, <1>11, <1>12, <1>13, <1>14,
     <1>15, <1>16, <1>17, <1>18 DEF Next, Outside, Attempt, Ended

\* Every cell of the plan lies in one of its chunks.
LEMMA CellInChunk ==
  ASSUME TypeOK, Order, NEW c \in Nat, resume <= c, c < total
  PROVE  \E i \in Chunks : /\ ChunkStart(i) <= c /\ c < ChunkEnd(i)
                           /\ i * Chunk <= c - resume
<1>1. /\ resume \in 0 .. Size /\ total \in 0 .. Size /\ c - resume \in Nat
      /\ Size \in Nat /\ Chunk \in Nat
  BY ConstantFacts DEF TypeOK
<1>2. PICK i \in 0 .. c - resume : i * Chunk <= c - resume /\ c - resume < (i + 1) * Chunk
  BY <1>1, ChunkOf
<1>3. i \in Nat /\ i \in Chunks
  BY <1>1, <1>2 DEF Chunks
<1>4. i * Chunk \in Int /\ (i + 1) * Chunk = i * Chunk + Chunk
  BY <1>3, TimesNext
<1>5. ChunkStart(i) = resume + i * Chunk
  BY DEF ChunkStart
<1>6. ChunkStart(i) <= c /\ c < ChunkStart(i) + Chunk
  BY <1>1, <1>2, <1>4, <1>5
<1>7. ChunkEnd(i) = IF ChunkStart(i) + Chunk <= total THEN ChunkStart(i) + Chunk ELSE total
  BY <1>1, <1>3, ChunkBounds
<1> QED
  BY <1>2, <1>3, <1>6, <1>7

\* What a cell needs to hold fetched bytes: to lie below the resume point, or in a completed chunk.
LEMMA CellIsGood ==
  ASSUME TypeOK, Order, Filled, NEW c \in Nat, c < total,
         resume <= c => \E i \in completed : ChunkStart(i) <= c /\ c < ChunkEnd(i)
  PROVE  c \in good
<1>1. resume \in Nat /\ total \in Nat
  BY ConstantFacts DEF TypeOK
<1>2. CASE c < resume
  BY <1>1, <1>2 DEF Filled
<1>3. CASE resume <= c
  <2>1. PICK i \in completed : ChunkStart(i) <= c /\ c < ChunkEnd(i)
    BY <1>3
  <2>2. i \in Nat
    BY DEF TypeOK, Chunks
  <2>3. ChunkStart(i) \in Int /\ ChunkEnd(i) \in Int
    BY <1>1, <2>2, ChunkBounds, ConstantFacts DEF TypeOK
  <2>4. c \in ChunkStart(i) .. ChunkEnd(i) - 1
    BY <2>1, <2>3
  <2> QED
    BY <2>4 DEF Filled
<1> QED
  BY <1>1, <1>2, <1>3

\* An attempt that closes in good order has fetched every cell.
LEMMA WholeFacts ==
  ASSUME TypeOK, Order, Plan, Filled, pc = "close", failure = "none", ~stopped
  PROVE  good = Cells /\ partLen = Size
<1>1. /\ offset = total /\ total = Size /\ inflight = {} /\ ~vanished
      /\ Size \in Nat \ {0} /\ partLen \in 0 .. Size /\ good \in SUBSET (0 .. partLen - 1)
  BY ConstantFacts DEF Plan, Filled, TypeOK
<1>2. ASSUME NEW c \in Cells PROVE c \in good
  <2>1. c \in Nat /\ c < total
    BY <1>1 DEF Cells
  <2>2. ASSUME resume <= c PROVE \E i \in completed : ChunkStart(i) <= c /\ c < ChunkEnd(i)
    <3>1. PICK i \in Chunks : ChunkStart(i) <= c /\ c < ChunkEnd(i)
      BY <2>1, <2>2, CellInChunk
    <3>2. ChunkStart(i) < offset
      <4>1. i \in Nat /\ total \in Nat /\ resume \in 0 .. Size /\ total \in 0 .. Size
        BY <1>1 DEF TypeOK, Chunks
      <4>2. ChunkStart(i) \in Nat
        BY <4>1, ChunkBounds
      <4> QED
        BY <1>1, <2>1, <3>1, <4>1, <4>2
    <3>3. i \in completed
      BY <1>1, <3>2 DEF Filled
    <3> QED
      BY <3>1, <3>3
  <2> QED
    BY <2>1, <2>2, CellIsGood
<1>3. Size - 1 \in good
  BY <1>1, <1>2 DEF Cells
<1>4. partLen = Size
  BY <1>1, <1>3
<1> QED
  BY <1>1, <1>2, <1>4 DEF Cells

\* Below the watermark there is no hole.
LEMMA BelowWatermark ==
  ASSUME TypeOK, Order, Filled
  PROVE  0 .. Watermark - 1 \subseteq good
<1>1. /\ Watermark \in Nat /\ Watermark <= total /\ Watermark <= resume + Contiguous * Chunk
      /\ resume \in Nat /\ total \in Nat /\ Contiguous \in Nat /\ Chunk \in Nat /\ Size \in Nat
  BY WatermarkFacts, ContiguousFacts, ConstantFacts DEF TypeOK
<1> SUFFICES ASSUME NEW c \in Nat, c < Watermark PROVE c \in good
  BY <1>1
<1>2. c < total
  BY <1>1
<1>3. ASSUME resume <= c PROVE \E i \in completed : ChunkStart(i) <= c /\ c < ChunkEnd(i)
  <2>1. PICK i \in Chunks : ChunkStart(i) <= c /\ c < ChunkEnd(i) /\ i * Chunk <= c - resume
    BY <1>2, <1>3, CellInChunk
  <2>2. i \in 0 .. Size /\ i \in Nat
    BY <1>1 DEF Chunks
  <2>3. i < Contiguous
    <3> SUFFICES ASSUME Contiguous <= i PROVE FALSE
      BY <1>1, <2>2
    <3>1. Contiguous * Chunk <= i * Chunk
      BY <1>1, <2>2, TimesGrows
    <3>2. Contiguous * Chunk \in Int /\ i * Chunk \in Int
      BY <1>1, <2>2, TimesNext
    <3> QED
      BY <1>1, <2>1, <3>1, <3>2
  <2>4. i \in completed
    BY <2>2, <2>3, ContiguousFacts
  <2> QED
    BY <2>1, <2>4
<1> QED
  BY <1>2, <1>3, CellIsGood

\* Steps that fetch nothing keep what is filled, and may end a chunk only with a failure.
LEMMA FilledKept ==
  ASSUME Filled, UNCHANGED <<resume, total, offset, cur, completed, good>>, inflight' \subseteq inflight,
         failure' = "none" /\ ~vanished' => failure = "none" /\ ~vanished /\ inflight' = inflight
  PROVE  Filled'
<1>1. \A i : ChunkStart(i)' = ChunkStart(i) /\ ChunkEnd(i)' = ChunkEnd(i)
  BY DEF ChunkStart, ChunkEnd
<1> QED
  BY <1>1 DEF Filled

\* The first window finds the resume point's prefix; a later one adds chunks that have read nothing.
LEMMA SpawnFills ==
  ASSUME TypeOK, Order, Plan, Filled, SpawnWindow PROVE Filled'
<1>1. /\ inflight = {} /\ failure = "none" /\ ~vanished
      /\ UNCHANGED <<resume, total, completed, good, failure, vanished>>
      /\ inflight' = {i \in Chunks : ChunkStart(i) \in offset .. offset' - 1}
      /\ cur' = [i \in Chunks |-> IF i \in inflight' THEN ChunkStart(i) ELSE 0]
  BY DEF SpawnWindow, Plan
<1>2. /\ offset \in 0 .. Size /\ total \in 0 .. Size /\ resume \in 0 .. Size
      /\ offset' \in 0 .. Size /\ offset' <= total /\ Size \in Nat /\ Chunk \in Nat \ {0}
  BY OffsetFacts, ConstantFacts DEF SpawnWindow, TypeOK
<1>3. \A i : ChunkStart(i)' = ChunkStart(i) /\ ChunkEnd(i)' = ChunkEnd(i)
  BY <1>1 DEF ChunkStart, ChunkEnd
<1>4. ASSUME NEW i \in Chunks
      PROVE  /\ ChunkStart(i) \in Nat
             /\ ChunkEnd(i) = IF ChunkStart(i) + Chunk <= total THEN ChunkStart(i) + Chunk ELSE total
  BY <1>2, ChunkBounds DEF Chunks
<1>5. ASSUME NEW i \in inflight'
      PROVE  /\ ChunkStart(i) <= cur'[i] /\ cur'[i] < ChunkEnd(i)
             /\ ChunkStart(i) .. cur'[i] - 1 \subseteq good
  <2>1. i \in Chunks /\ ChunkStart(i) \in offset .. offset' - 1 /\ cur'[i] = ChunkStart(i)
    BY <1>1
  <2>2. ChunkStart(i) \in Nat /\ ChunkStart(i) < total
    BY <1>2, <1>4, <2>1
  <2>3. ChunkStart(i) < ChunkEnd(i)
    BY <1>2, <1>4, <2>1, <2>2
  <2> QED
    BY <2>1, <2>2, <2>3
<1>6. ASSUME NEW i \in Chunks, ChunkStart(i) < offset' PROVE i \in completed \cup inflight'
  <2>1. CASE ChunkStart(i) < offset
    BY <1>1, <2>1 DEF Filled
  <2>2. CASE ~ (ChunkStart(i) < offset)
    BY <1>1, <1>2, <1>4, <1>6, <2>2
  <2> QED
    BY <2>1, <2>2
<1> QED
  BY <1>1, <1>3, <1>5, <1>6 DEF Filled

\* A read extends what its chunk holds, and completes the chunk when it reaches its end.
LEMMA ReadFills ==
  ASSUME TypeOK, Order, Filled, NEW i \in Chunks, ChunkRead(i) PROVE Filled'
<1>1. PICK n \in Nat \ {0} :
         /\ cur[i] + n <= remote /\ cur[i] + n <= ChunkEnd(i)
         /\ good' = good \cup (cur[i] .. cur[i] + n - 1)
         /\ cur' = [cur EXCEPT ![i] = @ + n]
         /\ IF cur[i] + n < ChunkEnd(i)
            THEN UNCHANGED <<inflight, completed>>
            ELSE inflight' = inflight \ {i} /\ completed' = completed \cup {i}
  BY ReadFacts
<1>2. i \in inflight /\ UNCHANGED <<resume, total, offset, failure, vanished>>
  BY DEF ChunkRead
<1>3. \A j : ChunkStart(j)' = ChunkStart(j) /\ ChunkEnd(j)' = ChunkEnd(j)
  BY <1>2 DEF ChunkStart, ChunkEnd
<1>4. i \in Nat /\ cur[i] \in Nat /\ ChunkStart(i) \in Nat /\ ChunkEnd(i) \in Nat
  <2>1. i \in Nat /\ cur[i] \in Nat /\ resume \in 0 .. Size /\ total \in 0 .. Size
    BY DEF TypeOK, Chunks
  <2> QED
    BY <2>1, ChunkBounds
<1>5. ChunkStart(i) .. cur[i] + n - 1 \subseteq good'
  <2>1. ChunkStart(i) .. cur[i] - 1 \subseteq good
    BY <1>2 DEF Filled
  <2> SUFFICES ASSUME NEW c \in Int, ChunkStart(i) <= c, c <= cur[i] + n - 1 PROVE c \in good'
    BY <1>4
  <2>2. CASE c < cur[i]
    BY <1>1, <1>4, <2>1, <2>2
  <2>3. CASE cur[i] <= c
    BY <1>1, <1>4, <2>3
  <2> QED
    BY <1>4, <2>2, <2>3
<1>6. ASSUME NEW j \in completed' PROVE ChunkStart(j) .. ChunkEnd(j) - 1 \subseteq good'
  <2>1. CASE j \in completed
    BY <1>1, <2>1 DEF Filled
  <2>2. CASE j \notin completed
    <3>1. j = i /\ ~ (cur[i] + n < ChunkEnd(i))
      BY <1>1, <2>2
    <3>2. cur[i] + n = ChunkEnd(i)
      BY <1>1, <1>4, <3>1
    <3>3. ChunkStart(j) .. ChunkEnd(j) - 1 = ChunkStart(i) .. cur[i] + n - 1
      BY <1>4, <3>1, <3>2
    <3> QED
      BY <1>5, <3>3
  <2> QED
    BY <2>1, <2>2
<1>7. ASSUME NEW j \in inflight'
      PROVE  /\ ChunkStart(j) <= cur'[j] /\ cur'[j] < ChunkEnd(j)
             /\ ChunkStart(j) .. cur'[j] - 1 \subseteq good'
  <2>1. j \in inflight /\ j \in Chunks
    BY <1>1 DEF TypeOK
  <2>2. CASE j = i
    <3>1. cur[i] + n < ChunkEnd(i)
      BY <1>1, <1>7, <2>2
    <3>2. cur'[i] = cur[i] + n
      BY <1>1 DEF TypeOK
    <3>3. ChunkStart(i) <= cur[i]
      BY <1>2 DEF Filled
    <3> QED
      BY <1>4, <1>5, <2>2, <3>1, <3>2, <3>3
  <2>3. CASE j # i
    <3>1. cur'[j] = cur[j]
      BY <1>1, <2>1, <2>3 DEF TypeOK
    <3> QED
      BY <1>1, <2>1, <3>1 DEF Filled
  <2> QED
    BY <2>2, <2>3
<1>8. completed \cup inflight \subseteq completed' \cup inflight'
  BY <1>1
<1> QED
  BY <1>1, <1>2, <1>3, <1>6, <1>7, <1>8 DEF Filled

\* Every step of an undisturbed download keeps what the `.part` and the final file hold.
LEMMA KeptStep == TypeOK /\ Order /\ Plan /\ Kept /\ [Next]_vars => Kept'
<1> SUFFICES ASSUME TypeOK, Order, Plan, Kept, [Next]_vars, Undisturbed'
             PROVE  /\ pc' \in {"idle", "stat", "backoff", "open"} => good' = 0 .. partLen' - 1
                    /\ promoted' => final' = Cells
                    /\ Running' => Filled'
  BY DEF Kept
<1>a. /\ attempt \in 0 .. Attempts /\ kills \in Nat /\ remote \in 0 .. Size /\ Size \in Nat
      /\ partLen \in 0 .. Size /\ resume \in 0 .. Size /\ total \in 0 .. Size /\ resume <= total
  BY ConstantFacts DEF TypeOK, Order
<1>b. Undisturbed
  <2>1. remote' = remote \/ remote' \in 0 .. Size - 1
    BY DEF Next, Outside, Attempt, Ended, ChunkStep, Start, Stop, Kill, Shrink, Backoff, StatFail, Stat,
           OpenFail, Open, LastBatch, SpawnWindow, WindowBroken, WindowDone, Promote, PromoteFail, CutBack,
           ChunkRead, ChunkEof, ChunkFail, ChunkDropped, ChunkVanish, vars
  <2>2. kills' = kills \/ kills' = kills + 1
    BY DEF Next, Outside, Attempt, Ended, ChunkStep, Start, Stop, Kill, Shrink, Backoff, StatFail, Stat,
           OpenFail, Open, LastBatch, SpawnWindow, WindowBroken, WindowDone, Promote, PromoteFail, CutBack,
           ChunkRead, ChunkEof, ChunkFail, ChunkDropped, ChunkVanish, vars
  <2> QED
    BY <1>a, <2>1, <2>2 DEF Undisturbed
<1>c. /\ pc \in {"idle", "stat", "backoff", "open"} => good = 0 .. partLen - 1
      /\ promoted => final = Cells
      /\ Running => Filled
  BY <1>b DEF Kept
<1> USE DEF Running
<1>1. CASE Start
  BY <1>c, <1>1 DEF Start
<1>2. CASE Stop
  BY <1>c, <1>2, FilledKept DEF Stop
<1>3. CASE Kill
  BY <1>a, <1>3 DEF Kill, Undisturbed
<1>4. CASE Shrink
  BY <1>a, <1>4 DEF Shrink, Undisturbed
<1>5. CASE Backoff
  BY <1>c, <1>5 DEF Backoff
<1>6. CASE StatFail
  BY <1>a, <1>c, <1>6, RetryFacts DEF StatFail
<1>7. CASE Stat
  <2>1. /\ pc = "stat" /\ total' = Size /\ resume' = partLen /\ offset' = resume'
        /\ completed' = {} /\ inflight' = {} /\ pc' = "open" /\ UNCHANGED <<promoted, final>>
    BY <1>a, <1>b, <1>7 DEF Stat, Undisturbed, Plan
  <2>2. good' = 0 .. partLen' - 1 /\ partLen' = partLen
    <3>1. CASE resume' = 0
      BY <1>7, <2>1, <3>1 DEF Stat
    <3>2. CASE resume' # 0
      BY <1>c, <1>7, <2>1, <3>2 DEF Stat
    <3> QED
      BY <3>1, <3>2
  <2>3. ASSUME NEW i \in Chunks PROVE ~ (ChunkStart(i)' < offset')
    <3>1. i * Chunk \in Nat
      BY ConstantFacts, TimesNext DEF Chunks
    <3>2. ChunkStart(i)' = resume' + i * Chunk
      BY DEF ChunkStart
    <3> QED
      BY <1>a, <2>1, <3>1, <3>2
  <2>4. Filled'
    BY <2>1, <2>2, <2>3 DEF Filled
  <2> QED
    BY <1>c, <2>1, <2>2, <2>4
<1>8. CASE OpenFail
  BY <1>a, <1>c, <1>8, RetryFacts DEF OpenFail
<1>9. CASE Open
  BY <1>c, <1>9, FilledKept DEF Open
<1>10. CASE LastBatch
  BY <1>c, <1>10, FilledKept DEF LastBatch
<1>11. CASE SpawnWindow
  <2>1. pc = "batch" /\ pc' = "drain" /\ UNCHANGED <<promoted, final>>
    BY <1>11 DEF SpawnWindow
  <2> QED
    BY <1>c, <1>11, <2>1, SpawnFills
<1>12. CASE WindowBroken
  <2>1. failure' = "none" => failure = "none"
    BY <1>12 DEF WindowBroken
  <2> QED
    BY <1>c, <1>12, <2>1, FilledKept DEF WindowBroken
<1>13. CASE WindowDone
  BY <1>c, <1>13, FilledKept DEF WindowDone
<1>14. CASE Promote
  <2>1. good = Cells
    BY <1>c, <1>14, WholeFacts DEF Promote
  <2> QED
    BY <1>14, <2>1 DEF Promote
<1>15. CASE PromoteFail
  <2>1. good = Cells /\ partLen = Size
    BY <1>c, <1>15, WholeFacts DEF PromoteFail
  <2> QED
    BY <1>a, <1>c, <1>15, <2>1, RetryFacts DEF PromoteFail, Cells
<1>16. CASE CutBack
  <2>1. 0 .. Watermark - 1 \subseteq good
    BY <1>c, <1>16, BelowWatermark DEF CutBack
  <2>2. pc' \in {"idle", "backoff"}
    BY <1>a, <1>16, RetryFacts DEF CutBack, TypeOK
  <2> QED
    BY <1>c, <1>16, <2>1, <2>2 DEF CutBack
<1>17. ASSUME NEW i \in Chunks, ChunkStep(i)
       PROVE  pc' = "drain" /\ Filled' /\ UNCHANGED <<promoted, final>>
  <2>1. /\ pc = "drain" /\ pc' = "drain" /\ UNCHANGED <<promoted, final>> /\ i \in inflight
    BY <1>17, <1>a, <1>b, <1>c, Plan DEF ChunkStep, ChunkRead, ChunkEof, ChunkFail, ChunkDropped, ChunkVanish, Plan
  <2>2. Filled
    BY <1>c, <2>1
  <2>3. CASE ChunkRead(i)
    BY <2>1, <2>2, <2>3, ReadFills
  <2>4. CASE ChunkEof(i)
    <3>1. cur[i] < ChunkEnd(i) /\ total = Size
      BY <2>1, <2>2 DEF Filled
    <3>2. ChunkEnd(i) \in Nat /\ ChunkEnd(i) <= total
      BY <1>a, ChunkBounds DEF Chunks
    <3>3. cur[i] \in Nat
      BY DEF TypeOK
    <3> QED
      BY <1>a, <1>b, <2>4, <3>1, <3>2, <3>3 DEF ChunkEof, Undisturbed
  <2>5. CASE ChunkFail(i)
    BY <2>1, <2>2, <2>5, FilledKept DEF ChunkFail
  <2>6. CASE ChunkDropped(i)
    BY <2>1, <2>2, <2>6, FilledKept DEF ChunkDropped
  <2>7. CASE ChunkVanish(i)
    BY <2>1, <2>2, <2>7, FilledKept DEF ChunkVanish
  <2> QED
    BY <1>17, <2>1, <2>3, <2>4, <2>5, <2>6, <2>7 DEF ChunkStep
<1>18. CASE UNCHANGED vars
  BY <1>c, <1>18, FilledKept DEF vars
<1> QED
  BY <1>c, <1>1, <1>2, <1>3, <1>4, <1>5, <1>6, <1>7, <1>8, <1>9, <1>10, <1>11, <1>12, <1>13, <1>14,
     <1>15, <1>16, <1>17, <1>18 DEF Next, Outside, Attempt, Ended

------------------------------------------------------------------------------
(* The theorems. *)

\* Before the first download the invariant holds.
LEMMA InitIInv == Init => IInv
<1> SUFFICES ASSUME Init PROVE IInv
  OBVIOUS
<1> USE ConstantFacts DEF Init
<1>1. TypeOK
  <2>1. WindowMin \in WindowMin .. WindowMax /\ 0 \in 0 .. Size /\ 0 \in 0 .. Attempts
    OBVIOUS
  <2>2. cur \in [Chunks -> 0 .. Size]
    BY <2>1
  <2>3. good \in SUBSET (0 .. partLen - 1) /\ final \in SUBSET Cells
    OBVIOUS
  <2>4. remote \in 0 .. Size /\ starts \in 0 .. MaxStarts /\ kills \in 0 .. MaxKills
    OBVIOUS
  <2> QED
    BY <2>1, <2>2, <2>3, <2>4 DEF TypeOK, PcStates
<1>2. Order /\ Plan /\ Kept
  BY DEF Order, Plan, Kept, Running
<1> QED
  BY <1>1, <1>2 DEF IInv

\* The invariant is inductive.
LEMMA StepIInv == IInv /\ [Next]_vars => IInv'
  BY TypeStep, PlanStep, KeptStep DEF IInv

\* Whatever the file, the chunks and the windows, an attempt's plan stays within the file,
\* its counters within their bounds, and the fetched cells below the length of the `.part`.
THEOREM TypeCorrect == Spec => []TypeOK
<1>1. IInv => TypeOK
  BY DEF IInv
<1> QED
  BY InitIInv, StepIInv, <1>1, PTL DEF Spec

\* For every size, window and number of retries: between attempts the `.part` has no hole
\* below its length, however the chunks of a window ended.
THEOREM PartIsPrefixCorrect == Spec => []PartIsPrefix
<1>1. IInv => PartIsPrefix
  BY DEF IInv, Kept, PartIsPrefix
<1> QED
  BY InitIInv, StepIInv, <1>1, PTL DEF Spec

\* For every size, window and number of retries: what is renamed to the final name is the
\* whole remote file.
THEOREM PromotedIsWholeCorrect == Spec => []PromotedIsWhole
<1>1. IInv => PromotedIsWhole
  BY DEF IInv, Kept, PromotedIsWhole
<1> QED
  BY InitIInv, StepIInv, <1>1, PTL DEF Spec

------------------------------------------------------------------------------
(* No attempt begins before the one it follows. *)

\* The `.part` is never cut below the point its last attempt began at.
Floor == ~promoted => resume <= partLen

\* Every step keeps the `.part` at least that long: reads lengthen it, and the cut is the watermark.
LEMMA FloorStep == IInv /\ Floor /\ [Next]_vars => Floor'
<1> SUFFICES ASSUME IInv, Floor, [Next]_vars PROVE Floor'
  OBVIOUS
<1> USE DEF Floor
<1>1. TypeOK /\ Order /\ resume \in 0 .. Size /\ partLen \in 0 .. Size
  BY DEF IInv, TypeOK
<1>2. CASE Stat
  <2>1. CASE resume' = 0
    BY <1>2, <2>1 DEF Stat
  <2>2. CASE resume' # 0
    BY <1>1, <1>2, <2>2 DEF Stat
  <2> QED
    BY <2>1, <2>2
<1>3. CASE Promote
  BY <1>3 DEF Promote
<1>4. CASE CutBack
  <2>1. resume <= Watermark
    BY <1>1, WatermarkFacts
  <2> QED
    BY <1>4, <2>1 DEF CutBack
<1>5. ASSUME NEW i \in Chunks, ChunkRead(i) PROVE Floor'
  <2>1. /\ promoted' = promoted /\ resume' = resume
        /\ \E n \in Nat \ {0} :
             partLen' = (IF partLen >= cur[i] + n THEN partLen ELSE cur[i] + n)
    BY <1>1, <1>5, ReadFacts DEF ChunkRead
  <2>2. cur[i] \in Nat
    BY <1>1 DEF TypeOK
  <2> QED
    BY <1>1, <2>1, <2>2
<1>6. CASE UNCHANGED <<promoted, resume, partLen>>
  BY <1>6
<1> QED
  BY <1>2, <1>3, <1>4, <1>5, <1>6
     DEF Next, Outside, Attempt, Ended, ChunkStep, Start, Stop, Kill, Shrink, Backoff, StatFail,
         OpenFail, Open, LastBatch, SpawnWindow, WindowBroken, WindowDone, PromoteFail,
         ChunkEof, ChunkFail, ChunkDropped, ChunkVanish, vars

\* A step leaves the resume point where it is, or moves it on.
LEMMA OnwardStep == IInv /\ Floor /\ [Next]_vars => [remote' = Size => resume' >= resume]_vars
<1> SUFFICES ASSUME IInv, Floor, [Next]_vars, remote' = Size PROVE resume' >= resume
  OBVIOUS
<1>1. resume \in 0 .. Size /\ partLen \in 0 .. Size
  BY DEF IInv, TypeOK
<1>2. CASE Stat
  <2>1. ~promoted /\ remote = Size
    BY <1>2 DEF IInv, Plan, Stat
  <2> QED
    BY <1>1, <1>2, <2>1 DEF Stat, Floor
<1>3. CASE resume' = resume
  BY <1>1, <1>3
<1> QED
  BY <1>2, <1>3
     DEF Next, Outside, Attempt, Ended, ChunkStep, Start, Stop, Kill, Shrink, Backoff, StatFail,
         OpenFail, Open, LastBatch, SpawnWindow, WindowBroken, WindowDone, Promote, PromoteFail, CutBack,
         ChunkRead, ChunkEof, ChunkFail, ChunkDropped, ChunkVanish, vars

\* However often a link breaks, is paused or aborted: while the server's file stays as it is,
\* no attempt resumes before the point where the one before it resumed.
THEOREM NeverStartsOverCorrect == Spec => NeverStartsOver
<1>1. Init => IInv /\ Floor
  BY InitIInv DEF Init, Floor
<1>2. IInv /\ Floor /\ [Next]_vars => IInv' /\ Floor'
  BY StepIInv, FloorStep
<1> QED
  BY <1>1, <1>2, OnwardStep, PTL DEF Spec, NeverStartsOver

\* Once the stop token is set chunk tasks end and none is put in flight.
LEMMA StoppedStep == [Next]_vars => [stop => inflight' \subseteq inflight]_vars
BY DEF Next, Outside, Attempt, Ended, ChunkStep, Start, Stop, Kill, Shrink, Backoff, Stat, StatFail,
       OpenFail, Open, LastBatch, SpawnWindow, WindowBroken, WindowDone, Promote, PromoteFail, CutBack,
       ChunkRead, ChunkEof, ChunkFail, ChunkDropped, ChunkVanish, vars

\* A stop of the download is final for the attempt: no further read is put in flight.
THEOREM StopSpawnsNothingCorrect == Spec => StopSpawnsNothing
BY StoppedStep, PTL DEF Spec, StopSpawnsNothing

HIDE DEF fileVars, planVars, chunkVars, endVars

------------------------------------------------------------------------------
(* The upload.                                                              *)

\* Of each cell of s the cells below are in P or come before it in s.
InOrder(s, P) == \A i \in DOMAIN s : \A c \in 0 .. s[i] - 1 : c \in P \/ \E j \in 1 .. i - 1 : s[j] = c

\* P is the first cells of the file.
IsPrefix(P) == \E n \in 0 .. PutCells : P = 0 .. n - 1

\* What the loop counts, and where writes are in flight.
Counted == /\ upc = "backoff" => try < Tries
           /\ upc \notin {"write", "halt", "flush"} => pending = <<>>

\* While nothing disturbs the upload: the `.part` is a prefix and stays one, whichever of the
\* writes on their way is handled next; what the attempt has sent, it has or will get.
PartKept ==
  /\ IsPrefix(scratch)
  /\ InOrder(pending, scratch) /\ InOrder(late, scratch)
  /\ upc \in {"open", "write", "flush"} => 0 .. next - 1 \subseteq scratch \cup Range(pending)
  /\ upc = "flush" => next = PutCells
  /\ upc \in {"remove", "rename"} => scratch = Put!Row
  /\ dest # "torn"
  /\ dest = "absent" => scratch = Put!Row /\ (upc = "open" => next = PutCells)

UploadInv == Put!TypeOK /\ Counted /\ (~disturbed => PartKept)

\* A sequence over a subset is one over the set.
LEMMA SeqOfSub == ASSUME NEW S, NEW T, S \subseteq T PROVE Seq(S) \subseteq Seq(T)
<1> SUFFICES ASSUME NEW s \in Seq(S) PROVE s \in Seq(T)
  OBVIOUS
<1>1. Len(s) \in Nat /\ s \in [1 .. Len(s) -> S]
  OBVIOUS
<1>2. s \in [1 .. Len(s) -> T]
  BY <1>1
<1> QED
  BY <1>1, <1>2

\* No writes are in order.
LEMMA OrderNil == \A P : InOrder(<<>>, P)
BY DEF InOrder

\* What is in order beside P is in order beside more.
LEMMA OrderMore ==
  ASSUME NEW s, NEW P, NEW Q, P \subseteq Q, InOrder(s, P)
  PROVE  InOrder(s, Q)
BY DEF InOrder

\* A cell joins a sequence once every cell below it is there or in P.
LEMMA OrderAppend ==
  ASSUME NEW s \in Seq(Nat), NEW e \in Nat, NEW P, InOrder(s, P), 0 .. e - 1 \subseteq P \cup Range(s)
  PROVE  InOrder(Append(s, e), P)
<1>1. /\ DOMAIN Append(s, e) = 1 .. Len(s) + 1 /\ Append(s, e)[Len(s) + 1] = e
      /\ Len(s) \in Nat /\ DOMAIN s = 1 .. Len(s) /\ \A i \in 1 .. Len(s) : Append(s, e)[i] = s[i]
  OBVIOUS
<1> DEFINE t == Append(s, e)
<1>2. \A i \in 1 .. Len(s) + 1 : i \in 1 .. Len(s) \/ i = Len(s) + 1
  BY <1>1
<1> SUFFICES ASSUME NEW i \in 1 .. Len(s) + 1, NEW c \in 0 .. t[i] - 1, c \notin P
             PROVE  \E j \in 1 .. i - 1 : t[j] = c
  BY <1>1 DEF InOrder
<1>3. CASE i \in 1 .. Len(s)
  <2>1. PICK j \in 1 .. i - 1 : s[j] = c
    BY <1>1, <1>3 DEF InOrder
  <2> QED
    BY <1>1, <1>3, <2>1
<1>4. CASE i = Len(s) + 1
  <2>1. PICK j \in 1 .. Len(s) : s[j] = c
    BY <1>1, <1>4 DEF Range
  <2> QED
    BY <1>1, <1>4, <2>1
<1> QED
  BY <1>2, <1>3, <1>4

\* Writes that were in order beside P stay so behind others that are.
LEMMA OrderConcat ==
  ASSUME NEW s \in Seq(Nat), NEW t \in Seq(Nat), NEW P, InOrder(s, P), InOrder(t, P)
  PROVE  InOrder(s \o t, P)
<1> DEFINE u == s \o t
<1>1. /\ Len(s) \in Nat /\ Len(t) \in Nat /\ DOMAIN s = 1 .. Len(s) /\ DOMAIN t = 1 .. Len(t)
      /\ DOMAIN u = 1 .. Len(s) + Len(t)
      /\ \A i \in 1 .. Len(s) + Len(t) : u[i] = IF i <= Len(s) THEN s[i] ELSE t[i - Len(s)]
  BY ConcatProperties
<1> HIDE DEF u
<1> SUFFICES ASSUME NEW i \in 1 .. Len(s) + Len(t), NEW c \in 0 .. u[i] - 1, c \notin P
             PROVE  \E j \in 1 .. i - 1 : u[j] = c
  BY <1>1 DEF InOrder, u
<1>2. CASE i <= Len(s)
  <2>1. i \in 1 .. Len(s) /\ c \in 0 .. s[i] - 1
    BY <1>1, <1>2
  <2>2. PICK j \in 1 .. i - 1 : s[j] = c
    BY <1>1, <2>1 DEF InOrder
  <2>3. j \in 1 .. Len(s) + Len(t) /\ j <= Len(s)
    BY <1>1, <2>1
  <2> QED
    BY <1>1, <2>2, <2>3
<1>3. CASE i > Len(s)
  <2> DEFINE k == i - Len(s)
  <2>1. k \in Int /\ k \in 1 .. Len(t) /\ i = k + Len(s)
    BY <1>1, <1>3
  <2>2. c \in 0 .. t[k] - 1
    BY <1>1, <1>3
  <2> HIDE DEF k
  <2>3. PICK j \in 1 .. k - 1 : t[j] = c
    BY <1>1, <2>1, <2>2 DEF InOrder
  <2> DEFINE m == Len(s)
             n == Len(t)
             l == j + m
  <2> HIDE DEF m, n
  <2>m. m \in Nat /\ n \in Nat /\ k \in Int /\ k \in 1 .. n /\ i = k + m /\ j \in 1 .. k - 1
    BY <1>1, <2>1, <2>3 DEF m, n
  <2>4. l \in 1 .. i - 1 /\ l \in 1 .. m + n /\ ~(l <= m) /\ l - m = j
    BY ONLY <2>m
  <2> HIDE DEF l
  <2>5. u[l] = t[l - m]
    BY ONLY <1>1, <2>4 DEF m, n
  <2> QED
    BY <2>3, <2>4, <2>5
<1> QED
  BY <1>1, <1>2, <1>3

\* Handling the first of the writes moves its cell to P.
LEMMA OrderTail ==
  ASSUME NEW s \in Seq(Nat), s # <<>>, NEW P, InOrder(s, P)
  PROVE  0 .. Head(s) - 1 \subseteq P /\ InOrder(Tail(s), P \cup {Head(s)})
<1>1. /\ Head(s) = s[1] /\ Len(s) \in Nat /\ Len(s) > 0 /\ DOMAIN s = 1 .. Len(s)
      /\ DOMAIN Tail(s) = 1 .. Len(s) - 1
      /\ \A i \in 1 .. Len(s) - 1 : i + 1 \in 1 .. Len(s) /\ Tail(s)[i] = s[i + 1]
  BY HeadTailProperties
<1>2. 0 .. Head(s) - 1 \subseteq P
  <2> SUFFICES ASSUME NEW c \in 0 .. s[1] - 1 PROVE c \in P
    BY <1>1
  <2> QED
    BY <1>1 DEF InOrder
<1>3. ASSUME NEW i \in 1 .. Len(s) - 1, NEW c \in 0 .. Tail(s)[i] - 1, c \notin P \cup {Head(s)}
      PROVE  \E j \in 1 .. i - 1 : Tail(s)[j] = c
  <2>1. PICK j \in 1 .. i : s[j] = c
    BY <1>1, <1>3 DEF InOrder
  <2>2. j # 1
    BY <1>1, <1>3, <2>1
  <2>3. j - 1 \in 1 .. i - 1 /\ Tail(s)[j - 1] = s[j]
    BY <1>1, <2>1, <2>2
  <2> QED
    BY <2>1, <2>3
<1> QED
  BY <1>1, <1>2, <1>3 DEF InOrder

\* The constants, one by one.
LEMMA UploadConstants == /\ PutCells \in Nat /\ Writes \in Nat /\ Tries \in Nat /\ Tries # 0
                       /\ MaxUploads \in Nat /\ MaxAborts \in Nat /\ MaxResumes \in Nat /\ MaxLosses \in Nat
BY WorkersAssumption

\* No cell is a prefix.
LEMMA NoCells == IsPrefix({})
<1>1. 0 \in 0 .. PutCells /\ {} = 0 .. 0 - 1
  BY UploadConstants
<1> QED
  BY <1>1 DEF IsPrefix

\* A prefix with the cell after it, or one of its own, is a prefix.
LEMMA PrefixGrows ==
  ASSUME NEW P, IsPrefix(P), NEW c \in Put!Row, 0 .. c - 1 \subseteq P
  PROVE  IsPrefix(P \cup {c})
<1>1. PICK n \in 0 .. PutCells : P = 0 .. n - 1
  BY DEF IsPrefix
<1>2. PutCells \in Nat /\ c \in 0 .. PutCells - 1
  BY UploadConstants DEF Put!Row
<1>3. CASE c < n
  <2>1. P \cup {c} = 0 .. n - 1
    BY <1>1, <1>2, <1>3
  <2> QED
    BY <2>1 DEF IsPrefix
<1>4. CASE c >= n
  <2>1. c = n
    <3> SUFFICES ASSUME c > n PROVE FALSE
      BY <1>2, <1>4
    <3>1. n \in 0 .. c - 1 /\ n \notin 0 .. n - 1
      BY <1>2
    <3> QED
      BY <1>1, <3>1
  <2>2. P \cup {c} = 0 .. (n + 1) - 1 /\ n + 1 \in 0 .. PutCells
    BY <1>1, <1>2, <2>1
  <2> QED
    BY <2>2 DEF IsPrefix
<1> QED
  BY <1>2, <1>3, <1>4

\* The length of a `.part` is one more than its last cell.
LEMMA LengthFacts ==
  ASSUME PutCells \in Nat, scratch \subseteq Put!Row
  PROVE  /\ Put!Length \in 0 .. PutCells
         /\ \A n \in 0 .. PutCells : scratch = 0 .. n - 1 => Put!Length = n
<1> DEFINE Above(n) == n - 1 \in scratch /\ \A c \in scratch : c < n
<1>1. ASSUME scratch # {} PROVE \E n \in 1 .. PutCells : Above(n)
  <2> DEFINE S == {n \in Nat : \A c \in scratch : c < n}
  <2>1. scratch \subseteq Nat /\ PutCells \in S /\ S \subseteq Nat
    BY DEF Put!Row
  <2> HIDE DEF S
  <2>2. PICK m \in S : \A k \in S : m <= k
    BY <2>1, LeastOf
  <2>3. m \in Nat /\ m <= PutCells /\ \A c \in scratch : c < m
    BY <2>1, <2>2 DEF S
  <2>4. m # 0
    <3>1. PICK c \in scratch : TRUE
      BY <1>1
    <3> QED
      BY <2>1, <2>3, <3>1
  <2>5. m - 1 \in Nat /\ m - 1 \notin S
    BY <2>2, <2>3, <2>4
  <2>6. PICK c \in scratch : ~(c < m - 1)
    BY <2>5 DEF S
  <2>7. c = m - 1
    BY <2>1, <2>3, <2>6
  <2> QED
    BY <2>3, <2>4, <2>6, <2>7
<1>2. Put!Length = IF scratch = {} THEN 0 ELSE CHOOSE n \in 1 .. PutCells : Above(n)
  BY DEF Put!Length
<1>3. ASSUME scratch # {} PROVE Put!Length \in 1 .. PutCells /\ Above(Put!Length)
  BY <1>1, <1>2, <1>3
<1>4. ASSUME NEW n \in 0 .. PutCells, scratch = 0 .. n - 1 PROVE Put!Length = n
  <2>1. CASE n = 0
    BY <1>2, <1>4, <2>1
  <2>2. CASE n # 0
    <3>1. n - 1 \in scratch
      BY <1>4, <2>2
    <3>2. Put!Length \in 1 .. PutCells /\ Put!Length - 1 \in 0 .. n - 1 /\ n - 1 < Put!Length
      BY <1>3, <1>4, <3>1
    <3> QED
      BY <3>2
  <2> QED
    BY <2>1, <2>2
<1> QED
  BY <1>2, <1>3, <1>4

\* Nothing has been sent at first.
LEMMA PutInit == Put!UploadInit => UploadInv
<1> SUFFICES ASSUME Put!UploadInit PROVE UploadInv
  OBVIOUS
<1>1. scratch = {} /\ pending = <<>> /\ late = <<>> /\ dest = "old" /\ upc = "idle"
  BY DEF Put!UploadInit
<1>2. Put!TypeOK
  <2>1. {refused, stopReq, disturbed} = {FALSE} /\ try = 0 /\ next = 0 /\ uploads = 0 /\ aborts = 0
    BY DEF Put!UploadInit
  <2>2. 0 \in 0 .. Tries /\ 0 \in 0 .. PutCells /\ 0 \in 0 .. MaxUploads /\ 0 \in 0 .. MaxAborts
    BY UploadConstants
  <2>3. pending \in Seq(Put!Row) /\ late \in Seq(Put!Row) /\ Len(pending) <= Writes
    BY <1>1, UploadConstants
  <2> QED
    BY <1>1, <2>1, <2>2, <2>3 DEF Put!TypeOK
<1>4. Counted
  BY <1>1 DEF Counted
<1>3. PartKept
  BY <1>1, NoCells, OrderNil DEF PartKept
<1> QED
  BY <1>2, <1>3, <1>4 DEF UploadInv

\* What giving an attempt up makes of its writes.
LEMMA GiveUpFacts ==
  ASSUME UploadInv, NEW transient \in BOOLEAN, Put!GiveUp(transient)
  PROVE  /\ pending' = <<>> /\ late' \in Seq(Put!Row) /\ refused' = FALSE
         /\ upc' \in {"idle", "backoff"} /\ (upc' = "backoff" => try < Tries)
         /\ ~disturbed => InOrder(late', scratch)
<1>1. pending \in Seq(Put!Row) /\ late \in Seq(Put!Row) /\ late' = late \o pending
  BY DEF UploadInv, Put!TypeOK, Put!GiveUp
<1>2. pending \in Seq(Nat) /\ late \in Seq(Nat)
  <2>1. Put!Row \subseteq Nat
    BY DEF Put!Row
  <2> QED
    BY <1>1, <2>1, SeqOfSub
<1>3. late' \in Seq(Put!Row)
  BY <1>1, ConcatFacts
<1>4. ~disturbed => InOrder(late', scratch)
  BY <1>1, <1>2, OrderConcat DEF UploadInv, PartKept
<1> QED
  BY <1>3, <1>4 DEF Put!GiveUp

\* Every step keeps the types and the counts.
LEMMA PutTypes ==
  ASSUME UploadInv, Put!UploadNext
  PROVE  Put!TypeOK' /\ Counted'
<1>s. /\ pending \in Seq(Put!Row) /\ late \in Seq(Put!Row) /\ Len(pending) \in Nat /\ Len(pending) <= Writes
      /\ scratch \subseteq Put!Row /\ dest \in {"absent", "old", "whole", "torn"}
      /\ upc \in {"idle", "stat", "open", "write", "halt", "flush", "remove", "rename", "backoff"}
      /\ try \in 0 .. Tries /\ next \in 0 .. PutCells
      /\ refused \in BOOLEAN /\ stopReq \in BOOLEAN /\ disturbed \in BOOLEAN
      /\ uploads \in 0 .. MaxUploads /\ aborts \in 0 .. MaxAborts
  BY DEF UploadInv, Put!TypeOK
<1>c. Counted
  BY DEF UploadInv
<1>n. <<>> \in Seq(Put!Row) /\ Len(<<>>) = 0 /\ 0 <= Writes
  BY UploadConstants
<1>b. refused' \in BOOLEAN /\ stopReq' \in BOOLEAN /\ disturbed' \in BOOLEAN
  BY <1>s DEF Put!UploadNext, Put!Start, Put!Stop, Put!Abort, Put!Backoff, Put!Stat, Put!Open, Put!Write, Put!Handle,
              Put!HandleLate, Put!WriteFails, Put!Flush, Put!Remove, Put!Rename, Put!GiveUp
<1>t. ASSUME pending' \in Seq(Put!Row), Len(pending') <= Writes, late' \in Seq(Put!Row), scratch' \subseteq Put!Row,
             dest' \in {"absent", "old", "whole", "torn"},
             upc' \in {"idle", "stat", "open", "write", "halt", "flush", "remove", "rename", "backoff"},
             try' \in 0 .. Tries, next' \in 0 .. PutCells, uploads' \in 0 .. MaxUploads, aborts' \in 0 .. MaxAborts,
             Counted'
      PROVE  Put!TypeOK' /\ Counted'
  BY <1>b, <1>t DEF Put!TypeOK
\* An attempt is given up.
<1>g. ASSUME NEW transient \in BOOLEAN, Put!GiveUp(transient)
      PROVE  /\ pending' \in Seq(Put!Row) /\ Len(pending') <= Writes /\ late' \in Seq(Put!Row)
             /\ upc' \in {"idle", "backoff"} /\ (try' = try => Counted')
  BY <1>g, <1>n, GiveUpFacts DEF Counted
<1>1. CASE Put!Start
  <2>1. upc' = "stat" /\ try' = 1 /\ uploads' = uploads + 1 /\ uploads < MaxUploads /\ upc = "idle"
        /\ UNCHANGED <<scratch, dest, pending, late, next, aborts>>
    BY <1>1 DEF Put!Start
  <2>2. try' \in 0 .. Tries /\ uploads' \in 0 .. MaxUploads
    BY <1>s, <2>1, UploadConstants
  <2> QED
    BY <1>s, <1>c, <1>t, <2>1, <2>2 DEF Counted
<1>2. CASE Put!Stop
  BY <1>2, <1>s, <1>c, <1>t DEF Put!Stop, Counted
<1>3. CASE Put!Abort
  <2>1. late \o pending \in Seq(Put!Row)
    BY <1>s, ConcatFacts
  <2>2. aborts' \in 0 .. MaxAborts
    BY <1>3, <1>s, UploadConstants DEF Put!Abort
  <2> QED
    BY <1>3, <1>s, <1>n, <1>t, <2>1, <2>2 DEF Put!Abort, Counted
<1>4. CASE Put!Backoff
  <2>1. try' \in 0 .. Tries
    BY <1>4, <1>s, <1>c, UploadConstants DEF Put!Backoff, Counted
  <2> QED
    BY <1>4, <1>s, <1>c, <1>t, <2>1 DEF Put!Backoff, Counted
<1>5. CASE Put!Stat
  <2>1. next' \in 0 .. PutCells
    <3>1. Put!Length \in 0 .. PutCells /\ 0 \in 0 .. PutCells
      BY <1>s, LengthFacts, UploadConstants
    <3>2. next' \in {Put!Length, 0} \/ next' = next
      BY <1>5 DEF Put!Stat
    <3> QED
      BY <1>s, <3>1, <3>2
  <2>2. CASE upc' = "open" /\ UNCHANGED <<pending, late, refused>>
    BY <1>5, <1>s, <1>c, <1>t, <2>1, <2>2 DEF Put!Stat, Counted
  <2>3. CASE Put!GiveUp(TRUE)
    BY <1>5, <1>s, <1>g, <1>t, <2>1, <2>3 DEF Put!Stat
  <2> QED
    BY <1>5, <2>2, <2>3 DEF Put!Stat
<1>6. CASE Put!Open
  <2>1. CASE upc' = "write" /\ UNCHANGED <<pending, late, refused>> /\ scratch' = IF next = 0 THEN {} ELSE scratch
    BY <1>6, <1>s, <1>t, <2>1 DEF Put!Open, Counted
  <2>2. CASE \E transient \in BOOLEAN : Put!GiveUp(transient) /\ UNCHANGED <<scratch, disturbed>>
    BY <1>6, <1>s, <1>g, <1>t, <2>2 DEF Put!Open
  <2> QED
    BY <1>6, <2>1, <2>2 DEF Put!Open
<1>7. CASE Put!Write
  <2>1. CASE stopReq \/ next = PutCells
    BY <1>7, <1>s, <1>t, <2>1 DEF Put!Write, Counted
  <2>2. CASE ~(stopReq \/ next = PutCells)
    <3>1. next \in Put!Row /\ next' = next + 1 /\ pending' = Append(pending, next) /\ Len(pending) < Writes
      BY <1>7, <1>s, <2>2, UploadConstants DEF Put!Write, Put!Row
    <3>2. pending' \in Seq(Put!Row) /\ Len(pending') = Len(pending) + 1
      BY <1>s, <3>1
    <3>3. Len(pending') <= Writes /\ next' \in 0 .. PutCells
      BY <1>s, <3>1, <3>2, UploadConstants DEF Put!Row
    <3> QED
      BY <1>7, <1>s, <1>t, <2>2, <3>2, <3>3 DEF Put!Write, Counted
  <2> QED
    BY <2>1, <2>2
<1>8. CASE Put!Handle
  <2>1. Tail(pending) \in Seq(Put!Row) /\ Len(Tail(pending)) = Len(pending) - 1 /\ Head(pending) \in Put!Row
    BY <1>8, <1>s DEF Put!Handle
  <2>2. scratch' \subseteq Put!Row /\ pending' = Tail(pending) /\ Len(pending') <= Writes
    BY <1>8, <1>s, <2>1, UploadConstants DEF Put!Handle
  <2> QED
    BY <1>8, <1>s, <1>c, <1>t, <2>1, <2>2 DEF Put!Handle, Counted
<1>9. CASE Put!HandleLate
  <2>1. Tail(late) \in Seq(Put!Row) /\ Head(late) \in Put!Row
    BY <1>9, <1>s DEF Put!HandleLate
  <2> QED
    BY <1>9, <1>s, <1>c, <1>t, <2>1 DEF Put!HandleLate, Counted
<1>10. CASE Put!WriteFails
  <2>1. PICK transient \in BOOLEAN : Put!GiveUp(transient)
    BY <1>10, <1>s DEF Put!WriteFails
  <2> QED
    BY <1>10, <1>s, <1>g, <1>t, <2>1 DEF Put!WriteFails
<1>11. CASE Put!Flush
  BY <1>11, <1>s, <1>t DEF Put!Flush, Counted
<1>12. CASE Put!Remove
  BY <1>12, <1>s, <1>c, <1>t DEF Put!Remove, Counted
<1>13. CASE Put!Rename
  <2>1. CASE /\ dest' \in {"whole", "torn"} /\ scratch' = {} /\ late' = <<>> /\ UNCHANGED <<pending, refused>>
             /\ upc' \in {"idle", IF ~stopReq /\ try < Tries THEN "backoff" ELSE "idle"}
    BY <1>13, <1>s, <1>c, <1>n, <1>t, <2>1 DEF Put!Rename, Counted
  <2>2. CASE \E transient \in BOOLEAN : Put!GiveUp(transient) /\ UNCHANGED <<scratch, dest>>
    BY <1>13, <1>s, <1>g, <1>t, <2>2 DEF Put!Rename
  <2> QED
    BY <1>13, <2>1, <2>2 DEF Put!Rename
<1> QED
  BY <1>1, <1>2, <1>3, <1>4, <1>5, <1>6, <1>7, <1>8, <1>9, <1>10, <1>11, <1>12, <1>13 DEF Put!UploadNext

\* A cell reaches the `.part`: a prefix stays one, and so does the order of what follows.
LEMMA CellArrives ==
  ASSUME NEW P, IsPrefix(P), NEW s \in Seq(Put!Row), s # <<>>, InOrder(s, P)
  PROVE  IsPrefix(P \cup {Head(s)}) /\ InOrder(Tail(s), P \cup {Head(s)})
<1>1. s \in Seq(Nat) /\ Head(s) \in Put!Row
  <2>1. Put!Row \subseteq Nat
    BY DEF Put!Row
  <2> QED
    BY <2>1, SeqOfSub, TailFacts
<1> QED
  BY <1>1, OrderTail, PrefixGrows

\* An undisturbed step keeps the `.part` a prefix and the content in one of the two files.
LEMMA PutKeeps ==
  ASSUME UploadInv, Put!UploadNext, ~disturbed'
  PROVE  PartKept'
<1>1. ~disturbed
  BY DEF Put!UploadNext, Put!Start, Put!Stop, Put!Abort, Put!Backoff, Put!Stat, Put!Open, Put!Write, Put!Handle,
         Put!HandleLate, Put!WriteFails, Put!Flush, Put!Remove, Put!Rename
<1>2. PartKept /\ Counted
  BY <1>1 DEF UploadInv
<1>s. /\ pending \in Seq(Put!Row) /\ late \in Seq(Put!Row) /\ scratch \subseteq Put!Row /\ next \in 0 .. PutCells
      /\ dest \in {"absent", "old", "whole", "torn"}
  BY DEF UploadInv, Put!TypeOK
<1>3. PICK n \in 0 .. PutCells : scratch = 0 .. n - 1
  BY <1>2 DEF PartKept, IsPrefix
<1>m. PutCells \in Nat /\ n \in Nat /\ Put!Row = 0 .. PutCells - 1
  BY <1>3, UploadConstants DEF Put!Row
\* The file and the writes on their way are as they were.
<1>f. ASSUME UNCHANGED <<scratch, dest>>, pending' = pending \/ pending' = <<>>,
             InOrder(late', scratch), upc' \notin {"open", "write", "flush", "remove", "rename"}
      PROVE  PartKept'
  <2>1. InOrder(pending', scratch)
    BY <1>2, <1>f, OrderNil DEF PartKept
  <2> QED
    BY <1>2, <1>f, <2>1 DEF PartKept
<1>g. ASSUME NEW transient \in BOOLEAN, Put!GiveUp(transient), UNCHANGED <<scratch, dest>>
      PROVE  PartKept'
  BY <1>1, <1>f, <1>g, GiveUpFacts
<1>4. CASE Put!Start
  BY <1>2, <1>4, <1>f DEF Put!Start, PartKept
<1>5. CASE Put!Stop
  BY <1>2, <1>5 DEF Put!Stop, PartKept
<1>6. CASE Put!Abort
  <2>1. pending \in Seq(Nat) /\ late \in Seq(Nat)
    BY <1>s, <1>m, SeqOfSub
  <2>2. InOrder(late \o pending, scratch)
    BY <1>2, <2>1, OrderConcat DEF PartKept
  <2> QED
    BY <1>6, <1>f, <2>2 DEF Put!Abort
<1>7. CASE Put!Backoff
  BY <1>2, <1>7, <1>f DEF Put!Backoff, PartKept
<1>8. CASE Put!Stat
  <2>1. CASE Put!GiveUp(TRUE)
    BY <1>8, <1>g, <2>1 DEF Put!Stat
  <2>2. CASE upc' = "open" /\ next' \in {Put!Length, 0} /\ (disturbed' <=> (disturbed \/ next' # Put!Length))
             /\ UNCHANGED <<pending, late>>
    <3>1. next' = n
      BY <1>1, <1>3, <1>s, <2>2, LengthFacts, UploadConstants
    <3>2. dest = "absent" => n = PutCells
      <4> SUFFICES ASSUME dest = "absent" PROVE n = PutCells
        OBVIOUS
      <4>1. 0 .. n - 1 = 0 .. PutCells - 1
        BY <1>2, <1>3, <1>m DEF PartKept
      <4>2. ASSUME n < PutCells PROVE FALSE
        <5>1. n \in 0 .. PutCells - 1 /\ n \notin 0 .. n - 1
          BY <1>m, <4>2
        <5> QED
          BY <4>1, <5>1
      <4> QED
        BY <1>3, <1>m, <4>2
    <3>3. UNCHANGED <<scratch, dest>>
      BY <1>8 DEF Put!Stat
    <3>4. 0 .. next' - 1 \subseteq scratch'
      BY <1>3, <3>1, <3>3
    <3> QED
      BY <1>2, <2>2, <3>1, <3>2, <3>3, <3>4 DEF PartKept
  <2> QED
    BY <1>8, <2>1, <2>2 DEF Put!Stat
<1>9. CASE Put!Open
  <2>1. CASE \E transient \in BOOLEAN : Put!GiveUp(transient) /\ UNCHANGED scratch
    BY <1>9, <1>g, <2>1 DEF Put!Open
  <2>2. CASE upc' = "write" /\ next # 0 /\ UNCHANGED <<scratch, pending, late>>
    BY <1>2, <1>9, <2>2 DEF Put!Open, PartKept
  <2>3. CASE upc' = "write" /\ next = 0 /\ scratch' = {} /\ late = <<>> /\ UNCHANGED <<pending, late>>
    <3>1. pending' = <<>> /\ late' = <<>> /\ next' = 0 /\ dest' = dest
      BY <1>2, <1>9, <2>3 DEF Put!Open, Counted
    <3>2. IsPrefix(scratch') /\ 0 .. next' - 1 = {}
      BY <2>3, <3>1, NoCells
    <3>3. dest = "absent" => Put!Row = {}
      BY <1>2, <1>9, <1>m, <2>3 DEF Put!Open, PartKept
    <3> QED
      BY <1>2, <2>3, <3>1, <3>2, <3>3, OrderNil DEF PartKept
  <2> QED
    BY <1>9, <2>1, <2>2, <2>3 DEF Put!Open
<1>10. CASE Put!Write
  <2>1. CASE stopReq \/ next = PutCells
    BY <1>2, <1>10, <2>1 DEF Put!Write, PartKept
  <2>2. CASE ~(stopReq \/ next = PutCells)
    <3>1. /\ upc = "write" /\ upc' = "write" /\ pending' = Append(pending, next) /\ next' = next + 1
          /\ UNCHANGED <<scratch, late, dest>> /\ next \in Put!Row
      BY <1>10, <1>s, <1>m, <2>2 DEF Put!Write
    <3>2. pending \in Seq(Nat) /\ next \in Nat
      BY <1>s, <1>m, SeqOfSub
    <3>3. 0 .. next - 1 \subseteq scratch \cup Range(pending)
      BY <1>2, <3>1 DEF PartKept
    <3>4. InOrder(pending', scratch) /\ Range(pending') = Range(pending) \cup {next}
      BY <1>2, <3>1, <3>2, <3>3, OrderAppend, AppendFacts DEF PartKept
    <3>5. 0 .. next' - 1 \subseteq scratch \cup Range(pending')
      BY <3>1, <3>2, <3>3, <3>4
    <3> QED
      BY <1>2, <3>1, <3>4, <3>5 DEF PartKept
  <2> QED
    BY <2>1, <2>2
<1>11. CASE Put!Handle
  <2>1. /\ pending # <<>> /\ scratch' = scratch \cup {Head(pending)} /\ pending' = Tail(pending)
        /\ UNCHANGED <<late, dest, upc, next>>
    BY <1>11 DEF Put!Handle
  <2>2. IsPrefix(scratch)' /\ InOrder(pending', scratch')
    BY <1>2, <1>s, <2>1, CellArrives DEF PartKept
  <2>3. InOrder(late', scratch')
    BY <1>2, <2>1, OrderMore DEF PartKept
  <2>4. Head(pending) \in Put!Row /\ Range(pending) = {Head(pending)} \cup Range(pending')
    BY <1>s, <2>1, TailFacts
  <2> QED
    BY <1>2, <1>s, <2>1, <2>2, <2>3, <2>4 DEF PartKept
<1>12. CASE Put!HandleLate
  <2>1. /\ late # <<>> /\ scratch' = scratch \cup {Head(late)} /\ late' = Tail(late)
        /\ UNCHANGED <<pending, dest, upc, next>>
    BY <1>12 DEF Put!HandleLate
  <2>2. IsPrefix(scratch)' /\ InOrder(late', scratch')
    BY <1>2, <1>s, <2>1, CellArrives DEF PartKept
  <2>3. InOrder(pending', scratch')
    BY <1>2, <2>1, OrderMore DEF PartKept
  <2>4. Head(late) \in Put!Row
    BY <1>s, <2>1, TailFacts
  <2> QED
    BY <1>2, <1>s, <2>1, <2>2, <2>3, <2>4 DEF PartKept
<1>13. CASE Put!WriteFails
  BY <1>13, <1>g DEF Put!WriteFails
<1>14. CASE Put!Flush
  <2>1. pending = <<>> /\ upc \in {"flush", "halt"} /\ upc' = (IF upc = "halt" THEN "idle" ELSE "remove")
        /\ UNCHANGED <<scratch, dest, pending, late>>
    BY <1>14 DEF Put!Flush
  <2>2. CASE upc = "halt"
    BY <1>2, <1>f, <2>1, <2>2 DEF PartKept
  <2>3. CASE upc = "flush"
    <3>1. Put!Row \subseteq scratch
      <4>1. Range(pending) = {} /\ next = PutCells
        BY <1>2, <2>1, <2>3 DEF PartKept, Range
      <4> QED
        BY <1>2, <1>m, <2>3, <4>1 DEF PartKept
    <3> QED
      BY <1>2, <1>s, <2>1, <2>3, <3>1 DEF PartKept
  <2> QED
    BY <2>1, <2>2, <2>3
<1>15. CASE Put!Remove
  BY <1>2, <1>15 DEF Put!Remove, PartKept
<1>16. CASE Put!Rename
  <2>1. CASE \E transient \in BOOLEAN : Put!GiveUp(transient) /\ UNCHANGED <<scratch, dest>>
    BY <1>g, <2>1
  <2>2. CASE /\ dest' = (IF scratch = Put!Row THEN "whole" ELSE "torn") /\ scratch' = {} /\ late' = <<>>
             /\ upc' \in {"idle", IF ~stopReq /\ try < Tries THEN "backoff" ELSE "idle"}
             /\ UNCHANGED <<pending, refused>>
    <3>1. pending' = <<>> /\ scratch = Put!Row
      BY <1>2, <1>16, <2>2 DEF Put!Rename, Counted, PartKept
    <3>2. IsPrefix(scratch')
      BY <2>2, NoCells
    <3>3. upc' \in {"idle", "backoff"} /\ dest' = "whole"
      BY <2>2, <3>1
    <3>4. InOrder(pending', scratch') /\ InOrder(late', scratch')
      BY <2>2, <3>1, OrderNil
    <3> QED
      BY <3>2, <3>3, <3>4 DEF PartKept
  <2> QED
    BY <1>16, <2>1, <2>2 DEF Put!Rename
<1> QED
  BY <1>4, <1>5, <1>6, <1>7, <1>8, <1>9, <1>10, <1>11, <1>12, <1>13, <1>14, <1>15, <1>16 DEF Put!UploadNext

\* What the property says is part of the invariant.
LEMMA ContentFacts == UploadInv => UploadKeepsContent
<1> SUFFICES ASSUME UploadInv, ~disturbed PROVE /\ scratch = 0 .. Put!Length - 1
                                                /\ dest # "torn"
                                                /\ dest = "absent" => scratch = Put!Row
  BY DEF UploadKeepsContent, Put!ContentSurvives
<1>1. PartKept /\ scratch \subseteq Put!Row
  BY DEF UploadInv, Put!TypeOK
<1>2. PICK n \in 0 .. PutCells : scratch = 0 .. n - 1
  BY <1>1 DEF PartKept, IsPrefix
<1>3. Put!Length = n
  BY <1>1, <1>2, LengthFacts, UploadConstants
<1> QED
  BY <1>1, <1>2, <1>3 DEF PartKept

\* Every step of the upload keeps its invariant.
LEMMA PutStep == UploadInv /\ [Put!UploadNext]_putVars => UploadInv'
<1>1. ASSUME UploadInv, Put!UploadNext PROVE UploadInv'
  BY <1>1, PutTypes, PutKeeps DEF UploadInv
<1>2. ASSUME UploadInv, UNCHANGED putVars PROVE UploadInv'
  <2>1. UNCHANGED <<scratch, dest, pending, late, refused, upc, try, next, stopReq, disturbed, uploads, aborts>>
    BY <1>2 DEF putVars
  <2>2. Put!TypeOK'
    BY <1>2, <2>1 DEF UploadInv, Put!TypeOK
  <2>3. Counted'
    BY <1>2, <2>1 DEF UploadInv, Counted
  <2>4. ~disturbed' => PartKept'
    BY <1>2, <2>1 DEF UploadInv, PartKept
  <2> QED
    BY <2>2, <2>3, <2>4 DEF UploadInv
<1> QED
  BY <1>1, <1>2

------------------------------------------------------------------------------
(* The output of a remote shell: five stages from the server to the UI.     *)

\* The numbers in a row of items, and that they grow along it.
Nums(s) == {e.n : e \in Range(s)} \ {0}
Sorted(s) == \A i, j \in DOMAIN s : i < j /\ s[i].n # 0 /\ s[j].n # 0 => s[i].n < s[j].n
Below(A, B) == \A a \in A : \A b \in B : a < b

\* The kinds of item in a row.
Kinds(s) == {e.kind : e \in Range(s)}

\* The same of the messages on their way to the UI.
AllNums(o) == UNION {Nums(m) : m \in Range(o)}
AllKinds(o) == UNION {Kinds(m) : m \in Range(o)}
AllSorted(o) == /\ \A k \in DOMAIN o : Sorted(o[k])
                /\ \A k, l \in DOMAIN o : k < l => Below(Nums(o[k]), Nums(o[l]))

\* Data and exit status are numbered, marks are not; a Closed has nothing behind it.
Marked(s) == \A e \in Range(s) : e.n = 0 <=> e.kind \notin {"data", "exit"}
Ends(s) == \A i \in DOMAIN s : s[i].kind = "closed" => i = Len(s)
AllEnds(o) == \A k \in DOMAIN o :
                "closed" \in Kinds(o[k]) => k = Len(o) /\ o[k] = <<Shell!Mark("closed")>>

\* The number of one item.
Num(e) == {e.n} \ {0}

\* What appending an item does to a row.
LEMMA RowAppend ==
  ASSUME NEW s \in Seq(Shell!Item), NEW e \in Shell!Item
  PROVE  /\ Append(s, e) \in Seq(Shell!Item)
         /\ Nums(Append(s, e)) = Nums(s) \cup Num(e)
         /\ Kinds(Append(s, e)) = Kinds(s) \cup {e.kind}
         /\ Sorted(s) /\ Below(Nums(s), Num(e)) => Sorted(Append(s, e))
<1> DEFINE t == Append(s, e)
<1>1. /\ Len(s) \in Nat /\ DOMAIN s = 1 .. Len(s) /\ DOMAIN t = 1 .. Len(s) + 1
      /\ t[Len(s) + 1] = e /\ t \in Seq(Shell!Item) /\ \A i \in 1 .. Len(s) : t[i] = s[i]
  OBVIOUS
<1>2. \A i \in DOMAIN t : i \in DOMAIN s \/ i = Len(s) + 1
  BY <1>1
<1> HIDE DEF t
<1>3. Range(t) = Range(s) \cup {e}
  BY AppendFacts DEF t
<1>4. Nums(t) = Nums(s) \cup Num(e) /\ Kinds(t) = Kinds(s) \cup {e.kind}
  BY <1>3, Zenon DEF Nums, Num, Kinds
<1>5. ASSUME Sorted(s), Below(Nums(s), Num(e)) PROVE Sorted(t)
  <2> SUFFICES ASSUME NEW i \in DOMAIN t, NEW j \in DOMAIN t, i < j, t[i].n # 0, t[j].n # 0
               PROVE  t[i].n < t[j].n
    BY DEF Sorted
  <2>1. i \in DOMAIN s /\ t[i] = s[i]
    BY <1>1, <1>2
  <2>2. CASE j \in DOMAIN s
    BY <1>1, <1>5, <2>1, <2>2 DEF Sorted
  <2>3. CASE j = Len(s) + 1
    <3>1. s[i].n \in Nums(s) /\ e.n \in Num(e)
      BY <1>1, <2>1, <2>3 DEF Nums, Num, Range
    <3> QED
      BY <1>1, <1>5, <2>1, <2>3, <3>1 DEF Below
  <2> QED
    BY <1>2, <2>2, <2>3
<1> QED
  BY <1>1, <1>3, <1>4, <1>5 DEF t

\* What taking the first item does.
LEMMA RowTail ==
  ASSUME NEW s \in Seq(Shell!Item), s # <<>>
  PROVE  /\ Tail(s) \in Seq(Shell!Item) /\ Head(s) \in Shell!Item
         /\ Nums(s) = Num(Head(s)) \cup Nums(Tail(s))
         /\ Kinds(s) = {Head(s).kind} \cup Kinds(Tail(s))
         /\ Sorted(s) => Sorted(Tail(s)) /\ Below(Num(Head(s)), Nums(Tail(s)))
<1> DEFINE t == Tail(s)
<1>1. /\ Len(s) \in Nat \ {0} /\ DOMAIN s = 1 .. Len(s) /\ DOMAIN t = 1 .. Len(s) - 1
      /\ Head(s) = s[1] /\ t \in Seq(Shell!Item) /\ \A i \in 1 .. Len(s) - 1 : t[i] = s[i + 1]
  OBVIOUS
<1>0. Head(s) \in Shell!Item
  BY <1>1
<1> HIDE DEF t
<1>2. \A i \in DOMAIN s : i = 1 \/ (i - 1 \in DOMAIN t /\ t[i - 1] = s[i])
  BY <1>1
<1>3. \A i \in DOMAIN t : i + 1 \in DOMAIN s /\ t[i] = s[i + 1]
  BY <1>1
<1>4. 1 \in DOMAIN s
  BY <1>1
<1>5. Range(s) = {Head(s)} \cup Range(t)
  BY TailFacts DEF t
<1>6. Nums(s) = Num(Head(s)) \cup Nums(t) /\ Kinds(s) = {Head(s).kind} \cup Kinds(t)
  BY <1>5, Zenon DEF Nums, Num, Kinds
<1>7. ASSUME Sorted(s) PROVE Sorted(t)
  BY <1>1, <1>3, <1>7 DEF Sorted
<1>8. ASSUME Sorted(s) PROVE Below(Num(Head(s)), Nums(t))
  <2> SUFFICES ASSUME NEW a \in Num(Head(s)), NEW b \in Nums(t) PROVE a < b
    BY DEF Below
  <2>1. PICK i \in DOMAIN t : b = t[i].n /\ b # 0
    BY DEF Nums, Range
  <2>2. a = s[1].n /\ a # 0
    BY <1>1 DEF Num
  <2>3. i + 1 \in DOMAIN s /\ 1 < i + 1 /\ b = s[i + 1].n
    BY <1>1, <1>3, <2>1
  <2> QED
    BY <1>4, <1>8, <2>1, <2>2, <2>3 DEF Sorted
<1> QED
  BY <1>0, <1>1, <1>6, <1>7, <1>8 DEF t

\* What is left of a row that is cut.
LEMMA RowCut ==
  ASSUME NEW s \in Seq(Shell!Item), NEW k \in 0 .. Len(s)
  PROVE  LET t == SubSeq(s, 1, k)
         IN  /\ t \in Seq(Shell!Item) /\ Nums(t) \subseteq Nums(s) /\ Kinds(t) \subseteq Kinds(s)
             /\ Sorted(s) => Sorted(t)
<1> DEFINE t == SubSeq(s, 1, k)
<1>1. /\ Len(s) \in Nat /\ DOMAIN s = 1 .. Len(s) /\ DOMAIN t = 1 .. k /\ k \in Nat /\ k <= Len(s)
      /\ t \in Seq(Shell!Item) /\ \A i \in 1 .. k : t[i] = s[i]
  OBVIOUS
<1> HIDE DEF t
<1>2. \A i \in DOMAIN t : i \in DOMAIN s /\ t[i] = s[i]
  BY <1>1
<1>3. Nums(t) \subseteq Nums(s) /\ Kinds(t) \subseteq Kinds(s)
  BY <1>2, Zenon DEF Nums, Kinds, Range
<1>4. Sorted(s) => Sorted(t)
  BY <1>2 DEF Sorted
<1> QED
  BY <1>1, <1>3, <1>4 DEF t

\* What one row behind another makes.
LEMMA RowConcat ==
  ASSUME NEW s \in Seq(Shell!Item), NEW t \in Seq(Shell!Item)
  PROVE  /\ s \o t \in Seq(Shell!Item)
         /\ Nums(s \o t) = Nums(s) \cup Nums(t)
         /\ Kinds(s \o t) = Kinds(s) \cup Kinds(t)
         /\ Sorted(s) /\ Sorted(t) /\ Below(Nums(s), Nums(t)) => Sorted(s \o t)
<1> DEFINE u == s \o t
<1>1. /\ Len(s) \in Nat /\ DOMAIN s = 1 .. Len(s) /\ Len(t) \in Nat /\ DOMAIN t = 1 .. Len(t)
      /\ DOMAIN u = 1 .. Len(s) + Len(t) /\ u \in Seq(Shell!Item)
      /\ \A i \in 1 .. Len(s) : u[i] = s[i]
      /\ \A i \in 1 .. Len(t) : u[Len(s) + i] = t[i]
  OBVIOUS
<1> HIDE DEF u
<1>2. \A i \in DOMAIN u : \/ i \in DOMAIN s /\ u[i] = s[i]
                          \/ i - Len(s) \in DOMAIN t /\ u[i] = t[i - Len(s)] /\ i > Len(s)
  <2> SUFFICES ASSUME NEW i \in DOMAIN u, i \notin DOMAIN s
               PROVE  i - Len(s) \in DOMAIN t /\ u[i] = t[i - Len(s)] /\ i > Len(s)
    BY <1>1
  <2>1. i - Len(s) \in 1 .. Len(t) /\ i = Len(s) + (i - Len(s)) /\ i > Len(s)
    BY <1>1
  <2>2. u[Len(s) + (i - Len(s))] = t[i - Len(s)]
    BY <1>1, <2>1
  <2> QED
    BY <1>1, <2>1, <2>2
<1>3. /\ \A i \in DOMAIN s : i \in DOMAIN u /\ u[i] = s[i]
      /\ \A i \in DOMAIN t : Len(s) + i \in DOMAIN u /\ u[Len(s) + i] = t[i]
  BY <1>1
<1>4. Nums(u) = Nums(s) \cup Nums(t) /\ Kinds(u) = Kinds(s) \cup Kinds(t)
  <2>1. Range(u) = Range(s) \cup Range(t)
    BY ConcatFacts DEF u
  <2> QED
    BY <2>1, Zenon DEF Nums, Kinds
<1>5. ASSUME Sorted(s), Sorted(t), Below(Nums(s), Nums(t)) PROVE Sorted(u)
  <2> SUFFICES ASSUME NEW i \in DOMAIN u, NEW j \in DOMAIN u, i < j, u[i].n # 0, u[j].n # 0
               PROVE  u[i].n < u[j].n
    BY DEF Sorted
  <2>0. i \in Int /\ j \in Int
    BY <1>1
  <2>1. CASE i \in DOMAIN s /\ j \in DOMAIN s
    BY <1>3, <1>5, <2>1 DEF Sorted
  <2>2. CASE i \notin DOMAIN s /\ j \notin DOMAIN s
    <3>1. /\ i - Len(s) \in DOMAIN t /\ u[i] = t[i - Len(s)]
          /\ j - Len(s) \in DOMAIN t /\ u[j] = t[j - Len(s)]
      BY <1>2, <2>2
    <3>2. i - Len(s) < j - Len(s)
      BY <1>1, <2>0
    <3> QED
      BY <1>5, <3>1, <3>2 DEF Sorted
  <2>3. CASE i \in DOMAIN s /\ j \notin DOMAIN s
    <3>1. u[i] = s[i] /\ j - Len(s) \in DOMAIN t /\ u[j] = t[j - Len(s)]
      BY <1>2, <1>3, <2>3
    <3>2. u[i].n \in Nums(s) /\ u[j].n \in Nums(t)
      BY <2>3, <3>1, Zenon DEF Nums, Range
    <3> QED
      BY <1>5, <3>2 DEF Below
  <2>4. ~ (i \notin DOMAIN s /\ j \in DOMAIN s)
    BY <1>1, <2>0
  <2> QED
    BY <2>1, <2>2, <2>3, <2>4
<1> QED
  BY <1>1, <1>4, <1>5 DEF u

\* Rows of one item and of none.
LEMMA RowSmall ==
  /\ <<>> \in Seq(Shell!Item) /\ Nums(<<>>) = {} /\ Kinds(<<>>) = {} /\ Sorted(<<>>)
  /\ Marked(<<>>) /\ Ends(<<>>)
  /\ \A e \in Shell!Item : /\ <<e>> \in Seq(Shell!Item) /\ Nums(<<e>>) = Num(e)
                           /\ Kinds(<<e>>) = {e.kind} /\ Sorted(<<e>>)
<1>1. Range(<<>>) = {} /\ <<>> \in Seq(Shell!Item)
  BY EmptyFacts
<1>2. Nums(<<>>) = {} /\ Kinds(<<>>) = {} /\ Marked(<<>>)
  BY <1>1, Zenon DEF Nums, Kinds, Marked
<1>3. Sorted(<<>>) /\ Ends(<<>>)
  BY DEF Sorted, Ends
<1>4. ASSUME NEW e \in Shell!Item
      PROVE  /\ <<e>> \in Seq(Shell!Item) /\ Nums(<<e>>) = Num(e)
             /\ Kinds(<<e>>) = {e.kind} /\ Sorted(<<e>>)
  <2>1. DOMAIN <<e>> = {1} /\ <<e>>[1] = e /\ <<e>> \in Seq(Shell!Item)
    OBVIOUS
  <2>2. Range(<<e>>) = {e}
    BY <2>1, Zenon DEF Range
  <2>3. Nums(<<e>>) = Num(e) /\ Kinds(<<e>>) = {e.kind}
    BY <2>2, Zenon DEF Nums, Num, Kinds
  <2>4. Sorted(<<e>>)
    BY <2>1 DEF Sorted
  <2> QED
    BY <2>1, <2>3, <2>4
<1> QED
  BY <1>1, <1>2, <1>3, <1>4

\* Marks and ends of a row that grows, shrinks or is cut.
LEMMA RowMarks ==
  ASSUME NEW s \in Seq(Shell!Item)
  PROVE  /\ \A e \in Shell!Item :
              /\ Marked(s) /\ (e.n = 0 <=> e.kind \notin {"data", "exit"}) => Marked(Append(s, e))
              /\ "closed" \notin Kinds(s) => Ends(Append(s, e))
         /\ s # <<>> => /\ Marked(s) => Marked(Tail(s)) /\ (Head(s).n = 0 <=> Head(s).kind \notin {"data", "exit"})
                        /\ Ends(s) => Ends(Tail(s)) /\ (Head(s).kind = "closed" => Tail(s) = <<>>)
         /\ \A k \in 0 .. Len(s) : Marked(s) => Marked(SubSeq(s, 1, k))
<1>1. ASSUME NEW e \in Shell!Item
      PROVE  /\ Marked(s) /\ (e.n = 0 <=> e.kind \notin {"data", "exit"}) => Marked(Append(s, e))
             /\ "closed" \notin Kinds(s) => Ends(Append(s, e))
  <2>1. Range(Append(s, e)) = Range(s) \cup {e}
    BY AppendFacts
  <2>2. /\ DOMAIN Append(s, e) = 1 .. Len(s) + 1 /\ Len(Append(s, e)) = Len(s) + 1 /\ Len(s) \in Nat
        /\ DOMAIN s = 1 .. Len(s) /\ \A i \in 1 .. Len(s) : Append(s, e)[i] = s[i]
    OBVIOUS
  <2>3. ASSUME "closed" \notin Kinds(s) PROVE Ends(Append(s, e))
    <3>1. \A i \in 1 .. Len(s) : s[i].kind # "closed"
      BY <2>2, <2>3, Zenon DEF Kinds, Range
    <3>2. \A i \in 1 .. Len(s) + 1 : i = Len(s) + 1 \/ i \in 1 .. Len(s)
      BY <2>2
    <3> QED
      BY <2>2, <3>1, <3>2, Zenon DEF Ends
  <2>4. Marked(s) /\ (e.n = 0 <=> e.kind \notin {"data", "exit"}) => Marked(Append(s, e))
    BY <2>1, Zenon DEF Marked
  <2> QED
    BY <2>3, <2>4
<1>2. ASSUME s # <<>>
      PROVE  /\ Marked(s) => Marked(Tail(s)) /\ (Head(s).n = 0 <=> Head(s).kind \notin {"data", "exit"})
             /\ Ends(s) => Ends(Tail(s)) /\ (Head(s).kind = "closed" => Tail(s) = <<>>)
  <2>1. Range(s) = {Head(s)} \cup Range(Tail(s))
    BY <1>2, TailFacts
  <2>2. /\ DOMAIN Tail(s) = 1 .. Len(s) - 1 /\ Len(Tail(s)) = Len(s) - 1 /\ Len(s) \in Nat \ {0}
        /\ DOMAIN s = 1 .. Len(s) /\ \A i \in 1 .. Len(s) - 1 : Tail(s)[i] = s[i + 1]
        /\ Head(s) = s[1] /\ Tail(s) \in Seq(Shell!Item)
    BY <1>2
  <2>3. Ends(s) => Ends(Tail(s))
    BY <2>2 DEF Ends
  <2>4. Ends(s) /\ Head(s).kind = "closed" => Len(s) = 1
    BY <2>2 DEF Ends
  <2>5. Len(s) = 1 => Tail(s) = <<>>
    BY <2>2
  <2>6. Marked(s) => Marked(Tail(s)) /\ (Head(s).n = 0 <=> Head(s).kind \notin {"data", "exit"})
    BY <2>1, Zenon DEF Marked
  <2> QED
    BY <2>3, <2>4, <2>5, <2>6
<1>3. ASSUME NEW k \in 0 .. Len(s), Marked(s) PROVE Marked(SubSeq(s, 1, k))
  <2>1. \A i \in DOMAIN SubSeq(s, 1, k) : i \in DOMAIN s /\ SubSeq(s, 1, k)[i] = s[i]
    OBVIOUS
  <2> QED
    BY <1>3, <2>1, Zenon DEF Marked, Range
<1> QED
  BY <1>1, <1>2, <1>3

\* A message more for the UI.
LEMMA OutAppend ==
  ASSUME NEW o \in Seq(Seq(Shell!Item)), NEW m \in Seq(Shell!Item)
  PROVE  /\ Append(o, m) \in Seq(Seq(Shell!Item)) /\ Len(Append(o, m)) = Len(o) + 1
         /\ AllNums(Append(o, m)) = AllNums(o) \cup Nums(m)
         /\ AllKinds(Append(o, m)) = AllKinds(o) \cup Kinds(m)
         /\ AllSorted(o) /\ Sorted(m) /\ Below(AllNums(o), Nums(m)) => AllSorted(Append(o, m))
         /\ "closed" \notin AllKinds(o) /\ ("closed" \in Kinds(m) => m = <<Shell!Mark("closed")>>)
              => AllEnds(Append(o, m))
<1> DEFINE t == Append(o, m)
<1>1. /\ Len(o) \in Nat /\ DOMAIN o = 1 .. Len(o) /\ DOMAIN t = 1 .. Len(o) + 1 /\ Len(t) = Len(o) + 1
      /\ t[Len(o) + 1] = m /\ t \in Seq(Seq(Shell!Item)) /\ \A i \in 1 .. Len(o) : t[i] = o[i]
  OBVIOUS
<1>2. Range(t) = Range(o) \cup {m}
  BY AppendFacts
<1> HIDE DEF t
<1>3. \A i \in DOMAIN t : (i \in DOMAIN o /\ t[i] = o[i]) \/ (i = Len(o) + 1 /\ t[i] = m)
  BY <1>1
<1>4. AllNums(t) = AllNums(o) \cup Nums(m) /\ AllKinds(t) = AllKinds(o) \cup Kinds(m)
  BY <1>2, Zenon DEF AllNums, AllKinds
<1>5. \A i \in DOMAIN o : Nums(o[i]) \subseteq AllNums(o) /\ Kinds(o[i]) \subseteq AllKinds(o)
  BY Zenon DEF AllNums, AllKinds, Range
<1>6. ASSUME AllSorted(o), Sorted(m), Below(AllNums(o), Nums(m)) PROVE AllSorted(t)
  <2>1. \A k \in DOMAIN t : Sorted(t[k])
    BY <1>3, <1>6, Zenon DEF AllSorted
  <2>2. ASSUME NEW k \in DOMAIN t, NEW l \in DOMAIN t, k < l PROVE Below(Nums(t[k]), Nums(t[l]))
    <3>1. k \in DOMAIN o /\ t[k] = o[k]
      BY <1>1, <1>3, <2>2
    <3>2. CASE l \in DOMAIN o /\ t[l] = o[l]
      BY <1>6, <2>2, <3>1, <3>2 DEF AllSorted
    <3>3. CASE t[l] = m
      BY <1>5, <1>6, <3>1, <3>3, Zenon DEF Below
    <3> QED
      BY <1>3, <3>2, <3>3
  <2> QED
    BY <2>1, <2>2 DEF AllSorted
<1>7. ASSUME "closed" \notin AllKinds(o), "closed" \in Kinds(m) => m = <<Shell!Mark("closed")>>
      PROVE  AllEnds(t)
  <2> SUFFICES ASSUME NEW k \in DOMAIN t, "closed" \in Kinds(t[k])
               PROVE  k = Len(t) /\ t[k] = <<Shell!Mark("closed")>>
    BY DEF AllEnds
  <2>1. ~ (k \in DOMAIN o /\ t[k] = o[k])
    BY <1>5, <1>7, Zenon
  <2> QED
    BY <1>1, <1>3, <1>7, <2>1, Zenon
<1> QED
  BY <1>1, <1>4, <1>6, <1>7 DEF t

\* A sequence without its first element, place by place.
LEMMA TailShape ==
  ASSUME NEW S, NEW s \in Seq(S), s # <<>>
  PROVE  /\ Len(s) \in Nat \ {0} /\ DOMAIN s = 1 .. Len(s) /\ DOMAIN Tail(s) = 1 .. Len(s) - 1
         /\ Len(Tail(s)) = Len(s) - 1 /\ Head(s) = s[1] /\ Tail(s) \in Seq(S)
         /\ \A i \in 1 .. Len(s) - 1 : Tail(s)[i] = s[i + 1]
         /\ Len(s) = 1 => Tail(s) = <<>>
OBVIOUS

\* The UI takes a message.
LEMMA OutTail ==
  ASSUME NEW o \in Seq(Seq(Shell!Item)), o # <<>>
  PROVE  /\ Tail(o) \in Seq(Seq(Shell!Item)) /\ Head(o) \in Seq(Shell!Item) /\ Len(Tail(o)) = Len(o) - 1
         /\ AllNums(o) = Nums(Head(o)) \cup AllNums(Tail(o))
         /\ AllKinds(o) = Kinds(Head(o)) \cup AllKinds(Tail(o))
         /\ AllSorted(o) => AllSorted(Tail(o)) /\ Sorted(Head(o)) /\ Below(Nums(Head(o)), AllNums(Tail(o)))
         /\ AllEnds(o) => /\ AllEnds(Tail(o))
                          /\ "closed" \in Kinds(Head(o)) => Head(o) = <<Shell!Mark("closed")>> /\ Tail(o) = <<>>
<1> DEFINE t == Tail(o)
<1>1. /\ Len(o) \in Nat \ {0} /\ DOMAIN o = 1 .. Len(o) /\ DOMAIN t = 1 .. Len(o) - 1 /\ Len(t) = Len(o) - 1
      /\ Head(o) = o[1] /\ t \in Seq(Seq(Shell!Item)) /\ \A i \in 1 .. Len(o) - 1 : t[i] = o[i + 1]
      /\ Len(o) = 1 => t = <<>>
  BY TailShape
<1>2. Range(o) = {Head(o)} \cup Range(t) /\ Head(o) \in Seq(Shell!Item)
  BY TailFacts
<1> HIDE DEF t
<1>3. 1 \in DOMAIN o /\ \A i \in DOMAIN t : i + 1 \in DOMAIN o /\ t[i] = o[i + 1] /\ 1 < i + 1
  BY <1>1
<1>4. AllNums(o) = Nums(Head(o)) \cup AllNums(t) /\ AllKinds(o) = Kinds(Head(o)) \cup AllKinds(t)
  BY <1>2, Zenon DEF AllNums, AllKinds
<1>5. ASSUME AllSorted(o) PROVE AllSorted(t) /\ Sorted(Head(o)) /\ Below(Nums(Head(o)), AllNums(t))
  <2>1. AllSorted(t)
    <3>1. \A i \in DOMAIN t : Sorted(t[i])
      BY <1>3, <1>5, Zenon DEF AllSorted
    <3>2. \A i, j \in DOMAIN t : i < j => i + 1 < j + 1
      BY <1>1
    <3>3. \A i, j \in DOMAIN t : i < j => Below(Nums(t[i]), Nums(t[j]))
      BY <1>3, <1>5, <3>2, Zenon DEF AllSorted
    <3> QED
      BY <3>1, <3>3 DEF AllSorted
  <2>2. Sorted(Head(o))
    BY <1>1, <1>3, <1>5, Zenon DEF AllSorted
  <2>3. \A i \in DOMAIN t : Below(Nums(Head(o)), Nums(t[i]))
    BY <1>1, <1>3, <1>5, Zenon DEF AllSorted
  <2>4. Below(Nums(Head(o)), AllNums(t))
    BY <2>3, Zenon DEF Below, AllNums, Range
  <2> QED
    BY <2>1, <2>2, <2>4
<1>6. ASSUME AllEnds(o)
      PROVE  /\ AllEnds(t)
             /\ "closed" \in Kinds(Head(o)) => Head(o) = <<Shell!Mark("closed")>> /\ t = <<>>
  <2>1. AllEnds(t)
    <3> SUFFICES ASSUME NEW i \in DOMAIN t, "closed" \in Kinds(t[i])
                 PROVE  i = Len(t) /\ t[i] = <<Shell!Mark("closed")>>
      BY DEF AllEnds
    <3>1. i + 1 = Len(o) /\ o[i + 1] = <<Shell!Mark("closed")>>
      BY <1>3, <1>6, Zenon DEF AllEnds
    <3> QED
      BY <1>1, <1>3, <3>1
  <2>2. ASSUME "closed" \in Kinds(Head(o)) PROVE Head(o) = <<Shell!Mark("closed")>> /\ t = <<>>
    <3>1. 1 = Len(o) /\ o[1] = <<Shell!Mark("closed")>>
      BY <1>1, <1>3, <1>6, <2>2, Zenon DEF AllEnds
    <3> QED
      BY <1>1, <3>1
  <2> QED
    BY <2>1, <2>2
<1> QED
  BY <1>1, <1>2, <1>4, <1>5, <1>6 DEF t

------------------------------------------------------------------------------
(* The invariant of a remote shell's output.                                *)

\* The exit status still has a number to take.
Numbered == "exit" \notin sent => written < MaxItems

\* Which items are where: marks of the server stay in the pump, a Closed is the pump's last
\* word, the buffer holds output alone, and what the worker tells of an exit is still at the
\* head of its channel.
Marks ==
  /\ Marked(wire) /\ "closed" \notin Kinds(wire)
  /\ Marked(ptyEvents) /\ Ends(ptyEvents)
  /\ "closed" \in Kinds(ptyEvents) => pump = "ended"
  /\ Kinds(buf) \subseteq {"data"}
  /\ relay = "probe" => pump = "idle"
  /\ relay = "exit" => ptyEvents # <<>> /\ Head(ptyEvents).kind = "exit" /\ buf = <<>>

\* What the UI was told, or will be: Closed once and last, the exit status before it.
Told ==
  /\ Ends(terminal) /\ AllEnds(out)
  /\ "closed" \in Kinds(terminal) \cup AllKinds(out) => relay = "done"
  /\ "closed" \in Kinds(terminal) => out = <<>>
  /\ exitTold => relay = "exit" \/ "exit" \in Kinds(terminal) \cup AllKinds(out)

\* The numbers of the five stages, each below the next; all there unless something was lost.
Flows(T, O, B, P, W) ==
  /\ Below(T, O) /\ Below(T, B) /\ Below(T, P) /\ Below(T, W)
  /\ Below(O, B) /\ Below(O, P) /\ Below(O, W)
  /\ Below(B, P) /\ Below(B, W) /\ Below(P, W)

InLine ==
  /\ Sorted(terminal) /\ AllSorted(out) /\ Sorted(buf) /\ Sorted(ptyEvents) /\ Sorted(wire)
  /\ Flows(Nums(terminal), AllNums(out), Nums(buf), Nums(ptyEvents), Nums(wire))

Whole == Nums(terminal) \cup AllNums(out) \cup Nums(buf) \cup Nums(ptyEvents) \cup Nums(wire)

Complete == Whole \subseteq 1 .. written /\ (~lost => 1 .. written \subseteq Whole)

ShellInv == Shell!TypeOK /\ Numbered /\ Marks /\ Told /\ InLine /\ Complete

\* The bounds are numbers, some of them positive.
LEMMA ShellConstants ==
  /\ MaxItems \in Nat /\ MaxItems # 0 /\ EventCap \in Nat /\ BatchCap \in Nat /\ BatchCap # 0 /\ OutCap \in Nat
  /\ MaxPaste \in Nat /\ MaxWrites \in Nat /\ PtyCap \in Nat /\ ChannelCap \in Nat /\ CmdCap \in Nat /\ CmdCap # 0
<1> QED
  BY WorkersAssumption

\* The rows of the type invariant, and the rest of it.
Rows == /\ wire \in Seq(Shell!Item) /\ ptyEvents \in Seq(Shell!Item) /\ buf \in Seq(Shell!Item)
        /\ terminal \in Seq(Shell!Item) /\ out \in Seq(Seq(Shell!Item))
        /\ Len(ptyEvents) <= EventCap /\ Len(buf) < BatchCap /\ Len(out) <= OutCap
Flags == /\ hasTmux \in BOOLEAN /\ cut \in BOOLEAN /\ eof \in BOOLEAN /\ exitTold \in BOOLEAN /\ lost \in BOOLEAN
Places == /\ shell \in {"none", "plain", "tmux"} /\ pump \in {"idle", "run", "closing", "ended"}
          /\ relay \in {"probe", "loop", "exit", "closed", "done"}
          /\ sent \subseteq {"exit", "eof", "close"} /\ written \in 0 .. MaxItems

\* They are the type invariant.
LEMMA ShellTypeParts == Shell!TypeOK <=> Rows /\ Flags /\ Places
BY DEF Shell!TypeOK, Rows, Flags, Places

\* What flushing a row does: nothing, one message more, or a loss.
Flushed(m) ==
  \/ m = <<>> /\ out' = out /\ lost' = lost
  \/ m # <<>> /\ Len(out) < OutCap /\ out' = Append(out, m) /\ lost' = lost
  \/ out' = out /\ lost' = TRUE

\* TrySend does one of these.
LEMMA FlushFacts == ASSUME NEW m, Shell!TrySend(m) PROVE Flushed(m)
BY DEF Shell!TrySend, Flushed

\* Items are numbered within the bound, and marks are items.
LEMMA ItemFacts ==
  /\ \A e \in Shell!Item : e.kind \in {"data", "exit", "eof", "close", "closed"} /\ e.n \in 0 .. MaxItems
  /\ \A k \in {"data", "exit", "eof", "close", "closed"}, n \in 0 .. MaxItems : [kind |-> k, n |-> n] \in Shell!Item
  /\ \A k \in {"data", "exit", "eof", "close", "closed"} :
       Shell!Mark(k) \in Shell!Item /\ Shell!Mark(k).kind = k /\ Num(Shell!Mark(k)) = {} /\ Shell!Mark(k).n = 0
<1>1. MaxItems \in Nat
  BY ShellConstants
<1> QED
  BY <1>1 DEF Shell!Item, Shell!Mark, Num

\* Every step keeps the flags and the places, and leaves the exit status its number.
LEMMA PlacesStep == Places /\ Flags /\ Numbered /\ [Shell!PumpNext]_shellVars => Places' /\ Flags' /\ Numbered'
<1> SUFFICES ASSUME Places, Flags, Numbered, [Shell!PumpNext]_shellVars PROVE Places' /\ Flags' /\ Numbered'
  OBVIOUS
<1>0. MaxItems \in Nat /\ MaxItems # 0
  BY ShellConstants
<1> USE DEF Shell!PumpNext, Shell!Write, Shell!SendExit, Shell!SendMark, Shell!Cut, Shell!PumpMessage,
      Shell!PumpStops, Shell!PumpInputFails, Shell!PumpClosed, Shell!Probe,
      Shell!WorkerOutput, Shell!WorkerExit, Shell!WorkerTellExit, Shell!WorkerFlush,
      Shell!WorkerShellClosed, Shell!WorkerDisconnect, Shell!WorkerTellClosed, Shell!UiReceives,
      Shell!ServerVars, Shell!PumpRest, Shell!WorkerRest, shellVars
<1>1. Places'
  <2>1. shell' \in {"none", "plain", "tmux"}
    BY <1>0 DEF Places, Numbered
  <2>2. pump' \in {"idle", "run", "closing", "ended"}
    BY <1>0 DEF Places, Numbered
  <2>3. relay' \in {"probe", "loop", "exit", "closed", "done"}
    BY <1>0 DEF Places, Numbered
  <2>4. sent' \subseteq {"exit", "eof", "close"}
    BY <1>0 DEF Places, Numbered
  <2>5. written' \in 0 .. MaxItems
    BY <1>0 DEF Places, Numbered
  <2> QED
    BY <2>1, <2>2, <2>3, <2>4, <2>5 DEF Places
<1>2. Flags'
  <2>1. hasTmux' \in BOOLEAN
    BY DEF Flags
  <2>2. cut' \in BOOLEAN
    BY DEF Flags
  <2>3. eof' \in BOOLEAN
    BY DEF Flags
  <2>4. exitTold' \in BOOLEAN
    BY DEF Flags
  <2>5. lost' \in BOOLEAN
    BY DEF Flags, Shell!TrySend
  <2> QED
    BY <2>1, <2>2, <2>3, <2>4, <2>5 DEF Flags
<1>3. Numbered'
  BY <1>0 DEF Places, Numbered
<1> QED
  BY <1>1, <1>2, <1>3

\* Numbers that move one stage on stay in line: here from the pump's input to its channel.
LEMMA PumpShift ==
  \A T, O, B, P, W, A : Flows(T, O, B, P, A \cup W) /\ Below(A, W) => Flows(T, O, B, P \cup A, W) /\ Below(P, A)
BY DEF Flows, Below

\* From the channel to the buffer.
LEMMA TakeShift ==
  \A T, O, B, P, W, A : Flows(T, O, B, A \cup P, W) /\ Below(A, P) => Flows(T, O, B \cup A, P, W) /\ Below(B, A)
BY DEF Flows, Below

\* From the buffer to the UI's channel.
LEMMA FlushShift == \A T, O, B, P, W : Flows(T, O, B, P, W) => Flows(T, O \cup B, {}, P, W) /\ Below(O, B)
BY DEF Flows, Below

\* From the pump's channel to the UI's past an empty buffer.
LEMMA TellShift ==
  \A T, O, P, W, A : Flows(T, O, {}, A \cup P, W) /\ Below(A, P) => Flows(T, O \cup A, {}, P, W) /\ Below(O, A)
BY DEF Flows, Below

\* From the UI's channel to it.
LEMMA ShowShift ==
  \A T, O, B, P, W, A : Flows(T, A \cup O, B, P, W) /\ Below(A, O) => Flows(T \cup A, O, B, P, W) /\ Below(T, A)
BY DEF Flows, Below

\* What gets lost leaves the others in line.
LEMMA FlowsLess ==
  ASSUME NEW T, NEW O, NEW B, NEW P, NEW W, Flows(T, O, B, P, W),
         NEW O2 \in SUBSET O, NEW B2 \in SUBSET B, NEW P2 \in SUBSET P, NEW W2 \in SUBSET W
  PROVE  Flows(T, O2, B2, P2, W2)
BY DEF Flows, Below

RestInv == Rows /\ Marks /\ Told /\ InLine /\ Complete

\* The server sends an item: the next number, or a mark.
LEMMA WireGrows ==
  ASSUME RestInv, written \in Nat, NEW e \in Shell!Item, wire' = Append(wire, e),
         e.n = 0 <=> e.kind \notin {"data", "exit"}, e.kind # "closed",
         (written' = written /\ e.n = 0) \/ (written' = written + 1 /\ e.n = written + 1),
         UNCHANGED <<pump, ptyEvents, relay, buf, out, exitTold, terminal, lost>>
  PROVE  RestInv'
<1>0. wire \in Seq(Shell!Item)
  BY DEF RestInv, Rows
<1>1. /\ wire' \in Seq(Shell!Item) /\ Nums(wire') = Nums(wire) \cup Num(e)
      /\ Kinds(wire') = Kinds(wire) \cup {e.kind}
      /\ Sorted(wire) /\ Below(Nums(wire), Num(e)) => Sorted(wire')
      /\ Marked(wire) => Marked(wire')
  BY <1>0, RowAppend, RowMarks
<1>2. Rows'
  BY <1>1 DEF RestInv, Rows
<1>3. Marks'
  BY <1>1 DEF RestInv, Marks
<1>4. Told'
  BY DEF RestInv, Told
<1>5. (Num(e) = {} /\ written' = written) \/ (Num(e) = {written + 1} /\ written' = written + 1)
  <2>1. written + 1 # 0
    OBVIOUS
  <2>2. e.n = 0 => Num(e) = {}
    BY DEF Num
  <2>3. e.n = written + 1 => Num(e) = {written + 1}
    BY <2>1 DEF Num
  <2> QED
    BY <2>2, <2>3, Zenon
<1>6. \A A : A \subseteq Whole => Below(A, Num(e))
  <2>1. Whole \subseteq 1 .. written
    BY DEF RestInv, Complete
  <2> QED
    BY <1>5, <2>1 DEF Below
<1>7. InLine'
  <2>1. /\ Below(Nums(terminal), Num(e)) /\ Below(AllNums(out), Num(e)) /\ Below(Nums(buf), Num(e))
        /\ Below(Nums(ptyEvents), Num(e)) /\ Below(Nums(wire), Num(e))
    <3>1. /\ Nums(terminal) \subseteq Whole /\ AllNums(out) \subseteq Whole /\ Nums(buf) \subseteq Whole
          /\ Nums(ptyEvents) \subseteq Whole /\ Nums(wire) \subseteq Whole
      BY DEF Whole
    <3> QED
      BY <1>6, <3>1, Zenon
  <2>2. Flows(Nums(terminal), AllNums(out), Nums(buf), Nums(ptyEvents), Nums(wire) \cup Num(e))
    BY <2>1 DEF RestInv, InLine, Flows, Below
  <2> QED
    BY <1>1, <2>1, <2>2 DEF RestInv, InLine
<1>8. Complete'
  <2>1. Whole' = Whole \cup Num(e)
    BY <1>1 DEF Whole
  <2>2. Whole \subseteq 1 .. written /\ (~lost => 1 .. written \subseteq Whole)
    BY DEF RestInv, Complete
  <2>3. 1 .. written + 1 = (1 .. written) \cup {written + 1}
    OBVIOUS
  <2>4. Whole' \subseteq 1 .. written' /\ (~lost => 1 .. written' \subseteq Whole')
    BY <1>5, <2>1, <2>2, <2>3, Zenon
  <2> QED
    BY <2>4 DEF Complete
<1> QED
  BY <1>2, <1>3, <1>4, <1>7, <1>8 DEF RestInv

\* The server writes, ends the shell or drops the connection.
LEMMA ServerStep ==
  ASSUME RestInv, Places, Flags, Numbered,
         Shell!Write \/ Shell!SendExit \/ Shell!SendMark("eof") \/ Shell!SendMark("close") \/ Shell!Cut
  PROVE  RestInv'
<1>0. written \in Nat /\ written <= MaxItems /\ MaxItems \in Nat /\ MaxItems # 0
  BY ShellConstants DEF Places
<1>1. CASE Shell!Write
  <2>1. Shell!Piece(written + 1) \in Shell!Item
    BY <1>0, <1>1, ItemFacts DEF Shell!Write, Shell!Piece
  <2> QED
    BY <1>0, <1>1, <2>1, WireGrows DEF Shell!Write, Shell!Piece, Shell!ServerVars
<1>2. CASE Shell!SendExit
  <2>1. [kind |-> "exit", n |-> written + 1] \in Shell!Item
    <3>1. "exit" \notin sent
      BY <1>2 DEF Shell!SendExit
    <3> QED
      BY <1>0, <3>1, ItemFacts DEF Numbered
  <2> QED
    BY <1>0, <1>2, <2>1, WireGrows DEF Shell!SendExit, Shell!ServerVars
<1>3. ASSUME NEW k \in {"eof", "close"}, Shell!SendMark(k) PROVE RestInv'
  <2>1. Shell!Mark(k) \in Shell!Item /\ Shell!Mark(k).kind = k /\ Shell!Mark(k).n = 0
    BY ItemFacts
  <2> QED
    BY <1>0, <1>3, <2>1, WireGrows DEF Shell!SendMark, Shell!ServerVars
<1>4. CASE Shell!Cut
  <2>0. wire \in Seq(Shell!Item) /\ lost \in BOOLEAN
    BY DEF RestInv, Rows, Flags
  <2>1. PICK k \in 0 .. Len(wire) : wire' = SubSeq(wire, 1, k)
    BY <1>4 DEF Shell!Cut
  <2>2. /\ wire' \in Seq(Shell!Item) /\ Nums(wire') \subseteq Nums(wire) /\ Kinds(wire') \subseteq Kinds(wire)
        /\ Sorted(wire) => Sorted(wire')
        /\ Marked(wire) => Marked(wire')
    BY <2>0, <2>1, RowCut, RowMarks
  <2>3. /\ UNCHANGED <<pump, written, ptyEvents, relay, buf, out, exitTold, terminal>>
        /\ ~lost' => ~lost /\ wire' = wire
    BY <1>4 DEF Shell!Cut
  <2>4. Rows' /\ Marks' /\ Told'
    BY <2>2, <2>3 DEF RestInv, Rows, Marks, Told
  <2>5. InLine'
    <3>1. Flows(Nums(terminal), AllNums(out), Nums(buf), Nums(ptyEvents), Nums(wire'))
      BY <2>2, FlowsLess DEF RestInv, InLine
    <3> QED
      BY <2>2, <2>3, <3>1 DEF RestInv, InLine
  <2>6. Complete'
    BY <2>2, <2>3 DEF RestInv, Complete, Whole
  <2> QED
    BY <2>4, <2>5, <2>6 DEF RestInv
<1> QED
  BY <1>1, <1>2, <1>3, <1>4

\* event_shell: what it takes from the channel it passes on, in order, and drops marks only.
LEMMA PumpStep ==
  ASSUME RestInv, Places, Flags, Shell!PumpMessage \/ Shell!PumpStops \/ Shell!PumpInputFails \/ Shell!PumpClosed
  PROVE  RestInv'
<1>0. wire \in Seq(Shell!Item) /\ ptyEvents \in Seq(Shell!Item) /\ lost \in BOOLEAN
  BY DEF RestInv, Rows, Flags
<1>1. /\ UNCHANGED <<written, relay, buf, out, exitTold, terminal>>
      /\ Told'
  BY DEF Shell!PumpMessage, Shell!PumpStops, Shell!PumpInputFails, Shell!PumpClosed, Shell!PumpRest, RestInv, Told
<1>2. pump # "idle" /\ (pump # "ended" => "closed" \notin Kinds(ptyEvents)) /\ relay # "probe"
  BY DEF Shell!PumpMessage, Shell!PumpStops, Shell!PumpInputFails, Shell!PumpClosed, RestInv, Marks
<1>3. CASE Shell!PumpMessage
  <2> DEFINE h == Head(wire)
  <2>1. wire # <<>> /\ wire' = Tail(wire) /\ UNCHANGED lost
    BY <1>3 DEF Shell!PumpMessage, Shell!PumpRest
  <2>2. /\ wire' \in Seq(Shell!Item) /\ h \in Shell!Item
        /\ Nums(wire) = Num(h) \cup Nums(wire') /\ Kinds(wire) = {h.kind} \cup Kinds(wire')
        /\ Sorted(wire') /\ Below(Num(h), Nums(wire')) /\ Marked(wire')
        /\ (h.n = 0 <=> h.kind \notin {"data", "exit"}) /\ h.kind # "closed"
    BY <1>0, <2>1, RowTail, RowMarks DEF RestInv, InLine, Marks
  <2>3. CASE ptyEvents' = Append(ptyEvents, h) /\ Len(ptyEvents) < EventCap /\ pump' = pump /\ pump = "run"
    <3>1. /\ ptyEvents' \in Seq(Shell!Item) /\ Nums(ptyEvents') = Nums(ptyEvents) \cup Num(h)
          /\ Kinds(ptyEvents') = Kinds(ptyEvents) \cup {h.kind} /\ Len(ptyEvents') = Len(ptyEvents) + 1
          /\ Sorted(ptyEvents) /\ Below(Nums(ptyEvents), Num(h)) => Sorted(ptyEvents')
      BY <1>0, <2>2, <2>3, RowAppend
    <3>2. Marked(ptyEvents') /\ Ends(ptyEvents')
      BY <1>0, <1>2, <2>2, <2>3, RowMarks DEF RestInv, Marks
    <3>3. relay = "exit" => ptyEvents' # <<>> /\ Head(ptyEvents').kind = "exit"
      BY <1>0, <2>2, <2>3 DEF RestInv, Marks
    <3>4. Rows'
      BY <1>1, <2>2, <2>3, <3>1, ShellConstants DEF RestInv, Rows
    <3>5. Marks'
      BY <1>1, <1>2, <2>2, <2>3, <3>1, <3>2, <3>3 DEF RestInv, Marks
    <3>6. /\ Flows(Nums(terminal), AllNums(out), Nums(buf), Nums(ptyEvents'), Nums(wire'))
          /\ Below(Nums(ptyEvents), Num(h))
      <4>1. Flows(Nums(terminal), AllNums(out), Nums(buf), Nums(ptyEvents), Num(h) \cup Nums(wire'))
        BY <2>2 DEF RestInv, InLine
      <4> QED
        <5>1. /\ Flows(Nums(terminal), AllNums(out), Nums(buf), Nums(ptyEvents) \cup Num(h), Nums(wire'))
              /\ Below(Nums(ptyEvents), Num(h))
          BY <2>2, <4>1, PumpShift, Zenon
        <5> QED
          BY <3>1, <5>1
    <3>7. InLine'
      BY <1>1, <2>2, <3>1, <3>6 DEF RestInv, InLine
    <3>8. Complete'
      <4>1. Whole' = Whole
        BY <1>1, <2>2, <3>1 DEF Whole
      <4> QED
        BY <1>1, <2>1, <4>1 DEF RestInv, Complete
    <3> QED
      BY <1>1, <3>4, <3>5, <3>7, <3>8 DEF RestInv
  <2>4. CASE h.kind \in {"eof", "close"} /\ ptyEvents' = ptyEvents /\ pump' \in {pump, "closing"} /\ pump = "run"
    <3>1. Num(h) = {}
      BY <2>2, <2>4 DEF Num
    <3>2. Nums(wire) = Nums(wire')
      BY <2>2, <3>1
    <3>3. Rows' /\ Marks' /\ InLine'
      BY <1>1, <1>2, <2>2, <2>4, <3>2 DEF RestInv, Rows, Marks, InLine
    <3>4. Complete'
      BY <1>1, <2>1, <2>4, <3>2 DEF RestInv, Complete, Whole
    <3> QED
      BY <1>1, <3>3, <3>4 DEF RestInv
  <2> QED
    BY <1>3, <2>3, <2>4 DEF Shell!PumpMessage
<1>4. CASE Shell!PumpStops
  BY <1>1, <1>2, <1>4 DEF Shell!PumpStops, Shell!PumpRest, RestInv, Rows, Marks, InLine, Complete, Whole
<1>5. CASE wire' = <<>> /\ (~lost' => ~lost /\ Nums(wire) = {}) /\ pump' = "ended"
           /\ (ptyEvents' = ptyEvents
               \/ (ptyEvents' = Append(ptyEvents, Shell!Mark("closed")) /\ Len(ptyEvents) < EventCap /\ pump = "closing"))
  <2>1. /\ ptyEvents' \in Seq(Shell!Item) /\ Len(ptyEvents') <= EventCap /\ Nums(ptyEvents') = Nums(ptyEvents)
        /\ Sorted(ptyEvents') /\ Marked(ptyEvents') /\ Ends(ptyEvents')
        /\ relay = "exit" => ptyEvents' # <<>> /\ Head(ptyEvents').kind = "exit"
    <3>1. CASE ptyEvents' = ptyEvents
      BY <3>1 DEF RestInv, Rows, InLine, Marks
    <3>2. CASE ptyEvents' = Append(ptyEvents, Shell!Mark("closed")) /\ Len(ptyEvents) < EventCap /\ pump = "closing"
      <4> DEFINE m == Shell!Mark("closed")
      <4>1. m \in Shell!Item /\ m.kind = "closed" /\ m.n = 0 /\ Num(m) = {}
        BY ItemFacts
      <4> HIDE DEF m
      <4>2. ptyEvents' = Append(ptyEvents, m)
        BY <3>2 DEF m
      <4>3. /\ ptyEvents' \in Seq(Shell!Item) /\ Nums(ptyEvents') = Nums(ptyEvents) \cup Num(m)
            /\ Sorted(ptyEvents) /\ Below(Nums(ptyEvents), Num(m)) => Sorted(ptyEvents')
        BY <1>0, <4>1, <4>2, RowAppend
      <4>4. Marked(ptyEvents') /\ Ends(ptyEvents')
        BY <1>0, <1>2, <3>2, <4>1, <4>2, RowMarks DEF RestInv, Marks
      <4>5. Below(Nums(ptyEvents), Num(m))
        BY <4>1 DEF Below
      <4>6. relay = "exit" => ptyEvents' # <<>> /\ Head(ptyEvents').kind = "exit"
        BY <1>0, <4>1, <4>2 DEF RestInv, Marks
      <4>7. Len(ptyEvents') <= EventCap
        <5>1. Len(ptyEvents') = Len(ptyEvents) + 1 /\ Len(ptyEvents) \in Nat
          BY <1>0, <4>1, <4>2
        <5> QED
          BY <3>2, <5>1, ShellConstants
      <4> QED
        BY <4>1, <4>3, <4>4, <4>5, <4>6, <4>7 DEF RestInv, InLine
    <3> QED
      BY <1>5, <3>1, <3>2
  <2>2. wire' \in Seq(Shell!Item) /\ Nums(wire') = {} /\ Kinds(wire') = {} /\ Sorted(wire') /\ Marked(wire')
    BY <1>5, RowSmall
  <2>3. Rows' /\ Marks'
    BY <1>1, <1>2, <1>5, <2>1, <2>2 DEF RestInv, Rows, Marks
  <2>4. InLine'
    <3>1. Flows(Nums(terminal), AllNums(out), Nums(buf), Nums(ptyEvents), Nums(wire'))
      BY <2>2, FlowsLess DEF RestInv, InLine
    <3> QED
      BY <1>1, <2>1, <2>2, <3>1 DEF RestInv, InLine
  <2>5. Complete'
    BY <1>1, <1>5, <2>1, <2>2 DEF RestInv, Complete, Whole
  <2> QED
    BY <1>1, <2>3, <2>4, <2>5 DEF RestInv
<1>6. CASE Shell!PumpInputFails
  <2>1. Nums(<<>>) = {}
    BY RowSmall
  <2> QED
    BY <1>0, <1>5, <1>6, <2>1 DEF Shell!PumpInputFails
<1>7. CASE Shell!PumpClosed
  <2>1. ASSUME ~lost' PROVE ~lost /\ Nums(wire) = {}
    <3>1. ~lost /\ ~ \E i \in DOMAIN wire : wire[i].kind \in {"data", "exit"}
      BY <1>7, <2>1 DEF Shell!PumpClosed
    <3>2. \A e \in Range(wire) : e.kind \notin {"data", "exit"}
      BY <3>1, Zenon DEF Range
    <3>3. \A e \in Range(wire) : e.n = 0
      BY <3>2 DEF RestInv, Marks, Marked
    <3> QED
      BY <3>1, <3>3, Zenon DEF Nums
  <2> QED
    BY <1>5, <1>7, <2>1 DEF Shell!PumpClosed
<1> QED
  BY <1>3, <1>4, <1>6, <1>7

\* A flush keeps the messages in order, and loses a row whole or not at all.
LEMMA SendRow ==
  ASSUME NEW m \in Seq(Shell!Item), Flushed(m), Flags,
         out \in Seq(Seq(Shell!Item)), Len(out) <= OutCap,
         "closed" \notin Kinds(m), "closed" \notin AllKinds(out), AllEnds(out), AllSorted(out), Sorted(m),
         Below(AllNums(out), Nums(m))
  PROVE  /\ out' \in Seq(Seq(Shell!Item)) /\ Len(out') <= OutCap
         /\ AllKinds(out) \subseteq AllKinds(out') /\ "closed" \notin AllKinds(out')
         /\ AllEnds(out') /\ AllSorted(out')
         /\ AllNums(out) \subseteq AllNums(out') /\ AllNums(out') \subseteq AllNums(out) \cup Nums(m)
         /\ ~lost' => ~lost /\ AllNums(out') = AllNums(out) \cup Nums(m)
<1>1. CASE m = <<>> /\ out' = out /\ lost' = lost
  <2>1. Nums(m) = {}
    BY <1>1, RowSmall
  <2> QED
    BY <1>1, <2>1
<1>2. CASE m # <<>> /\ Len(out) < OutCap /\ out' = Append(out, m) /\ lost' = lost
  <2>1. /\ out' \in Seq(Seq(Shell!Item)) /\ Len(out') = Len(out) + 1
        /\ AllNums(out') = AllNums(out) \cup Nums(m) /\ AllKinds(out') = AllKinds(out) \cup Kinds(m)
        /\ AllSorted(out') /\ AllEnds(out')
    BY <1>2, OutAppend
  <2>2. Len(out') <= OutCap
    <3>1. Len(out) \in Nat
      OBVIOUS
    <3> QED
      BY <1>2, <2>1, <3>1, ShellConstants
  <2> QED
    BY <1>2, <2>1, <2>2
<1>3. CASE out' = out /\ lost' = TRUE
  BY <1>3
<1> QED
  BY <1>1, <1>2, <1>3 DEF Flushed

\* The worker passes a row on, its buffer and what it takes with it, and empties the buffer.
LEMMA WorkerFlushes ==
  ASSUME RestInv, Flags, relay = "loop", NEW m \in Seq(Shell!Item), Flushed(m), NEW A, NEW P,
         Nums(m) = Nums(buf) \cup A, Nums(ptyEvents) = A \cup P, Below(A, P), Sorted(m), "closed" \notin Kinds(m),
         buf' = <<>>, ptyEvents' \in Seq(Shell!Item), Len(ptyEvents') <= EventCap, Nums(ptyEvents') = P,
         Sorted(ptyEvents'), Marked(ptyEvents'), Ends(ptyEvents'), Kinds(ptyEvents') \subseteq Kinds(ptyEvents),
         \/ relay' \in {"loop", "closed"} /\ exitTold' = exitTold
         \/ /\ relay' = "exit" /\ exitTold' = TRUE
            /\ ptyEvents' # <<>> /\ Head(ptyEvents').kind = "exit",
         UNCHANGED <<written, pump, wire, terminal>>
  PROVE  RestInv'
<1>1. "closed" \notin AllKinds(out) /\ "closed" \notin Kinds(terminal) /\ AllEnds(out) /\ AllSorted(out)
      /\ out \in Seq(Seq(Shell!Item)) /\ Len(out) <= OutCap
  BY DEF RestInv, Told, InLine, Rows
<1>2. /\ Flows(Nums(terminal), AllNums(out), Nums(buf) \cup A, P, Nums(wire))
      /\ Below(AllNums(out), Nums(buf) \cup A)
  <2>1. Flows(Nums(terminal), AllNums(out), Nums(buf), A \cup P, Nums(wire))
    BY DEF RestInv, InLine
  <2>2. Flows(Nums(terminal), AllNums(out), Nums(buf) \cup A, P, Nums(wire))
    BY <2>1, TakeShift, Zenon
  <2> QED
    BY <2>2, FlushShift, Zenon
<1>3. /\ out' \in Seq(Seq(Shell!Item)) /\ Len(out') <= OutCap
      /\ AllKinds(out) \subseteq AllKinds(out') /\ "closed" \notin AllKinds(out')
      /\ AllEnds(out') /\ AllSorted(out')
      /\ AllNums(out') \subseteq AllNums(out) \cup Nums(m)
      /\ ~lost' => ~lost /\ AllNums(out') = AllNums(out) \cup Nums(m)
  BY <1>1, <1>2, SendRow
<1>4. buf' \in Seq(Shell!Item) /\ Len(buf') < BatchCap /\ Nums(buf') = {} /\ Kinds(buf') = {} /\ Sorted(buf')
  BY RowSmall, ShellConstants
<1>5. Rows'
  BY <1>3, <1>4 DEF RestInv, Rows
<1>6. Marks'
  BY <1>4 DEF RestInv, Marks
<1>7. Told'
  BY <1>1, <1>3 DEF RestInv, Told
<1>8. InLine'
  <2>1. Flows(Nums(terminal), AllNums(out) \cup Nums(m), {}, P, Nums(wire))
    BY <1>2, FlushShift, Zenon
  <2>2. Flows(Nums(terminal), AllNums(out'), {}, P, Nums(wire))
    BY <1>3, <2>1, FlowsLess
  <2> QED
    BY <1>3, <1>4, <2>2 DEF RestInv, InLine
<1>9. Complete'
  <2>1. Whole' = Nums(terminal) \cup AllNums(out') \cup P \cup Nums(wire)
    BY <1>4 DEF Whole
  <2>2. Whole = Nums(terminal) \cup AllNums(out) \cup Nums(m) \cup P \cup Nums(wire)
    BY DEF Whole
  <2>3. Whole' \subseteq Whole /\ (~lost' => ~lost /\ Whole' = Whole)
    BY <1>3, <2>1, <2>2
  <2> QED
    BY <2>3 DEF RestInv, Complete
<1> QED
  BY <1>5, <1>6, <1>7, <1>8, <1>9 DEF RestInv

\* What the worker finds at the head of its channel.
LEMMA HeadFacts ==
  ASSUME RestInv, ptyEvents # <<>>
  PROVE  /\ Tail(ptyEvents) \in Seq(Shell!Item) /\ Head(ptyEvents) \in Shell!Item
         /\ Len(Tail(ptyEvents)) <= EventCap
         /\ Nums(ptyEvents) = Num(Head(ptyEvents)) \cup Nums(Tail(ptyEvents))
         /\ Kinds(ptyEvents) = {Head(ptyEvents).kind} \cup Kinds(Tail(ptyEvents))
         /\ Sorted(Tail(ptyEvents)) /\ Below(Num(Head(ptyEvents)), Nums(Tail(ptyEvents)))
         /\ Marked(Tail(ptyEvents)) /\ Ends(Tail(ptyEvents))
         /\ Head(ptyEvents).kind = "closed" => Tail(ptyEvents) = <<>> /\ Num(Head(ptyEvents)) = {}
<1>1. ptyEvents \in Seq(Shell!Item) /\ Sorted(ptyEvents) /\ Marked(ptyEvents) /\ Ends(ptyEvents) /\ Len(ptyEvents) <= EventCap
  BY DEF RestInv, Rows, InLine, Marks
<1>2. Len(Tail(ptyEvents)) <= EventCap
  BY <1>1, TailShape, ShellConstants
<1>3. /\ Marked(Tail(ptyEvents)) /\ (Head(ptyEvents).n = 0 <=> Head(ptyEvents).kind \notin {"data", "exit"})
      /\ Ends(Tail(ptyEvents)) /\ (Head(ptyEvents).kind = "closed" => Tail(ptyEvents) = <<>>)
  BY <1>1, RowMarks
<1>4. Head(ptyEvents).kind = "closed" => Num(Head(ptyEvents)) = {}
  BY <1>3 DEF Num
<1> QED
  BY <1>1, <1>2, <1>3, <1>4, RowTail

\* The worker's loop: output, flush, exit status, the end of the shell.
LEMMA LoopStep ==
  ASSUME RestInv, Flags,
         Shell!WorkerOutput \/ Shell!WorkerExit \/ Shell!WorkerFlush \/ Shell!WorkerShellClosed
  PROVE  RestInv'
<1> DEFINE h == Head(ptyEvents)
<1>0. /\ buf \in Seq(Shell!Item) /\ Sorted(buf) /\ "closed" \notin Kinds(buf) /\ Kinds(buf) \subseteq {"data"}
      /\ ptyEvents \in Seq(Shell!Item) /\ Len(ptyEvents) <= EventCap
      /\ Sorted(ptyEvents) /\ Marked(ptyEvents) /\ Ends(ptyEvents)
  BY DEF RestInv, Rows, InLine, Marks
<1>1. relay = "loop" /\ UNCHANGED <<written, pump, wire, terminal>>
  BY DEF Shell!WorkerOutput, Shell!WorkerExit, Shell!WorkerFlush, Shell!WorkerShellClosed, Shell!WorkerRest
<1>2. Below({}, Nums(ptyEvents)) /\ Below({}, {})
  BY DEF Below
<1>3. Nums(buf) = Nums(buf) \cup {} /\ Nums(ptyEvents) = {} \cup Nums(ptyEvents)
  OBVIOUS
<1>4. CASE Shell!WorkerOutput
  <2> DEFINE m == Append(buf, h)
  <2>1. ptyEvents # <<>> /\ h.kind = "data" /\ ptyEvents' = Tail(ptyEvents) /\ relay' = relay /\ exitTold' = exitTold
    BY <1>4 DEF Shell!WorkerOutput
  <2>2. Below(Nums(buf), Num(h))
    <3>1. Flows(Nums(terminal), AllNums(out), Nums(buf), Num(h) \cup Nums(Tail(ptyEvents)), Nums(wire))
      BY <2>1, HeadFacts DEF RestInv, InLine
    <3> QED
      BY <2>1, <3>1, HeadFacts, TakeShift, Zenon
  <2>3. h \in Shell!Item
    BY <2>1, HeadFacts
  <2>4. /\ m \in Seq(Shell!Item) /\ Nums(m) = Nums(buf) \cup Num(h) /\ Kinds(m) = Kinds(buf) \cup {h.kind} /\ Sorted(m)
    BY <1>0, <2>2, <2>3, RowAppend
  <2>5. "closed" \notin Kinds(m) /\ Kinds(m) \subseteq {"data"}
    BY <1>0, <2>1, <2>4
  <2>6. CASE Shell!TrySend(m) /\ buf' = <<>>
    <3>1. Flushed(m)
      BY <2>6, FlushFacts
    <3>2. Kinds(ptyEvents') \subseteq Kinds(ptyEvents)
      BY <2>1, HeadFacts
    <3> HIDE DEF m
    <3> QED
      BY <1>1, <2>1, <2>4, <2>5, <2>6, <3>1, <3>2, HeadFacts, WorkerFlushes
  <2>7. CASE Len(m) < BatchCap /\ buf' = m /\ UNCHANGED <<out, lost>>
    <3> HIDE DEF m
    <3>1. /\ ptyEvents' \in Seq(Shell!Item) /\ Len(ptyEvents') <= EventCap
          /\ Nums(ptyEvents) = Num(h) \cup Nums(ptyEvents') /\ Kinds(ptyEvents') \subseteq Kinds(ptyEvents)
          /\ Sorted(ptyEvents') /\ Below(Num(h), Nums(ptyEvents')) /\ Marked(ptyEvents') /\ Ends(ptyEvents')
      BY <2>1, HeadFacts
    <3>2. Rows'
      BY <1>1, <2>4, <2>7, <3>1 DEF RestInv, Rows
    <3>3. Marks' /\ Told'
      BY <1>1, <2>1, <2>5, <2>7, <3>1 DEF RestInv, Marks, Told
    <3>4. Flows(Nums(terminal), AllNums(out), Nums(buf) \cup Num(h), Nums(ptyEvents'), Nums(wire))
      <4>1. Flows(Nums(terminal), AllNums(out), Nums(buf), Num(h) \cup Nums(ptyEvents'), Nums(wire))
        BY <3>1 DEF RestInv, InLine
      <4> QED
        BY <3>1, <4>1, TakeShift, Zenon
    <3>5. InLine'
      BY <1>1, <2>4, <2>7, <3>1, <3>4 DEF RestInv, InLine
    <3>6. Whole' = Whole
      BY <1>1, <2>4, <2>7, <3>1 DEF Whole
    <3>7. Complete'
      BY <1>1, <2>7, <3>6 DEF RestInv, Complete
    <3> QED
      BY <3>2, <3>3, <3>5, <3>7 DEF RestInv
  <2>8. Len(m) \in Nat
    BY <2>4
  <2> QED
    BY <1>4, <2>6, <2>7, <2>8, ShellConstants DEF Shell!WorkerOutput
<1>5. CASE Shell!WorkerExit
  <2>1. /\ ptyEvents # <<>> /\ h.kind = "exit" /\ relay' = "exit" /\ exitTold' = TRUE /\ buf' = <<>>
        /\ ptyEvents' = ptyEvents /\ Flushed(buf)
    BY <1>5, FlushFacts DEF Shell!WorkerExit
  <2> QED
    BY <1>0, <1>1, <1>2, <1>3, <2>1, WorkerFlushes
<1>6. CASE Shell!WorkerFlush
  <2>1. relay' = "loop" /\ exitTold' = exitTold /\ buf' = <<>> /\ ptyEvents' = ptyEvents /\ Flushed(buf)
    BY <1>1, <1>6, FlushFacts DEF Shell!WorkerFlush
  <2> QED
    BY <1>0, <1>1, <1>2, <1>3, <2>1, WorkerFlushes
<1>7. CASE Shell!WorkerShellClosed
  <2>1. relay' = "closed" /\ exitTold' = exitTold /\ buf' = <<>> /\ ptyEvents' = <<>> /\ Flushed(buf)
    BY <1>7, FlushFacts DEF Shell!WorkerShellClosed
  <2>2. Nums(ptyEvents) = {}
    <3>1. CASE ptyEvents = <<>>
      BY <3>1, RowSmall
    <3>2. CASE ptyEvents # <<>> /\ h.kind = "closed"
      BY <3>2, HeadFacts, RowSmall
    <3> QED
      BY <1>7, <3>1, <3>2 DEF Shell!WorkerShellClosed
  <2>3. /\ ptyEvents' \in Seq(Shell!Item) /\ Len(ptyEvents') <= EventCap /\ Nums(ptyEvents') = {} /\ Sorted(ptyEvents')
        /\ Marked(ptyEvents') /\ Ends(ptyEvents') /\ Kinds(ptyEvents') \subseteq Kinds(ptyEvents)
    BY <2>1, RowSmall, ShellConstants
  <2>4. Nums(ptyEvents) = {} \cup {}
    BY <2>2
  <2> QED
    BY <1>0, <1>1, <1>2, <1>3, <2>1, <2>3, <2>4, WorkerFlushes
<1> QED
  BY <1>4, <1>5, <1>6, <1>7

\* The rest of the worker, and the UI.
LEMMA TellStep ==
  ASSUME RestInv, Flags,
         Shell!Probe \/ Shell!WorkerTellExit \/ Shell!WorkerDisconnect \/ Shell!WorkerTellClosed \/ Shell!UiReceives
  PROVE  RestInv'
<1> DEFINE h == Head(ptyEvents)
<1>0. out \in Seq(Seq(Shell!Item)) /\ Len(out) <= OutCap /\ AllSorted(out) /\ AllEnds(out) /\ Len(out) \in Nat
  BY DEF RestInv, Rows, InLine, Told
<1>1. CASE Shell!Probe
  BY <1>1 DEF Shell!Probe, Shell!WorkerRest, RestInv, Rows, Marks, Told, InLine, Complete, Whole
<1>2. CASE Shell!WorkerTellExit
  <2>1. /\ relay = "exit" /\ relay' = "loop" /\ ptyEvents # <<>> /\ h.kind = "exit" /\ buf = <<>>
        /\ Len(out) < OutCap /\ out' = Append(out, <<h>>) /\ ptyEvents' = Tail(ptyEvents)
        /\ UNCHANGED <<written, wire, terminal, buf, pump, exitTold, lost>>
    BY <1>2 DEF Shell!WorkerTellExit, Shell!WorkerRest, RestInv, Marks
  <2>2. /\ <<h>> \in Seq(Shell!Item) /\ Nums(<<h>>) = Num(h) /\ Kinds(<<h>>) = {"exit"} /\ Sorted(<<h>>)
    BY <2>1, HeadFacts, RowSmall
  <2>3. Nums(buf) = {}
    BY <2>1, RowSmall
  <2>4. /\ Flows(Nums(terminal), AllNums(out) \cup Num(h), {}, Nums(Tail(ptyEvents)), Nums(wire))
        /\ Below(AllNums(out), Num(h))
    <3>1. Flows(Nums(terminal), AllNums(out), {}, Num(h) \cup Nums(Tail(ptyEvents)), Nums(wire))
      BY <2>1, <2>3, HeadFacts DEF RestInv, InLine
    <3> QED
      BY <2>1, <3>1, HeadFacts, TellShift, Zenon
  <2>5. "closed" \notin AllKinds(out) /\ "closed" \notin Kinds(terminal)
    BY <2>1 DEF RestInv, Told
  <2>6. /\ out' \in Seq(Seq(Shell!Item)) /\ Len(out') = Len(out) + 1
        /\ AllNums(out') = AllNums(out) \cup Num(h) /\ AllKinds(out') = AllKinds(out) \cup {"exit"}
        /\ AllSorted(out') /\ AllEnds(out')
    BY <1>0, <2>1, <2>2, <2>4, <2>5, OutAppend
  <2>7. Len(out') <= OutCap
    BY <1>0, <2>1, <2>6, ShellConstants
  <2>8. /\ ptyEvents' \in Seq(Shell!Item) /\ Len(ptyEvents') <= EventCap
        /\ Nums(ptyEvents) = Num(h) \cup Nums(ptyEvents') /\ Kinds(ptyEvents') \subseteq Kinds(ptyEvents)
        /\ Sorted(ptyEvents') /\ Marked(ptyEvents') /\ Ends(ptyEvents')
    BY <2>1, HeadFacts
  <2>9. Rows' /\ Marks' /\ Told'
    BY <2>1, <2>5, <2>6, <2>7, <2>8 DEF RestInv, Rows, Marks, Told
  <2>10. InLine'
    BY <2>1, <2>3, <2>4, <2>6, <2>8 DEF RestInv, InLine
  <2>11. Whole' = Whole
    BY <2>1, <2>3, <2>6, <2>8 DEF Whole
  <2>12. Complete'
    BY <2>1, <2>11 DEF RestInv, Complete
  <2> QED
    BY <2>9, <2>10, <2>12 DEF RestInv
<1>3. CASE Shell!WorkerDisconnect
  <2>1. /\ relay = "loop" /\ relay' = "closed" /\ buf' = <<>> /\ ptyEvents' = <<>> /\ pump' = "ended" /\ lost' = TRUE
        /\ UNCHANGED <<written, wire, terminal, out, exitTold>>
    BY <1>3 DEF Shell!WorkerDisconnect, Shell!WorkerRest
  <2>2. Rows' /\ Marks' /\ Told'
    BY <2>1, RowSmall, ShellConstants DEF RestInv, Rows, Marks, Told
  <2>3. Flows(Nums(terminal), AllNums(out), Nums(buf'), Nums(ptyEvents'), Nums(wire))
    BY <2>1, RowSmall, FlowsLess DEF RestInv, InLine
  <2>4. InLine'
    BY <2>1, <2>3, RowSmall DEF RestInv, InLine
  <2>5. Complete'
    <3>1. Nums(buf') = {} /\ Nums(ptyEvents') = {}
      BY <2>1, RowSmall
    <3>2. Whole' \subseteq Whole
      BY <2>1, <3>1 DEF Whole
    <3> QED
      BY <2>1, <3>2 DEF RestInv, Complete
  <2> QED
    BY <2>2, <2>4, <2>5 DEF RestInv
<1>4. CASE Shell!WorkerTellClosed
  <2> DEFINE m == Shell!Mark("closed")
  <2>1. /\ relay = "closed" /\ relay' = "done" /\ pump' = "ended" /\ Len(out) < OutCap /\ out' = Append(out, <<m>>)
        /\ UNCHANGED <<written, wire, terminal, buf, ptyEvents, exitTold, lost>>
    BY <1>4 DEF Shell!WorkerTellClosed, Shell!WorkerRest
  <2>2. "closed" \notin AllKinds(out) /\ "closed" \notin Kinds(terminal)
    BY <2>1 DEF RestInv, Told
  <2>3. <<m>> \in Seq(Shell!Item) /\ Nums(<<m>>) = {} /\ Sorted(<<m>>) /\ Kinds(<<m>>) = {"closed"}
    BY ItemFacts, RowSmall
  <2>4. Below(AllNums(out), Nums(<<m>>))
    BY <2>3 DEF Below
  <2>5. /\ out' \in Seq(Seq(Shell!Item)) /\ Len(out') = Len(out) + 1 /\ AllNums(out') = AllNums(out)
        /\ AllKinds(out') = AllKinds(out) \cup {"closed"} /\ AllSorted(out') /\ AllEnds(out')
    BY <1>0, <2>1, <2>2, <2>3, <2>4, OutAppend
  <2>6. Len(out') <= OutCap
    BY <1>0, <2>1, <2>5, ShellConstants
  <2>7. Rows' /\ Marks' /\ Told'
    BY <2>1, <2>2, <2>5, <2>6 DEF RestInv, Rows, Marks, Told
  <2>8. InLine' /\ Complete'
    BY <2>1, <2>5 DEF RestInv, InLine, Complete, Whole
  <2> QED
    BY <2>7, <2>8 DEF RestInv
<1>5. CASE Shell!UiReceives
  <2> DEFINE m == Head(out)
  <2>1. /\ out # <<>> /\ out' = Tail(out) /\ terminal' = terminal \o m
        /\ UNCHANGED <<written, wire, pump, ptyEvents, relay, buf, exitTold, lost>>
    BY <1>5 DEF Shell!UiReceives
  <2>2. /\ out' \in Seq(Seq(Shell!Item)) /\ m \in Seq(Shell!Item) /\ Len(out') = Len(out) - 1
        /\ AllNums(out) = Nums(m) \cup AllNums(out') /\ AllKinds(out) = Kinds(m) \cup AllKinds(out')
        /\ AllSorted(out') /\ Sorted(m) /\ Below(Nums(m), AllNums(out')) /\ AllEnds(out')
        /\ "closed" \in Kinds(m) => m = <<Shell!Mark("closed")>> /\ out' = <<>>
    BY <1>0, <2>1, OutTail
  <2> HIDE DEF m
  <2>3. /\ Flows(Nums(terminal) \cup Nums(m), AllNums(out'), Nums(buf), Nums(ptyEvents), Nums(wire))
        /\ Below(Nums(terminal), Nums(m))
    <3>1. Flows(Nums(terminal), Nums(m) \cup AllNums(out'), Nums(buf), Nums(ptyEvents), Nums(wire))
      BY <2>2 DEF RestInv, InLine
    <3> QED
      BY <2>2, <3>1, ShowShift, Zenon
  <2>4. terminal \in Seq(Shell!Item) /\ Sorted(terminal) /\ "closed" \notin Kinds(terminal)
    BY <2>1 DEF RestInv, Rows, InLine, Told
  <2>5. /\ terminal' \in Seq(Shell!Item) /\ Nums(terminal') = Nums(terminal) \cup Nums(m)
        /\ Kinds(terminal') = Kinds(terminal) \cup Kinds(m) /\ Sorted(terminal')
    BY <2>1, <2>2, <2>3, <2>4, RowConcat
  <2>6. Ends(terminal')
    <3>1. CASE "closed" \notin Kinds(m)
      <4>1. "closed" \notin Kinds(terminal')
        BY <2>4, <2>5, <3>1
      <4> QED
        BY <4>1, Zenon DEF Ends, Kinds, Range
    <3>2. CASE m = <<Shell!Mark("closed")>>
      <4>1. terminal' = Append(terminal, Shell!Mark("closed"))
        BY <2>1, <2>4, <3>2, ItemFacts
      <4> QED
        BY <2>4, <4>1, RowMarks, ItemFacts
    <3> QED
      BY <2>2, <3>1, <3>2
  <2>7. Rows' /\ Marks'
    BY <1>0, <2>1, <2>2, <2>5, ShellConstants DEF RestInv, Rows, Marks
  <2>8. Told'
    BY <2>1, <2>2, <2>4, <2>5, <2>6 DEF RestInv, Told
  <2>9. InLine'
    BY <2>1, <2>2, <2>3, <2>5 DEF RestInv, InLine
  <2>10. Whole' = Whole
    BY <2>1, <2>2, <2>5 DEF Whole
  <2>11. Complete'
    BY <2>1, <2>10 DEF RestInv, Complete
  <2> QED
    BY <2>7, <2>8, <2>9, <2>11 DEF RestInv
<1> QED
  BY <1>1, <1>2, <1>3, <1>4, <1>5

\* Every step of the shell keeps its invariant, which holds at first.
LEMMA ShellStep == ShellInv /\ [Shell!PumpNext]_shellVars => ShellInv'
<1> SUFFICES ASSUME ShellInv, [Shell!PumpNext]_shellVars PROVE ShellInv'
  OBVIOUS
<1>1. RestInv /\ Places /\ Flags /\ Numbered
  BY ShellTypeParts DEF ShellInv, RestInv
<1>2. Places' /\ Flags' /\ Numbered'
  BY <1>1, PlacesStep
<1>3. RestInv'
  <2>1. CASE UNCHANGED shellVars
    BY <1>1, <2>1 DEF shellVars, RestInv, Rows, Marks, Told, InLine, Complete, Whole
  <2>2. CASE Shell!PumpNext
    BY <1>1, <2>2, ServerStep, PumpStep, LoopStep, TellStep DEF Shell!PumpNext
  <2> QED
    BY <2>1, <2>2
<1>4. (Rows /\ Flags /\ Places)' => Shell!TypeOK'
  BY DEF Shell!TypeOK, Rows, Flags, Places
<1> QED
  BY <1>2, <1>3, <1>4 DEF ShellInv, RestInv

\* It holds at first.
LEMMA ShellInit == Shell!PumpInit => ShellInv
<1> SUFFICES ASSUME Shell!PumpInit PROVE ShellInv
  OBVIOUS
<1> USE DEF Shell!PumpInit
<1>1. Range(<<>>) = {}
  BY EmptyFacts
<1>2. AllNums(<<>>) = {} /\ AllKinds(<<>>) = {}
  BY <1>1, Zenon DEF AllNums, AllKinds
<1>3. AllSorted(<<>>) /\ AllEnds(<<>>) /\ <<>> \in Seq(Seq(Shell!Item))
  BY DEF AllSorted, AllEnds
<1>4. Rows /\ Places /\ Numbered
  BY <1>3, RowSmall, ShellConstants DEF Rows, Places, Numbered
<1>5. Flags
  BY DEF Flags
<1>6. Marks /\ Told
  BY <1>2, <1>3, RowSmall DEF Marks, Told
<1>7. InLine
  BY <1>2, <1>3, RowSmall DEF InLine, Flows, Below
<1>8. Complete
  BY <1>2, RowSmall DEF Complete, Whole
<1> QED
  BY <1>4, <1>5, <1>6, <1>7, <1>8, ShellTypeParts DEF ShellInv

\* Two sequences behind one another, place by place.
LEMMA ConcatShape ==
  ASSUME NEW S, NEW s \in Seq(S), NEW t \in Seq(S)
  PROVE  /\ s \o t \in Seq(S) /\ Len(s \o t) = Len(s) + Len(t) /\ DOMAIN (s \o t) = 1 .. Len(s) + Len(t)
         /\ \A k \in 1 .. Len(s) : (s \o t)[k] = s[k]
         /\ \A k \in 1 .. Len(t) : (s \o t)[Len(s) + k] = t[k]
OBVIOUS

\* One element, a sequence, and three elements, place by place.
LEMMA LineShape ==
  ASSUME NEW S, NEW s \in Seq(S), NEW w \in S, NEW x \in S, NEW y \in S, NEW z \in S
  PROVE  LET d == <<w>> \o s \o <<x, y, z>>
         IN  /\ DOMAIN d = 1 .. Len(s) + 4 /\ d[1] = w
             /\ \A k \in 1 .. Len(s) : d[k + 1] = s[k]
             /\ d[Len(s) + 2] = x /\ d[Len(s) + 3] = y /\ d[Len(s) + 4] = z
<1> DEFINE c == <<w>> \o s
           b == <<x, y, z>>
           d == c \o b
<1>1. Len(s) \in Nat /\ b \in Seq(S) /\ Len(b) = 3 /\ b[1] = x /\ b[2] = y /\ b[3] = z
  OBVIOUS
<1>2. c \in Seq(S) /\ Len(c) = Len(s) + 1 /\ c[1] = w /\ \A k \in 1 .. Len(s) : c[k + 1] = s[k]
  <2>1. <<w>> \in Seq(S) /\ Len(<<w>>) = 1 /\ <<w>>[1] = w
    OBVIOUS
  <2>2. /\ c \in Seq(S) /\ Len(c) = Len(<<w>>) + Len(s) /\ \A k \in 1 .. Len(<<w>>) : c[k] = <<w>>[k]
        /\ \A k \in 1 .. Len(s) : c[Len(<<w>>) + k] = s[k]
    BY <2>1, ConcatShape
  <2> HIDE DEF c
  <2>3. \A k \in 1 .. Len(s) : 1 + k = k + 1
    OBVIOUS
  <2> QED
    BY <1>1, <2>1, <2>2, <2>3
<1>3. /\ DOMAIN d = 1 .. Len(c) + Len(b) /\ \A k \in 1 .. Len(c) : d[k] = c[k]
      /\ \A k \in 1 .. Len(b) : d[Len(c) + k] = b[k]
  <2>1. c \in Seq(S) /\ b \in Seq(S)
    BY <1>1, <1>2
  <2> QED
    BY <2>1, ConcatShape
<1> HIDE DEF b, c, d
<1>4. DOMAIN d = 1 .. Len(s) + 4 /\ d[1] = w /\ \A k \in 1 .. Len(s) : d[k + 1] = s[k]
  <2>1. 1 \in 1 .. Len(c) /\ \A k \in 1 .. Len(s) : k + 1 \in 1 .. Len(c)
    BY <1>1, <1>2
  <2>2. Len(c) + Len(b) = Len(s) + 4
    BY <1>1, <1>2
  <2> QED
    BY <1>2, <1>3, <2>1, <2>2
<1>5. d[Len(s) + 2] = x /\ d[Len(s) + 3] = y /\ d[Len(s) + 4] = z
  <2>1. /\ Len(s) + 2 = Len(c) + 1 /\ Len(s) + 3 = Len(c) + 2 /\ Len(s) + 4 = Len(c) + 3
        /\ 1 \in 1 .. Len(b) /\ 2 \in 1 .. Len(b) /\ 3 \in 1 .. Len(b)
    BY <1>1, <1>2
  <2> QED
    BY <1>1, <1>3, <2>1
<1> QED
  BY <1>4, <1>5 DEF b, c, d

\* The stages as one sequence, and as the five.
LEMMA StageFacts ==
  ASSUME Rows
  PROVE  /\ DOMAIN Shell!Stages = 1 .. Len(out) + 4 /\ Len(out) \in Nat /\ DOMAIN out = 1 .. Len(out)
         /\ Shell!Stages[1] = terminal
         /\ \A k \in 1 .. Len(out) : Shell!Stages[k + 1] = out[k]
         /\ Shell!Stages[Len(out) + 2] = buf /\ Shell!Stages[Len(out) + 3] = ptyEvents
         /\ Shell!Stages[Len(out) + 4] = wire
<1>1. Len(out) \in Nat /\ DOMAIN out = 1 .. Len(out)
  BY DEF Rows
<1> QED
  BY <1>1, LineShape DEF Rows, Shell!Stages

\* A shell in order is what OutputInOrder says of it.
LEMMA OrderFacts == ShellInv => Shell!OutputInOrder
<1> SUFFICES ASSUME ShellInv PROVE Shell!OutputInOrder
  OBVIOUS
<1> DEFINE L == Len(out)
           G == Shell!Stages
<1>1. /\ DOMAIN G = 1 .. L + 4 /\ L \in Nat /\ DOMAIN out = 1 .. L
      /\ G[1] = terminal /\ \A k \in 1 .. L : G[k + 1] = out[k]
      /\ G[L + 2] = buf /\ G[L + 3] = ptyEvents /\ G[L + 4] = wire
  BY StageFacts, ShellTypeParts DEF ShellInv
<1> HIDE DEF G, L
<1>2. \A k \in DOMAIN G : \/ k = 1
                          \/ k - 1 \in 1 .. L /\ G[k] = out[k - 1]
                          \/ k = L + 2 \/ k = L + 3 \/ k = L + 4
  <2> SUFFICES ASSUME NEW k \in DOMAIN G, k # 1, k # L + 2, k # L + 3, k # L + 4
               PROVE  k - 1 \in 1 .. L /\ G[k] = out[k - 1]
    OBVIOUS
  <2>1. k - 1 \in 1 .. L /\ k = (k - 1) + 1
    BY <1>1
  <2>2. G[(k - 1) + 1] = out[k - 1]
    BY <1>1, <2>1
  <2> QED
    BY <2>1, <2>2
<1>3. \A k \in 1 .. L : Nums(out[k]) \subseteq AllNums(out) /\ Sorted(out[k])
  <2>1. \A k \in DOMAIN out : Nums(out[k]) \subseteq AllNums(out)
    BY Zenon DEF AllNums, Range
  <2> QED
    BY <1>1, <2>1 DEF ShellInv, InLine, AllSorted
<1>4. \A k \in DOMAIN G : Sorted(G[k])
  BY <1>1, <1>2, <1>3 DEF ShellInv, InLine
<1>5. ASSUME NEW k \in DOMAIN G, NEW l \in DOMAIN G, k < l PROVE Below(Nums(G[k]), Nums(G[l]))
  <2>0. k \in Int /\ l \in Int /\ k >= 1 /\ l <= L + 4
    BY <1>1
  <2>1. Flows(Nums(terminal), AllNums(out), Nums(buf), Nums(ptyEvents), Nums(wire))
    BY DEF ShellInv, InLine
  <2>2. CASE k = 1
    <3>1. CASE l - 1 \in 1 .. L /\ G[l] = out[l - 1]
      BY <1>1, <1>3, <2>1, <2>2, <3>1, Zenon DEF Flows, Below
    <3>2. CASE l = L + 2 \/ l = L + 3 \/ l = L + 4
      BY <1>1, <2>1, <2>2, <3>2 DEF Flows
    <3>3. l # 1
      BY <1>5, <2>2
    <3> QED
      BY <1>2, <3>1, <3>2, <3>3
  <2>3. CASE k - 1 \in 1 .. L /\ G[k] = out[k - 1]
    <3>1. CASE l - 1 \in 1 .. L /\ G[l] = out[l - 1]
      <4>1. k - 1 < l - 1
        BY <1>5, <2>0
      <4> QED
        BY <1>1, <2>3, <3>1, <4>1 DEF ShellInv, InLine, AllSorted
    <3>2. CASE l = L + 2 \/ l = L + 3 \/ l = L + 4
      <4>1. Nums(out[k - 1]) \subseteq AllNums(out)
        BY <1>3, <2>3
      <4>2. Below(AllNums(out), Nums(G[l]))
        BY <1>1, <2>1, <3>2 DEF Flows
      <4> QED
        BY <2>3, <4>1, <4>2, Zenon DEF Below
    <3>3. l # 1
      BY <1>5, <2>0
    <3> QED
      BY <1>2, <3>1, <3>2, <3>3
  <2>4. CASE k = L + 2 \/ k = L + 3 \/ k = L + 4
    <3>1. l = L + 3 \/ l = L + 4
      BY <1>1, <1>5, <2>0, <2>4
    <3>2. k = L + 2 \/ (k = L + 3 /\ l = L + 4)
      BY <1>1, <1>5, <2>0, <2>4
    <3> QED
      BY <1>1, <2>1, <3>1, <3>2 DEF Flows
  <2> QED
    BY <1>2, <2>2, <2>3, <2>4
<1>6. \A k \in DOMAIN G : \A i \in Shell!Numbered(k) : i \in DOMAIN G[k] /\ G[k][i].n # 0 /\ G[k][i].n \in Nums(G[k])
  <2>1. ASSUME NEW k \in DOMAIN G, NEW i \in Shell!Numbered(k)
        PROVE  i \in DOMAIN G[k] /\ G[k][i].n # 0 /\ G[k][i].n \in Nums(G[k])
    <3>1. i \in DOMAIN G[k] /\ G[k][i].n > 0
      BY DEF Shell!Numbered, G
    <3>2. G[k][i].n # 0
      BY <3>1
    <3> QED
      BY <3>1, <3>2, Zenon DEF Nums, Range
  <2> QED
    BY <2>1
<1>7. ASSUME NEW k \in DOMAIN G, NEW l \in DOMAIN G, NEW i \in Shell!Numbered(k), NEW j \in Shell!Numbered(l),
             k < l \/ (k = l /\ i < j)
      PROVE  G[k][i].n < G[l][j].n
  <2>1. CASE k < l
    BY <1>5, <1>6, <2>1, Zenon DEF Below
  <2>2. CASE k = l /\ i < j
    BY <1>4, <1>6, <2>2 DEF Sorted
  <2> QED
    BY <1>7, <2>1, <2>2
<1>8. UNION {{G[k][i].n : i \in Shell!Numbered(k)} : k \in DOMAIN G} = Whole
  <2>1. \A k \in DOMAIN G : {G[k][i].n : i \in Shell!Numbered(k)} = Nums(G[k])
    <3> SUFFICES ASSUME NEW k \in DOMAIN G PROVE {G[k][i].n : i \in Shell!Numbered(k)} = Nums(G[k])
      OBVIOUS
    <3>1. {G[k][i].n : i \in Shell!Numbered(k)} \subseteq Nums(G[k])
      BY <1>6
    <3>2. ASSUME NEW i \in DOMAIN G[k], G[k][i].n # 0 PROVE i \in Shell!Numbered(k)
      <4>1. G[k] \in Seq(Shell!Item)
        <5>1. /\ \A n \in 1 .. L : out[n] \in Seq(Shell!Item)
              /\ terminal \in Seq(Shell!Item) /\ buf \in Seq(Shell!Item)
              /\ ptyEvents \in Seq(Shell!Item) /\ wire \in Seq(Shell!Item)
          BY <1>1, ShellTypeParts DEF ShellInv, Rows
        <5> QED
          BY <1>1, <1>2, <5>1
      <4>2. G[k][i].n > 0
        BY <3>2, <4>1, ItemFacts, ShellConstants
      <4> QED
        BY <4>2 DEF Shell!Numbered, G
    <3>3. Nums(G[k]) \subseteq {G[k][i].n : i \in Shell!Numbered(k)}
      BY <3>2, Zenon DEF Nums, Range
    <3> QED
      BY <3>1, <3>3
  <2>2. UNION {Nums(G[k]) : k \in DOMAIN G} = Whole
    <3>1. \A k \in DOMAIN G : Nums(G[k]) \subseteq Whole
      BY <1>1, <1>2, <1>3 DEF Whole
    <3>2. \A x \in AllNums(out) : \E k \in DOMAIN G : x \in Nums(G[k])
      <4>1. \A x \in AllNums(out) : \E k \in DOMAIN out : x \in Nums(out[k])
        BY Zenon DEF AllNums, Range
      <4>2. \A k \in DOMAIN out : k + 1 \in DOMAIN G /\ G[k + 1] = out[k]
        BY <1>1
      <4> QED
        BY <4>1, <4>2, Zenon
    <3>3. {1, L + 2, L + 3, L + 4} \subseteq DOMAIN G
      BY <1>1
    <3>4. \A x \in Whole : \E k \in DOMAIN G : x \in Nums(G[k])
      BY <1>1, <3>2, <3>3, Zenon DEF Whole
    <3> QED
      BY <3>1, <3>4, Zenon
  <2>3. {{G[k][i].n : i \in Shell!Numbered(k)} : k \in DOMAIN G} = {Nums(G[k]) : k \in DOMAIN G}
    BY <2>1
  <2> QED
    BY <2>2, <2>3, Zenon
<1>9. ~lost => UNION {{G[k][i].n : i \in Shell!Numbered(k)} : k \in DOMAIN G} = 1 .. written
  BY <1>8 DEF ShellInv, Complete
<1> QED
  BY <1>7, <1>9, Zenon DEF Shell!OutputInOrder, G

\* Nor does anything follow the Closed.
LEMMA LastFacts == ShellInv => Shell!ClosedIsLast
<1> SUFFICES ASSUME ShellInv, NEW i \in DOMAIN terminal, terminal[i].kind = "closed"
             PROVE  i = Len(terminal) /\ (exitTold => \E j \in 1 .. i : terminal[j].kind = "exit")
  BY DEF Shell!ClosedIsLast
<1>1. Told
  BY DEF ShellInv
<1>2. i = Len(terminal) /\ DOMAIN terminal = 1 .. Len(terminal)
  BY <1>1, ShellTypeParts DEF Told, Ends, ShellInv, Rows
<1>3. "closed" \in Kinds(terminal)
  BY Zenon DEF Kinds, Range
<1>4. relay = "done" /\ out = <<>>
  BY <1>1, <1>3 DEF Told
<1>5. AllKinds(<<>>) = {}
  <2>1. Range(<<>>) = {}
    BY EmptyFacts
  <2> QED
    BY <2>1, Zenon DEF AllKinds
<1>6. exitTold => "exit" \in Kinds(terminal)
  BY <1>1, <1>4, <1>5 DEF Told
<1>7. "exit" \in Kinds(terminal) => \E j \in DOMAIN terminal : terminal[j].kind = "exit"
  BY Zenon DEF Kinds, Range
<1> QED
  BY <1>2, <1>6, <1>7

------------------------------------------------------------------------------
(* A local shell.                                                           *)

\* The worker counts the pieces left of a Write while it writes.
LocalInv == Local!TypeOK /\ (writer = "write" => left > 0)

\* Every step keeps that.
LEMMA LocalStep == LocalInv /\ [Local!LocalNext]_localVars => LocalInv'
<1> SUFFICES ASSUME LocalInv, [Local!LocalNext]_localVars PROVE LocalInv'
  OBVIOUS
<1>1. CASE UNCHANGED localVars
  BY <1>1 DEF localVars, LocalInv, Local!TypeOK
<1> DEFINE Flag == request \in BOOLEAN /\ stray \in BOOLEAN /\ told \in BOOLEAN
           Spot == /\ writer \in {"loop", "write", "ended"} /\ left \in 0 .. MaxPaste /\ writes \in 0 .. MaxWrites
                   /\ input \in 0 .. PtyCap /\ output \in 0 .. PtyCap /\ channel \in 0 .. ChannelCap
                   /\ reader \in {"read", "send", "close", "ended"} /\ fd \in {"open", "closed"}
                   /\ child \in {"running", "zombie", "reaped"}
                   /\ reaper \in {"none", "hup", "wait", "kill", "done"}
                   /\ writer = "write" => left > 0
<1>2. (LocalInv <=> Flag /\ Spot) /\ (LocalInv' <=> Flag' /\ Spot')
  BY DEF LocalInv, Local!TypeOK
<1>3. ASSUME Local!LocalNext PROVE Flag'
  BY <1>2, <1>3 DEF Local!LocalNext, Local!Disconnect, Local!TakeWrite, Local!WritePiece, Local!TakeOutput, Local!TakeEnd,
     Local!TellClosed, Local!Read, Local!Forward, Local!CloseFd, Local!Echo, Local!Exit, Local!Hup, Local!Reap,
     Local!Kill, Local!ThreadRest, Local!ReaperRest
<1>4. ASSUME Local!LocalNext PROVE Spot'
  <2> USE ShellConstants, <1>2
  <2>1. CASE Local!Disconnect \/ Local!TakeWrite
    BY <2>1 DEF Local!Disconnect, Local!TakeWrite
  <2>2. CASE Local!WritePiece
    BY <2>2 DEF Local!WritePiece
  <2>3. CASE Local!TakeOutput \/ Local!TakeEnd \/ Local!TellClosed
    BY <2>3 DEF Local!TakeOutput, Local!TakeEnd, Local!TellClosed
  <2>4. CASE Local!Read \/ Local!Forward \/ Local!CloseFd
    BY <2>4 DEF Local!Read, Local!Forward, Local!CloseFd, Local!ThreadRest
  <2>5. CASE Local!Echo \/ Local!Exit \/ Local!Hup \/ Local!Reap \/ Local!Kill
    BY <2>5 DEF Local!Echo, Local!Exit, Local!Hup, Local!Reap, Local!Kill, Local!ReaperRest
  <2> QED
    BY <1>4, <2>1, <2>2, <2>3, <2>4, <2>5 DEF Local!LocalNext
<1> QED
  BY <1>1, <1>2, <1>3, <1>4

\* It holds at first.
LEMMA LocalFirst == Local!LocalInit => LocalInv
<1> SUFFICES ASSUME Local!LocalInit PROVE LocalInv
  OBVIOUS
<1>1. {request, stray, told} \subseteq BOOLEAN
  BY DEF Local!LocalInit
<1>2. /\ writer \in {"loop", "write", "ended"} /\ left \in 0 .. MaxPaste /\ writes \in 0 .. MaxWrites
      /\ input \in 0 .. PtyCap /\ output \in 0 .. PtyCap /\ channel \in 0 .. ChannelCap
      /\ reader \in {"read", "send", "close", "ended"} /\ fd \in {"open", "closed"}
      /\ child \in {"running", "zombie", "reaped"}
      /\ reaper \in {"none", "hup", "wait", "kill", "done"}
      /\ writer = "write" => left > 0
  BY ShellConstants DEF Local!LocalInit
<1> QED
  BY <1>1, <1>2 DEF LocalInv, Local!TypeOK

------------------------------------------------------------------------------
(* The control of a transfer, of a file and of a directory.                 *)

FileP == INSTANCE TransferControlProofs WITH IsDir <- FALSE, AcquireFails <- TRUE,
           promoted <- promotedT
TreeP == INSTANCE TransferControlProofs WITH IsDir <- TRUE, AcquireFails <- TRUE,
           promoted <- promotedT

\* The machine of the proofs, with a file's parameters, is the run's.
LEMMA FileSame == (File!Init => FileP!Init) /\ ([File!Next]_controlVars => [FileP!Next]_FileP!vars)
<1> USE DEF File!uiVars, FileP!uiVars, File!ctlVars, FileP!ctlVars, File!taskVars, FileP!taskVars, File!fileVars, FileP!fileVars
<1>1. File!User => FileP!User
  <2>1. File!Pause => FileP!Pause
    BY DEF File!Pause, FileP!Pause, File!Send, FileP!Send
  <2>2. File!Cancel => FileP!Cancel
    BY DEF File!Cancel, FileP!Cancel, File!Send, FileP!Send
  <2>3. File!Resume => FileP!Resume
    BY DEF File!Resume, FileP!Resume, File!Send, FileP!Send
  <2> QED
    BY <2>1, <2>2, <2>3 DEF File!User, FileP!User
<1>2. File!Worker => FileP!Worker
  <2>1. File!WorkerStart => FileP!WorkerStart
    BY DEF File!WorkerStart, FileP!WorkerStart, File!Receive, FileP!Receive
  <2>2. File!WorkerPause => FileP!WorkerPause
    BY DEF File!WorkerPause, FileP!WorkerPause, File!Receive, FileP!Receive
  <2>3. File!WorkerCancel => FileP!WorkerCancel
    BY DEF File!WorkerCancel, FileP!WorkerCancel, File!Receive, FileP!Receive
  <2>4. File!CancelCheck => FileP!CancelCheck
    BY DEF File!CancelCheck, FileP!CancelCheck
  <2>5. File!CancelClaim => FileP!CancelClaim
    BY DEF File!CancelClaim, FileP!CancelClaim
  <2>6. File!WorkerDrain => FileP!WorkerDrain
    BY DEF File!WorkerDrain, FileP!WorkerDrain
  <2>7. File!Reconnect => FileP!Reconnect
    BY DEF File!Reconnect, FileP!Reconnect
  <2> QED
    BY <2>1, <2>2, <2>3, <2>4, <2>5, <2>6, <2>7 DEF File!Worker, FileP!Worker
<1>3. File!Task => FileP!Task
  <2>1. File!Acquired => FileP!Acquired
    BY DEF File!Acquired, FileP!Acquired
  <2>2. File!AcquireError => FileP!AcquireError
    BY DEF File!AcquireError, FileP!AcquireError
  <2>3. File!AcquireErrorEnds => FileP!AcquireErrorEnds
    BY DEF File!AcquireErrorEnds, FileP!AcquireErrorEnds
  <2>4. File!Walked => FileP!Walked
    BY DEF File!Walked, FileP!Walked
  <2>5. File!WalkError => FileP!WalkError
    BY DEF File!WalkError, FileP!WalkError
  <2>6. File!Stream => FileP!Stream
    BY DEF File!Stream, FileP!Stream
  <2>7. File!ClearRunning => FileP!ClearRunning
    BY DEF File!ClearRunning, FileP!ClearRunning
  <2>8. File!LoadMode => FileP!LoadMode
    BY DEF File!LoadMode, FileP!LoadMode
  <2>9. File!Claim => FileP!Claim
    BY DEF File!Claim, FileP!Claim, File!Verdict, FileP!Verdict
  <2>10. File!CleanUp => FileP!CleanUp
    BY DEF File!CleanUp, FileP!CleanUp, File!Verdict, FileP!Verdict
  <2> QED
    BY <2>1, <2>2, <2>3, <2>4, <2>5, <2>6, <2>7, <2>8, <2>9, <2>10 DEF File!Task, FileP!Task
<1>4. File!OnEvent => FileP!OnEvent
  BY DEF File!OnEvent, FileP!OnEvent, File!Shown, FileP!Shown
<1>5. File!WorkerSweep => FileP!WorkerSweep
  BY DEF File!WorkerSweep, FileP!WorkerSweep, File!Verdict, FileP!Verdict
<1>6. File!Lose => FileP!Lose
  BY DEF File!Lose, FileP!Lose
<1>7. File!Write => FileP!Write
  BY DEF File!Write, FileP!Write
<1>8. File!Settled => FileP!Settled
  BY DEF File!Settled, FileP!Settled, File!Gone, FileP!Gone, File!vars, FileP!vars
<1>9. File!Next => FileP!Next
  BY <1>1, <1>2, <1>3, <1>4, <1>5, <1>6, <1>7, <1>8 DEF File!Next, FileP!Next
<1>10. UNCHANGED controlVars => UNCHANGED FileP!vars
  BY DEF controlVars, FileP!vars
<1>11. File!Init => FileP!Init
  BY DEF File!Init, FileP!Init
<1> QED
  BY <1>9, <1>10, <1>11

\* The same with a directory's.
LEMMA TreeSame == (Tree!Init => TreeP!Init) /\ ([Tree!Next]_controlVars => [TreeP!Next]_TreeP!vars)
<1> USE DEF Tree!uiVars, TreeP!uiVars, Tree!ctlVars, TreeP!ctlVars, Tree!taskVars, TreeP!taskVars, Tree!fileVars, TreeP!fileVars
<1>1. Tree!User => TreeP!User
  <2>1. Tree!Pause => TreeP!Pause
    BY DEF Tree!Pause, TreeP!Pause, Tree!Send, TreeP!Send
  <2>2. Tree!Cancel => TreeP!Cancel
    BY DEF Tree!Cancel, TreeP!Cancel, Tree!Send, TreeP!Send
  <2>3. Tree!Resume => TreeP!Resume
    BY DEF Tree!Resume, TreeP!Resume, Tree!Send, TreeP!Send
  <2> QED
    BY <2>1, <2>2, <2>3 DEF Tree!User, TreeP!User
<1>2. Tree!Worker => TreeP!Worker
  <2>1. Tree!WorkerStart => TreeP!WorkerStart
    BY DEF Tree!WorkerStart, TreeP!WorkerStart, Tree!Receive, TreeP!Receive
  <2>2. Tree!WorkerPause => TreeP!WorkerPause
    BY DEF Tree!WorkerPause, TreeP!WorkerPause, Tree!Receive, TreeP!Receive
  <2>3. Tree!WorkerCancel => TreeP!WorkerCancel
    BY DEF Tree!WorkerCancel, TreeP!WorkerCancel, Tree!Receive, TreeP!Receive
  <2>4. Tree!CancelCheck => TreeP!CancelCheck
    BY DEF Tree!CancelCheck, TreeP!CancelCheck
  <2>5. Tree!CancelClaim => TreeP!CancelClaim
    BY DEF Tree!CancelClaim, TreeP!CancelClaim
  <2>6. Tree!WorkerDrain => TreeP!WorkerDrain
    BY DEF Tree!WorkerDrain, TreeP!WorkerDrain
  <2>7. Tree!Reconnect => TreeP!Reconnect
    BY DEF Tree!Reconnect, TreeP!Reconnect
  <2> QED
    BY <2>1, <2>2, <2>3, <2>4, <2>5, <2>6, <2>7 DEF Tree!Worker, TreeP!Worker
<1>3. Tree!Task => TreeP!Task
  <2>1. Tree!Acquired => TreeP!Acquired
    BY DEF Tree!Acquired, TreeP!Acquired
  <2>2. Tree!AcquireError => TreeP!AcquireError
    BY DEF Tree!AcquireError, TreeP!AcquireError
  <2>3. Tree!AcquireErrorEnds => TreeP!AcquireErrorEnds
    BY DEF Tree!AcquireErrorEnds, TreeP!AcquireErrorEnds
  <2>4. Tree!Walked => TreeP!Walked
    BY DEF Tree!Walked, TreeP!Walked
  <2>5. Tree!WalkError => TreeP!WalkError
    BY DEF Tree!WalkError, TreeP!WalkError
  <2>6. Tree!Stream => TreeP!Stream
    BY DEF Tree!Stream, TreeP!Stream
  <2>7. Tree!ClearRunning => TreeP!ClearRunning
    BY DEF Tree!ClearRunning, TreeP!ClearRunning
  <2>8. Tree!LoadMode => TreeP!LoadMode
    BY DEF Tree!LoadMode, TreeP!LoadMode
  <2>9. Tree!Claim => TreeP!Claim
    BY DEF Tree!Claim, TreeP!Claim, Tree!Verdict, TreeP!Verdict
  <2>10. Tree!CleanUp => TreeP!CleanUp
    BY DEF Tree!CleanUp, TreeP!CleanUp, Tree!Verdict, TreeP!Verdict
  <2> QED
    BY <2>1, <2>2, <2>3, <2>4, <2>5, <2>6, <2>7, <2>8, <2>9, <2>10 DEF Tree!Task, TreeP!Task
<1>4. Tree!OnEvent => TreeP!OnEvent
  BY DEF Tree!OnEvent, TreeP!OnEvent, Tree!Shown, TreeP!Shown
<1>5. Tree!WorkerSweep => TreeP!WorkerSweep
  BY DEF Tree!WorkerSweep, TreeP!WorkerSweep, Tree!Verdict, TreeP!Verdict
<1>6. Tree!Lose => TreeP!Lose
  BY DEF Tree!Lose, TreeP!Lose
<1>7. Tree!Write => TreeP!Write
  BY DEF Tree!Write, TreeP!Write
<1>8. Tree!Settled => TreeP!Settled
  BY DEF Tree!Settled, TreeP!Settled, Tree!Gone, TreeP!Gone, Tree!vars, TreeP!vars
<1>9. Tree!Next => TreeP!Next
  BY <1>1, <1>2, <1>3, <1>4, <1>5, <1>6, <1>7, <1>8 DEF Tree!Next, TreeP!Next
<1>10. UNCHANGED controlVars => UNCHANGED TreeP!vars
  BY DEF controlVars, TreeP!vars
<1>11. Tree!Init => TreeP!Init
  BY DEF Tree!Init, TreeP!Init
<1> QED
  BY <1>9, <1>10, <1>11

------------------------------------------------------------------------------
(* A tab.                                                                   *)

TabP == INSTANCE SessionWorkerProofs WITH pending <- connectDue, cmds <- tabCmds, evts <- tabEvts

\* The bounds of a tab.
LEMMA TabConstants == CmdCap \in Nat \ {0} /\ MaxDisconnects \in Nat /\ Typing \in BOOLEAN
<1>1. CmdCap \in Nat \ {0} /\ MaxDisconnects \in Nat
  BY WorkersAssumption
<1>2. Typing \in BOOLEAN
  BY WorkersAssumption, Zenon
<1> QED
  BY <1>1, <1>2

\* The machine of the proofs is the run's.
LEMMA TabSame == (Session!Init => TabP!Init) /\ ([Session!Next]_tabVars => [TabP!Next]_TabP!vars)
<1> USE DEF Session!uiVars, TabP!uiVars, Session!workerVars, TabP!workerVars, Session!IsActive, TabP!IsActive,
            Session!Shown, TabP!Shown, Session!Room, TabP!Room, Session!TryConnect, TabP!TryConnect
<1>1. Session!User => TabP!User
  <2>1. Session!Connect => TabP!Connect
    BY DEF Session!Connect, TabP!Connect, Session!SendConnect, TabP!SendConnect, Session!TrySend, TabP!TrySend
  <2>2. Session!Disconnect => TabP!Disconnect
    BY DEF Session!Disconnect, TabP!Disconnect, Session!TrySend, TabP!TrySend
  <2>3. Session!Type => TabP!Type
    BY DEF Session!Type, TabP!Type, Session!TrySend, TabP!TrySend
  <2>4. Session!AcceptHostKey => TabP!AcceptHostKey
    BY DEF Session!AcceptHostKey, TabP!AcceptHostKey, Session!SendConnect, TabP!SendConnect, Session!TrySend, TabP!TrySend
  <2>5. Session!RejectHostKey => TabP!RejectHostKey
    BY DEF Session!RejectHostKey, TabP!RejectHostKey
  <2>6. Session!LoadConfig => TabP!LoadConfig
    BY DEF Session!LoadConfig, TabP!LoadConfig
  <2>7. Session!OpenSearch => TabP!OpenSearch
    BY DEF Session!OpenSearch, TabP!OpenSearch
  <2>8. Session!CloseSearch => TabP!CloseSearch
    BY DEF Session!CloseSearch, TabP!CloseSearch, Session!TrySend, TabP!TrySend
  <2> QED
    BY <2>1, <2>2, <2>3, <2>4, <2>5, <2>6, <2>7, <2>8 DEF Session!User, TabP!User
<1>2. Session!HandleEvent => TabP!HandleEvent
  <2>1. Session!OnReady => TabP!OnReady
    BY DEF Session!OnReady, TabP!OnReady, Session!Take, TabP!Take, Session!TrySend, TabP!TrySend
  <2>2. Session!OnConnecting => TabP!OnConnecting
    BY DEF Session!OnConnecting, TabP!OnConnecting, Session!Take, TabP!Take
  <2>3. Session!OnConnected => TabP!OnConnected
    BY DEF Session!OnConnected, TabP!OnConnected, Session!Take, TabP!Take
  <2>4. Session!OnHostKeyRequired => TabP!OnHostKeyRequired
    BY DEF Session!OnHostKeyRequired, TabP!OnHostKeyRequired, Session!Take, TabP!Take
  <2>5. Session!OnExit => TabP!OnExit
    BY DEF Session!OnExit, TabP!OnExit, Session!Take, TabP!Take
  <2>6. \A isClean, auto \in BOOLEAN : Session!OnClosed(isClean, auto) => TabP!OnClosed(isClean, auto)
    BY DEF Session!OnClosed, TabP!OnClosed, Session!Take, TabP!Take, Session!AfterClose, TabP!AfterClose
  <2>7. \A fatal \in BOOLEAN : Session!OnFailed(fatal) => TabP!OnFailed(fatal)
    BY DEF Session!OnFailed, TabP!OnFailed, Session!Take, TabP!Take
  <2> QED
    BY <2>1, <2>2, <2>3, <2>4, <2>5, <2>6, <2>7, Zenon DEF Session!HandleEvent, TabP!HandleEvent
<1>3. Session!Work => TabP!Work
  <2>1. Session!Announce => TabP!Announce
    BY DEF Session!Announce, TabP!Announce, Session!Emit, TabP!Emit
  <2>2. Session!Await => TabP!Await
    BY DEF Session!Await, TabP!Await, Session!Emit, TabP!Emit
  <2>3. Session!Dial => TabP!Dial
    BY DEF Session!Dial, TabP!Dial, Session!DialOk, TabP!DialOk, Session!DialRefused, TabP!DialRefused, Session!Emit, TabP!Emit
  <2>4. Session!StartShell => TabP!StartShell
    BY DEF Session!StartShell, TabP!StartShell
  <2>5. Session!RunCommand => TabP!RunCommand
    BY DEF Session!RunCommand, TabP!RunCommand
  <2>6. Session!TearDown => TabP!TearDown
    BY DEF Session!TearDown, TabP!TearDown, Session!Emit, TabP!Emit
  <2> QED
    BY <2>1, <2>2, <2>3, <2>4, <2>5, <2>6 DEF Session!Work, TabP!Work
<1>4. Session!Shell => TabP!Shell
  <2>1. Session!ShellExits => TabP!ShellExits
    BY DEF Session!ShellExits, TabP!ShellExits, Session!Emit, TabP!Emit
  <2>2. Session!ShellCloses => TabP!ShellCloses
    BY DEF Session!ShellCloses, TabP!ShellCloses
  <2> QED
    BY <2>1, <2>2 DEF Session!Shell, TabP!Shell
<1>5. Session!ReconnectTick => TabP!ReconnectTick
  BY DEF Session!ReconnectTick, TabP!ReconnectTick, Session!SendConnect, TabP!SendConnect, Session!TrySend, TabP!TrySend
<1>6. Session!CloseTab => TabP!CloseTab
  BY DEF Session!CloseTab, TabP!CloseTab, Session!TrySend, TabP!TrySend
<1>7. Session!FinalizeClose => TabP!FinalizeClose
  BY DEF Session!FinalizeClose, TabP!FinalizeClose
<1>8. Session!Gone => TabP!Gone
  BY DEF Session!Gone, TabP!Gone, Session!vars, TabP!vars
<1>9. Session!Next => TabP!Next
  BY <1>1, <1>2, <1>3, <1>4, <1>5, <1>6, <1>7, <1>8 DEF Session!Next, TabP!Next
<1>10. UNCHANGED tabVars => UNCHANGED TabP!vars
  BY DEF tabVars, TabP!vars
<1>11. Session!Init => TabP!Init
  BY DEF Session!Init, TabP!Init
<1> QED
  BY <1>9, <1>10, <1>11

------------------------------------------------------------------------------
(* The machines together: each keeps its invariant, and the steps of the    *)
(* others leave its variables alone.                                        *)

ControlInv == /\ machine = "file" => FileP!Control /\ File!CanceledIsClean
              /\ machine = "tree" => TreeP!Control

\* One of the machines runs.
OneRuns == machine \in {"download", "file", "tree", "upload", "session", "shell", "local"}

WorkersInv == OneRuns /\ IInv /\ Floor /\ UploadInv /\ ControlInv /\ TabP!IInv /\ ShellInv /\ LocalInv

\* The invariant holds in the first state, whichever machine runs.
LEMMA InitWorkers == MCInit => WorkersInv
<1> SUFFICES ASSUME MCInit PROVE WorkersInv
  OBVIOUS
<1>1. UploadInv
  BY PutInit DEF MCInit
<1>2. FileP!Init /\ TreeP!Init
  <2>1. File!Init /\ Tree!Init
    BY DEF MCInit, File!Init, Tree!Init
  <2> QED
    BY <2>1, FileSame, TreeSame
<1>3. FileP!Control /\ TreeP!Control
  <2>1. 0 \in Nat
    OBVIOUS
  <2>2. FileP!Init => FileP!Control
    BY <2>1, UploadConstants, FileP!InitControl
  <2>3. TreeP!Init => TreeP!Control
    BY UploadConstants, TreeP!InitControl
  <2> QED
    BY <1>2, <2>2, <2>3
<1>4. File!CanceledIsClean
  BY DEF MCInit, File!Init, File!CanceledIsClean
<1>5. IInv /\ Floor
  BY InitIInv DEF MCInit, Init, Floor
<1>6. TabP!IInv
  BY TabSame, TabP!InitIInv, TabConstants DEF MCInit
<1>7. ShellInv /\ LocalInv
  BY ShellInit, LocalFirst DEF MCInit
<1>8. OneRuns
  BY DEF MCInit, OneRuns
<1> QED
  BY <1>1, <1>3, <1>4, <1>5, <1>6, <1>7, <1>8 DEF WorkersInv, ControlInv

\* Who steps, and that the others rest.
LEMMA WhoSteps ==
  [MCNext]_allVars =>
    /\ machine' = machine
    /\ [Next]_vars
    /\ [Put!UploadNext]_putVars
    /\ machine = "file" => [File!Next]_controlVars
    /\ machine = "tree" => [Tree!Next]_controlVars
    /\ [Session!Next]_tabVars
    /\ [Shell!PumpNext]_shellVars
    /\ [Local!LocalNext]_localVars
<1> SUFFICES ASSUME [MCNext]_allVars
             PROVE  /\ machine' = machine
                    /\ [Next]_vars
                    /\ [Put!UploadNext]_putVars
                    /\ machine = "file" => [File!Next]_controlVars
                    /\ machine = "tree" => [Tree!Next]_controlVars
                    /\ [Session!Next]_tabVars
                    /\ [Shell!PumpNext]_shellVars
                    /\ [Local!LocalNext]_localVars
  OBVIOUS
<1>1. CASE OfDownload(Next)
  BY <1>1 DEF OfDownload
<1>2. CASE OfControl("file", File!Next)
  BY <1>2 DEF OfControl
<1>3. CASE OfControl("tree", Tree!Next)
  BY <1>3 DEF OfControl
<1>4. CASE OfUpload(Put!UploadNext)
  BY <1>4 DEF OfUpload
<1>5. CASE OfSession(Session!Next)
  BY <1>5 DEF OfSession
<1>6. CASE OfShell(Shell!PumpNext)
  BY <1>6 DEF OfShell
<1>7. CASE OfLocal(Local!LocalNext)
  BY <1>7 DEF OfLocal
<1>8. CASE UNCHANGED allVars
  BY <1>8 DEF allVars
<1> QED
  BY <1>1, <1>2, <1>3, <1>4, <1>5, <1>6, <1>7, <1>8 DEF MCNext

\* The controls keep their invariant: the one that runs its own.
LEMMA ControlStep == ControlInv /\ [MCNext]_allVars => ControlInv'
<1> SUFFICES ASSUME ControlInv, [MCNext]_allVars PROVE ControlInv'
  OBVIOUS
<1>2. CASE machine = "file"
  <2>1. FileP!Control /\ FileP!CanceledIsClean /\ [FileP!Next]_FileP!vars
    BY <1>2, WhoSteps, FileSame DEF ControlInv, File!CanceledIsClean, FileP!CanceledIsClean
  <2>2. FileP!Control /\ [FileP!Next]_FileP!vars => FileP!Control'
    <3>1. 0 \in Nat
      OBVIOUS
    <3> QED
      BY <3>1, UploadConstants, FileP!StepControl
  <2>3. FileP!CanceledIsClean'
    BY <2>1, FileP!CleanStep
  <2>4. File!CanceledIsClean'
    BY <2>3 DEF File!CanceledIsClean, FileP!CanceledIsClean
  <2>5. machine' = "file"
    BY <1>2, WhoSteps
  <2> QED
    BY <2>1, <2>2, <2>4, <2>5 DEF ControlInv
<1>3. CASE machine = "tree"
  <2>1. TreeP!Control /\ [TreeP!Next]_TreeP!vars
    BY <1>3, WhoSteps, TreeSame DEF ControlInv
  <2>2. TreeP!Control /\ [TreeP!Next]_TreeP!vars => TreeP!Control'
    BY UploadConstants, TreeP!StepControl
  <2>3. machine' = "tree"
    BY <1>3, WhoSteps
  <2> QED
    BY <2>1, <2>2, <2>3 DEF ControlInv
<1>4. CASE machine \notin {"file", "tree"}
  BY <1>4, WhoSteps DEF ControlInv
<1> QED
  BY <1>2, <1>3, <1>4

\* Every step of the sum keeps the invariant: the machine that runs keeps its own, the
\* others rest.
LEMMA StepWorkers == WorkersInv /\ [MCNext]_allVars => WorkersInv'
<1> SUFFICES ASSUME WorkersInv, [MCNext]_allVars PROVE WorkersInv'
  OBVIOUS
<1>1. UploadInv'
  BY WhoSteps, PutStep DEF WorkersInv
<1>2. ControlInv'
  BY ControlStep DEF WorkersInv
<1>3. IInv' /\ Floor'
  BY WhoSteps, StepIInv, FloorStep DEF WorkersInv
<1>4. TabP!IInv'
  BY WhoSteps, TabSame, TabP!StepIInv, TabConstants DEF WorkersInv
<1>5. ShellInv'
  BY WhoSteps, ShellStep DEF WorkersInv
<1>6. LocalInv'
  BY WhoSteps, LocalStep DEF WorkersInv
<1>7. OneRuns'
  BY WhoSteps DEF WorkersInv, OneRuns
<1> QED
  BY <1>1, <1>2, <1>3, <1>4, <1>5, <1>6, <1>7 DEF WorkersInv

\* So it holds for ever.
LEMMA Invariant == MCSpec => []WorkersInv
BY InitWorkers, StepWorkers, PTL DEF MCSpec

\* Whichever machine runs, its state is well formed: `.part` and chunk flags, the worker's
\* transfer map, the channels of a tab, a shell's buffers.
THEOREM WorkersTypesCorrect == MCSpec => []WorkersTypesOK
<1>1. WorkersInv => WorkersTypesOK
  <2> SUFFICES ASSUME WorkersInv PROVE WorkersTypesOK
    OBVIOUS
  <2>1. TypeOK /\ Put!TypeOK /\ Shell!TypeOK /\ Local!TypeOK
    BY DEF WorkersInv, IInv, UploadInv, ShellInv, LocalInv
  <2>2. Session!TypeOK
    <3>1. TabP!TypeOK
      BY DEF WorkersInv, TabP!IInv
    <3> QED
      BY <3>1 DEF TabP!TypeOK, Session!TypeOK, TabP!Phases, Session!Phases, TabP!Closed, Session!Closed,
                  TabP!Commands, Session!Commands, TabP!Events, Session!Events, TabP!Places, Session!Places
  <2>3. machine = "file" => File!TypeOK
    BY DEF WorkersInv, ControlInv, FileP!Control, FileP!TypeOK, File!TypeOK, FileP!Rows, File!Rows,
           FileP!Tasks, File!Tasks, FileP!Commands, File!Commands
  <2>4. machine = "tree" => Tree!TypeOK
    BY DEF WorkersInv, ControlInv, TreeP!Control, TreeP!TypeOK, Tree!TypeOK, TreeP!Rows, Tree!Rows,
           TreeP!Tasks, Tree!Tasks, TreeP!Commands, Tree!Commands
  <2>5. OneRuns
    BY DEF WorkersInv
  <2>6. CASE machine \in {"download", "file", "tree", "upload"}
    <3> HIDE DEF TypeOK, File!TypeOK, Tree!TypeOK, Put!TypeOK
    <3> QED
      BY <2>1, <2>3, <2>4, <2>6 DEF WorkersTypesOK
  <2>7. CASE machine \in {"session", "shell", "local"}
    BY <2>1, <2>2, <2>7 DEF WorkersTypesOK
  <2> QED
    BY <2>5, <2>6, <2>7 DEF OneRuns
<1> QED
  BY <1>1, Invariant, PTL

\* `upload_file` loses no content: until one of the listed mishaps the `.part` has no hole,
\* only the whole file is promoted, and while the old file is gone the new one is whole.
THEOREM UploadKeepsContentCorrect == MCSpec => []UploadKeepsContent
<1>1. WorkersInv => UploadKeepsContent
  BY ContentFacts DEF WorkersInv
<1> QED
  BY <1>1, Invariant, PTL

\* Worker and task of the directory's transfer never both clean up nor both report.
THEOREM OneVerdictCorrect == MCSpec => []OneVerdict
<1>1. WorkersInv => OneVerdict
  BY DEF WorkersInv, ControlInv, OneVerdict, TreeP!Control, TreeP!OneVerdict, Tree!OneVerdict
<1> QED
  BY <1>1, Invariant, PTL

\* The file's transfer, once reported cancelled, has no `.part`, and stays so.
THEOREM CanceledIsCleanCorrect == MCSpec => []CanceledIsClean
<1>1. WorkersInv => CanceledIsClean
  BY DEF WorkersInv, ControlInv, CanceledIsClean
<1> QED
  BY <1>1, Invariant, PTL

\* From event_shell through the coalescer to the UI output keeps its order, has gaps only
\* where something was dropped, and nothing follows the Closed.
THEOREM OutputSoundCorrect == MCSpec => []OutputSound
<1>1. WorkersInv => OutputSound
  BY OrderFacts, LastFacts DEF WorkersInv, OutputSound
<1> QED
  BY <1>1, Invariant, PTL

\* `download_file` resumes no earlier than it did before, and spawns no chunk once stopped.
THEOREM DownloadStepsCorrect == MCSpec => DownloadSteps
<1>1. WorkersInv /\ [MCNext]_allVars => [remote' = Size => resume' >= resume]_vars
  BY WhoSteps, OnwardStep DEF WorkersInv
<1>2. [MCNext]_allVars => [stop => inflight' \subseteq inflight]_vars
  BY WhoSteps, StoppedStep
<1>3. MCSpec => [][MCNext]_allVars
  BY PTL DEF MCSpec
<1>4. MCSpec => NeverStartsOver
  BY <1>1, <1>3, Invariant, PTL DEF NeverStartsOver
<1>5. MCSpec => StopSpawnsNothing
  BY <1>2, <1>3, PTL DEF StopSpawnsNothing
<1> QED
  BY <1>4, <1>5 DEF DownloadSteps
=============================================================================
