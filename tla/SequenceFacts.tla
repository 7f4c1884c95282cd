---------------------------- MODULE SequenceFacts ----------------------------
(* What Append, Tail, taking the front and concatenation do to the range of  *)
(* a sequence and to its being free of duplicates.                           *)
EXTENDS Sequences, Integers, Functions, FiniteSets, FiniteSetTheorems, SequenceTheorems, WellFoundedInduction, TLAPS

\* A sequence is its head and its tail; without duplicates the two are apart.
LEMMA TailFacts ==
  ASSUME NEW S, NEW s \in Seq(S), s # <<>>
  PROVE  /\ Tail(s) \in Seq(S) /\ Head(s) \in S
         /\ Range(s) = {Head(s)} \cup Range(Tail(s))
         /\ IsInjective(s) => IsInjective(Tail(s)) /\ Head(s) \notin Range(Tail(s))
<1>1. /\ Tail(s) \in Seq(S) /\ Head(s) \in S /\ Head(s) = s[1]
      /\ Len(s) \in Nat /\ Len(s) > 0 /\ Len(Tail(s)) = Len(s) - 1
      /\ DOMAIN s = 1 .. Len(s) /\ DOMAIN Tail(s) = 1 .. Len(s) - 1
      /\ \A i \in 1 .. Len(s) - 1 : Tail(s)[i] = s[i+1]
  BY HeadTailProperties
<1>2. \A i \in 2 .. Len(s) : i - 1 \in 1 .. Len(s) - 1 /\ Tail(s)[i-1] = s[i]
  BY <1>1
<1>3. Range(s) = {Head(s)} \cup Range(Tail(s))
  <2>1. ASSUME NEW x \in Range(s), x # Head(s)
        PROVE  x \in Range(Tail(s))
    <3>1. PICK i \in 1 .. Len(s) : x = s[i]
      BY <1>1 DEF Range
    <3>2. i \in 2 .. Len(s)
      BY <1>1, <2>1, <3>1
    <3> QED
      BY <1>1, <1>2, <3>1, <3>2 DEF Range
  <2>2. Range(Tail(s)) \subseteq Range(s) /\ Head(s) \in Range(s)
    BY <1>1 DEF Range
  <2> QED
    BY <2>1, <2>2
<1>4. ASSUME IsInjective(s)
      PROVE  IsInjective(Tail(s)) /\ Head(s) \notin Range(Tail(s))
  BY <1>1, <1>4 DEF Range, IsInjective
<1> QED
  BY <1>1, <1>3, <1>4

\* The same for the last element and the sequence before it.
LEMMA FrontFacts ==
  ASSUME NEW S, NEW s \in Seq(S), s # <<>>
  PROVE  /\ SubSeq(s, 1, Len(s) - 1) \in Seq(S) /\ s[Len(s)] \in S
         /\ Range(s) = {s[Len(s)]} \cup Range(SubSeq(s, 1, Len(s) - 1))
         /\ IsInjective(s) => /\ IsInjective(SubSeq(s, 1, Len(s) - 1))
                           /\ s[Len(s)] \notin Range(SubSeq(s, 1, Len(s) - 1))
<1> DEFINE front == SubSeq(s, 1, Len(s) - 1)
           n == Len(s) - 1
<1>1. n \in Nat /\ Len(s) = n + 1 /\ DOMAIN s = 1 .. n + 1 /\ s[n + 1] \in S
  OBVIOUS
<1>2. front \in Seq(S) /\ DOMAIN front = 1 .. n /\ \A i \in 1 .. n : front[i] = s[i]
  BY <1>1
<1> HIDE DEF n, front
<1>3. Range(s) = {s[n + 1]} \cup Range(front)
  <2>1. ASSUME NEW x \in Range(s), x # s[n + 1]
        PROVE  x \in Range(front)
    <3>1. PICK i \in 1 .. n + 1 : x = s[i]
      BY <1>1 DEF Range
    <3>2. i \in 1 .. n
      BY <1>1, <2>1, <3>1
    <3> QED
      BY <1>2, <3>1, <3>2 DEF Range
  <2>2. Range(front) \subseteq Range(s) /\ s[n + 1] \in Range(s)
    BY <1>1, <1>2 DEF Range
  <2> QED
    BY <2>1, <2>2
<1>4. ASSUME IsInjective(s)
      PROVE  IsInjective(front) /\ s[n + 1] \notin Range(front)
  BY <1>1, <1>2, <1>4 DEF Range, IsInjective
<1> QED
  BY <1>1, <1>2, <1>3, <1>4 DEF n, front

\* Concatenation unites the ranges, and two sequences apart make no duplicate.
LEMMA ConcatFacts ==
  ASSUME NEW S, NEW s \in Seq(S), NEW t \in Seq(S)
  PROVE  /\ s \o t \in Seq(S)
         /\ Range(s \o t) = Range(s) \cup Range(t)
         /\ IsInjective(s) /\ IsInjective(t) /\ Range(s) \cap Range(t) = {} => IsInjective(s \o t)
<1> DEFINE m == Len(s)
           n == Len(t)
           st == s \o t
<1>1. /\ st \in Seq(S) /\ m \in Nat /\ n \in Nat
      /\ DOMAIN s = 1 .. m /\ DOMAIN t = 1 .. n /\ DOMAIN st = 1 .. m + n
      /\ \A i \in 1 .. m : st[i] = s[i]
      /\ \A i \in m + 1 .. m + n : i - m \in 1 .. n /\ st[i] = t[i - m]
  BY ConcatProperties
<1>2. Range(st) = Range(s) \cup Range(t)
  BY RangeConcatenation
<1> HIDE DEF m, n, st
<1>3. ASSUME IsInjective(s), IsInjective(t), Range(s) \cap Range(t) = {}
      PROVE  IsInjective(st)
  <2> SUFFICES ASSUME NEW i \in 1 .. m + n, NEW j \in 1 .. m + n, st[i] = st[j]
               PROVE  i = j
    BY <1>1 DEF IsInjective
  <2>1. CASE i \in 1 .. m /\ j \in 1 .. m
    <3>1. s[i] = s[j] /\ i \in DOMAIN s /\ j \in DOMAIN s
      BY <1>1, <2>1
    <3> QED
      BY <1>3, <3>1 DEF IsInjective
  <2>2. CASE i \in m + 1 .. m + n /\ j \in m + 1 .. m + n
    <3>1. t[i - m] = t[j - m] /\ i - m \in 1 .. n /\ j - m \in 1 .. n
      BY <1>1, <2>2
    <3>2. i - m = j - m
      BY <1>1, <1>3, <3>1 DEF IsInjective
    <3> QED
      BY <1>1, <3>2
  <2>3. CASE i \in 1 .. m /\ j \in m + 1 .. m + n
    <3>1. st[i] \in Range(s)
      BY <1>1, <2>3 DEF Range
    <3>2. st[j] \in Range(t)
      BY <1>1, <2>3 DEF Range
    <3> QED
      BY <1>3, <3>1, <3>2
  <2>4. CASE i \in m + 1 .. m + n /\ j \in 1 .. m
    <3>1. st[i] \in Range(t)
      BY <1>1, <2>4 DEF Range
    <3>2. st[j] \in Range(s)
      BY <1>1, <2>4 DEF Range
    <3> QED
      BY <1>3, <3>1, <3>2
  <2> QED
    BY <1>1, <2>1, <2>2, <2>3, <2>4
<1> QED
  BY <1>1, <1>2, <1>3 DEF st

\* Appending a new element adds it to the range and makes no duplicate.
LEMMA AppendFacts ==
  ASSUME NEW S, NEW s \in Seq(S), NEW e \in S
  PROVE  /\ Append(s, e) \in Seq(S)
         /\ Range(Append(s, e)) = Range(s) \cup {e}
         /\ IsInjective(s) /\ e \notin Range(s) => IsInjective(Append(s, e))
<1>1. /\ <<e>> \in Seq(S) /\ DOMAIN <<e>> = 1 .. 1 /\ <<e>>[1] = e
      /\ Append(s, e) = s \o <<e>>
  BY AppendIsConcat
<1>2. Range(<<e>>) = {e} /\ IsInjective(<<e>>)
  BY <1>1 DEF Range, IsInjective
<1> DEFINE t == <<e>>
<1> HIDE DEF t
<1>3. /\ s \o t \in Seq(S)
      /\ Range(s \o t) = Range(s) \cup Range(t)
      /\ IsInjective(s) /\ IsInjective(t) /\ Range(s) \cap Range(t) = {} => IsInjective(s \o t)
  BY <1>1, ConcatFacts DEF t
<1>4. e \notin Range(s) => Range(s) \cap Range(t) = {}
  BY <1>2 DEF t
<1> QED
  BY <1>1, <1>2, <1>3, <1>4 DEF t

\* The empty sequence.
LEMMA EmptyFacts ==
  ASSUME NEW S
  PROVE  <<>> \in Seq(S) /\ Range(<<>>) = {} /\ IsInjective(<<>>)
BY DEF Range, IsInjective

\* The range of a sequence over S is in S, and empty only for the empty one.
LEMMA RangeFacts ==
  ASSUME NEW S, NEW s \in Seq(S)
  PROVE  Range(s) \subseteq S /\ (Range(s) = {} <=> s = <<>>)
BY DEF Range

\* A sequence without duplicates is as long as its range is large.
LEMMA InjectiveLength ==
  ASSUME NEW S, NEW s \in Seq(S), IsInjective(s)
  PROVE  IsFiniteSet(Range(s)) /\ Cardinality(Range(s)) = Len(s)
<1>1. Len(s) \in Nat /\ DOMAIN s = 1 .. Len(s)
  OBVIOUS
<1>2. s \in [1 .. Len(s) -> Range(s)]
  BY <1>1 DEF Range
<1>3. s \in Bijection(1 .. Len(s), Range(s))
  BY <1>1, <1>2 DEF Bijection, Injection, Surjection, Range
<1>4. ExistsBijection(1 .. Len(s), Range(s))
  BY <1>3 DEF ExistsBijection
<1>5. IsFiniteSet(1 .. Len(s)) /\ Cardinality(1 .. Len(s)) = Len(s)
  <2> DEFINE n == Len(s)
  <2>1. 1 \in Int /\ n \in Int /\ (1 > n => n = 0) /\ (n - 1) + 1 = n
    BY <1>1
  <2> HIDE DEF n
  <2>2. IsFiniteSet(1 .. n) /\ Cardinality(1 .. n) = IF 1 > n THEN 0 ELSE (n - 1) + 1
    BY ONLY <2>1, FS_Interval, Zenon
  <2>3. IsFiniteSet(1 .. n) /\ Cardinality(1 .. n) = n
    BY ONLY <2>1, <2>2, Zenon
  <2> QED
    BY <2>3 DEF n
<1> QED
  BY <1>1, <1>4, <1>5, FS_SurjCardinalityBound, FS_Bijection, FS_SameCardinalityBij

\* Taking out one element leaves the others, and makes no duplicate.
LEMMA RemoveFacts ==
  ASSUME NEW S, NEW s \in Seq(S), NEW i \in 1 .. Len(s), IsInjective(s)
  PROVE  LET t == SubSeq(s, 1, i - 1) \o SubSeq(s, i + 1, Len(s))
         IN  t \in Seq(S) /\ Range(t) = Range(s) \ {s[i]} /\ IsInjective(t)
<1> DEFINE n == Len(s)
           f == SubSeq(s, 1, i - 1)
           g == SubSeq(s, i + 1, n)
<1>1. n \in Nat /\ DOMAIN s = 1 .. n /\ i \in 1 .. n
  OBVIOUS
<1>2. f \in Seq(S) /\ DOMAIN f = 1 .. i - 1 /\ \A j \in 1 .. i - 1 : f[j] = s[j]
  BY <1>1
<1>3. g \in Seq(S) /\ DOMAIN g = 1 .. n - i /\ \A j \in 1 .. n - i : g[j] = s[i + j]
  BY <1>1
<1> HIDE DEF n, f, g
<1>4. Range(f) = {s[j] : j \in 1 .. i - 1} /\ IsInjective(f)
  <2>1. Range(f) = {s[j] : j \in 1 .. i - 1}
    BY <1>2 DEF Range
  <2>2. IsInjective(f)
    BY <1>1, <1>2 DEF IsInjective
  <2> QED
    BY <2>1, <2>2
<1>5. Range(g) = {s[j] : j \in i + 1 .. n} /\ IsInjective(g)
  <2>1. ASSUME NEW j \in i + 1 .. n PROVE s[j] \in Range(g)
    <3>1. j - i \in 1 .. n - i /\ g[j - i] = s[j]
      BY <1>1, <1>3
    <3> QED
      BY <1>3, <3>1 DEF Range
  <2>2. ASSUME NEW x \in Range(g) PROVE \E j \in i + 1 .. n : x = s[j]
    <3>1. PICK k \in 1 .. n - i : x = s[i + k]
      BY <1>3, <2>2 DEF Range
    <3>2. i + k \in i + 1 .. n
      BY <1>1
    <3> QED
      BY <3>1, <3>2
  <2>3. ASSUME NEW j \in 1 .. n - i, NEW k \in 1 .. n - i, g[j] = g[k] PROVE j = k
    <3>1. s[i + j] = s[i + k] /\ i + j \in 1 .. n /\ i + k \in 1 .. n
      BY <1>1, <1>3, <2>3
    <3>2. i + j = i + k
      BY <1>1, <3>1 DEF IsInjective
    <3> QED
      BY <1>1, <3>2
  <2> QED
    BY <1>3, <2>1, <2>2, <2>3 DEF IsInjective
<1>6. Range(f) \cap Range(g) = {}
  BY <1>1, <1>4, <1>5 DEF IsInjective
<1>7. Range(f) \cup Range(g) = Range(s) \ {s[i]}
  <2>1. ASSUME NEW x \in Range(s), x # s[i] PROVE x \in Range(f) \cup Range(g)
    <3>1. PICK j \in 1 .. n : x = s[j]
      BY <1>1 DEF Range
    <3>2. j \in 1 .. i - 1 \/ j \in i + 1 .. n
      BY <1>1, <2>1, <3>1
    <3> QED
      BY <1>4, <1>5, <3>1, <3>2
  <2>2. \A j \in 1 .. n : j # i => s[j] \in Range(s) /\ s[j] # s[i]
    BY <1>1 DEF Range, IsInjective
  <2>3. \A j \in (1 .. i - 1) \cup (i + 1 .. n) : j \in 1 .. n /\ j # i
    BY <1>1
  <2>4. Range(f) \cup Range(g) = {s[j] : j \in (1 .. i - 1) \cup (i + 1 .. n)}
    BY <1>4, <1>5
  <2> QED
    BY <2>1, <2>2, <2>3, <2>4
<1>8. f \o g \in Seq(S) /\ Range(f \o g) = Range(s) \ {s[i]} /\ IsInjective(f \o g)
  <2>1. f \in Seq(S) /\ g \in Seq(S) /\ IsInjective(f) /\ IsInjective(g)
    BY ONLY <1>2, <1>3, <1>4, <1>5
  <2>2. f \o g \in Seq(S) /\ Range(f \o g) = Range(f) \cup Range(g) /\ IsInjective(f \o g)
    BY ONLY <1>6, <2>1, ConcatFacts
  <2> QED
    BY ONLY <1>7, <2>2
<1> QED
  BY <1>8 DEF f, g, n

\* A set of naturals has its least member.
LEMMA LeastOf == ASSUME NEW S \in SUBSET Nat, S # {} PROVE \E m \in S : \A k \in S : m <= k
<1>1. PICK m \in S : \A k \in S : ~ (<<k, m>> \in OpToRel(<, Nat))
  BY NatLessThanWellFounded, WFMin
<1>2. ASSUME NEW k \in S, k < m PROVE FALSE
  <2>1. <<k, m>> \in Nat \X Nat /\ <<k, m>>[1] < <<k, m>>[2]
    BY <1>2
  <2> QED
    BY <1>1, <2>1 DEF OpToRel
<1> QED
  BY <1>2
==============================================================================
