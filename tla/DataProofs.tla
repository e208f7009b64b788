----------------------------- MODULE DataProofs -----------------------------
(***************************************************************************)
(* What the other proofs share about data, for data of any size: induction *)
(* over the natural numbers and over the subsets of a finite set, sequences*)
(* and what joining them returns, and what retaining positions of a queue  *)
(* returns.                                                                *)
(***************************************************************************)
EXTENDS VecDeque, SequencesExt, SequenceTheorems, FiniteSetTheorems, WellFoundedInduction, TLAPS

(* Induction over the natural numbers, for a set of them. *)

\* A set of natural numbers that is not empty has a least one.
LEMMA LeastOf ==
  ASSUME NEW T, T \subseteq Nat, T # {}
  PROVE  \E n \in T : \A m \in T : n <= m
<1> DEFINE R == {ss \in Nat \X Nat : ss[1] < ss[2]}
<1>1. IsWellFoundedOn(R, Nat)
  BY NatLessThanWellFounded DEF OpToRel
<1>2. \A m, n \in Nat : <<m, n>> \in R <=> m < n
  OBVIOUS
<1> HIDE DEF R
<1>3. \E n \in T : \A m \in T : ~(<<m, n>> \in R)
  BY <1>1, WFMin
<1>4. PICK n \in T : \A m \in T : ~(<<m, n>> \in R)
  BY <1>3
<1>5. \A m \in T : n <= m
  <2> TAKE m \in T
  <2>1. m \in Nat /\ n \in Nat
    OBVIOUS
  <2>2. ~(<<m, n>> \in R)
    BY <1>4
  <2>3. ~(m < n)
    BY <2>1, <2>2, <1>2, Zenon
  <2> QED
    BY <2>1, <2>3
<1> QED
  BY <1>5

\* What holds of 0, and with a number of the next one, holds of all.
LEMMA SetInduction ==
  ASSUME NEW T, 0 \in T, \A n \in Nat : n \in T => n + 1 \in T
  PROVE  Nat \subseteq T
<1> SUFFICES ASSUME NEW k \in Nat, k \notin T PROVE FALSE
  OBVIOUS
<1> DEFINE U == {n \in Nat : n \notin T}
<1>1. PICK n \in U : \A m \in U : n <= m
  <2>1. U \subseteq Nat /\ U # {}
    OBVIOUS
  <2> HIDE DEF U
  <2> QED
    BY <2>1, LeastOf
<1>2. n # 0 /\ n \in Nat /\ n \notin T
  BY <1>1
<1>3. n - 1 \in Nat /\ ~(n <= n - 1) /\ (n - 1) + 1 = n
  BY <1>2
<1>4. n - 1 \in T
  BY <1>3, <1>1
<1> QED
  BY <1>2, <1>3, <1>4

-----------------------------------------------------------------------------
(* Positions of a queue, and their ranks. *)


\* The rank of position i in the set of positions I.
Rank(I, i) == Cardinality({j \in I : j <= i})

\* The position that Retain(q, I) puts in place k.
Position(I, k) == CHOOSE i \in I : Cardinality({j \in I : j <= i}) = k

-----------------------------------------------------------------------------
\* Ranks are between 1 and the number of positions, and order them.
LEMMA RankOrders ==
  ASSUME NEW I \in SUBSET Nat, IsFiniteSet(I)
  PROVE  /\ Cardinality(I) \in Nat
         /\ \A i \in I : Rank(I, i) \in 1..Cardinality(I)
         /\ \A i, j \in I : i < j => Rank(I, i) < Rank(I, j)
<1> DEFINE Upto(i) == {j \in I : j <= i}
<1>1. Cardinality(I) \in Nat
  BY FS_CardinalityType
<1>2. ASSUME NEW i \in I
      PROVE  /\ IsFiniteSet(Upto(i)) /\ Cardinality(Upto(i)) \in Nat
             /\ Cardinality(Upto(i)) <= Cardinality(I)
             /\ Cardinality(Upto(i)) # 0
  <2>1. IsFiniteSet(Upto(i)) /\ Cardinality(Upto(i)) <= Cardinality(I)
    BY FS_Subset
  <2>2. Cardinality(Upto(i)) \in Nat
    BY <2>1, FS_CardinalityType
  <2>3. i \in Upto(i)
    OBVIOUS
  <2>4. Cardinality(Upto(i)) # 0
    BY <2>1, <2>3, FS_EmptySet
  <2> QED BY <2>1, <2>2, <2>4
<1>3. ASSUME NEW i \in I, NEW j \in I, i < j
      PROVE  Cardinality(Upto(i)) < Cardinality(Upto(j))
  <2>1. /\ \A x \in Upto(i) : x \in I /\ x <= j
        /\ j \in Upto(j) /\ j \notin Upto(i)
    BY <1>3
  <2>2. /\ Cardinality(Upto(i)) <= Cardinality(Upto(j))
        /\ Cardinality(Upto(i)) # Cardinality(Upto(j))
    <3>1. Upto(i) \in SUBSET Upto(j) /\ Upto(i) # Upto(j)
      BY <2>1
    <3> HIDE DEF Upto
    <3> QED BY <3>1, <1>2, FS_Subset
  <2> QED BY <2>2, <1>2
<1> QED
  <2>1. \A i \in I : Rank(I, i) = Cardinality(Upto(i))
    BY DEF Rank
  <2> HIDE DEF Upto
  <2>2. \A i \in I : Rank(I, i) \in 1..Cardinality(I)
    BY <1>1, <1>2, <2>1
  <2> QED BY <1>1, <1>3, <2>1, <2>2

\* Every rank is somebody's.
LEMMA RankIsOnto ==
  ASSUME NEW I \in SUBSET Nat, IsFiniteSet(I), NEW k \in 1..Cardinality(I)
  PROVE  \E i \in I : Rank(I, i) = k
<1> DEFINE n == Cardinality(I)
           f == [i \in I |-> Rank(I, i)]
<1>1. n \in Nat /\ (\A i \in I : Rank(I, i) \in 1..n)
  BY RankOrders
<1>2. f \in [I -> 1..n]
  BY <1>1
<1>3. ASSUME NEW i \in I, NEW j \in I, i # j
      PROVE  f[i] # f[j]
  <2>1. f[i] = Rank(I, i) /\ f[j] = Rank(I, j)
    OBVIOUS
  <2>2. Rank(I, i) \in Nat /\ Rank(I, j) \in Nat
    BY <1>1
  <2>3. i < j \/ j < i
    BY <1>3
  <2> HIDE DEF f
  <2> QED BY <2>1, <2>2, <2>3, RankOrders
<1>4. f \in Injection(I, 1..n)
  BY <1>2, <1>3 DEF Injection, IsInjective
<1>5. IsFiniteSet(1..n) /\ Cardinality(1..n) = n
  <2>1. 1 \in Int /\ n \in Int /\ (1 > n => n = 0)
    BY <1>1
  <2> HIDE DEF n
  <2> QED BY <2>1, <1>1, FS_Interval
<1>6. f \in Surjection(I, 1..n)
  BY <1>4, <1>5, FS_Injection
<1> QED BY <1>6 DEF Surjection

\* Position(I, k) is the member of I of rank k.
LEMMA PositionRank ==
  ASSUME NEW I \in SUBSET Nat, IsFiniteSet(I)
  PROVE  /\ \A k \in 1..Cardinality(I) :
              Position(I, k) \in I /\ Rank(I, Position(I, k)) = k
         /\ \A i \in I : Position(I, Rank(I, i)) = i
<1>1. ASSUME NEW k \in 1..Cardinality(I)
      PROVE  Position(I, k) \in I /\ Rank(I, Position(I, k)) = k
  <2>1. \E i \in I : Cardinality({j \in I : j <= i}) = k
    BY RankIsOnto DEF Rank
  <2> QED BY <2>1 DEF Position, Rank
<1>2. ASSUME NEW i \in I
      PROVE  Position(I, Rank(I, i)) = i
  <2> DEFINE j == Position(I, Rank(I, i))
  <2>1. Rank(I, i) \in 1..Cardinality(I) /\ Rank(I, i) \in Nat
    BY RankOrders
  <2>2. j \in I /\ Rank(I, j) = Rank(I, i)
    BY <2>1, <1>1
  <2>3. ~(i < j) /\ ~(j < i)
    <3> HIDE DEF j
    <3> QED BY <2>1, <2>2, RankOrders
  <2> HIDE DEF j
  <2>4. j = i
    BY <2>2, <2>3
  <2> QED BY <2>4 DEF j
<1> QED BY <1>1, <1>2

-----------------------------------------------------------------------------
(* VecDeque::retain *)

\* Retain keeps the messages at the positions it is given, all of them and
\* nothing else, and keeps them in order.
LEMMA RetainKeeps ==
  ASSUME NEW S, NEW q \in Seq(S), NEW I \in SUBSET (DOMAIN q)
  PROVE  /\ Retain(q, I) \in Seq(S)
         /\ DOMAIN Retain(q, I) = 1..Cardinality(I)
         /\ \A k \in DOMAIN Retain(q, I) : \E i \in I :
              Rank(I, i) = k /\ Retain(q, I)[k] = q[i]
         /\ \A i \in I : /\ Rank(I, i) \in DOMAIN Retain(q, I)
                         /\ Retain(q, I)[Rank(I, i)] = q[i]
         /\ \A i, j \in I : i < j => Rank(I, i) < Rank(I, j)
<1> DEFINE n == Cardinality(I)
           r == [k \in 1..n |-> q[Position(I, k)]]
<1>1. I \in SUBSET Nat /\ IsFiniteSet(I)
  <2>1. DOMAIN q = 1..Len(q) /\ Len(q) \in Nat
    OBVIOUS
  <2>2. IsFiniteSet(1..Len(q))
    BY <2>1, FS_Interval
  <2> QED BY <2>1, <2>2, FS_Subset
<1>2. n \in Nat
  BY <1>1, RankOrders
<1>3. Retain(q, I) = r
  BY DEF Retain, Position
<1>4. \A k \in 1..n : q[Position(I, k)] \in S
  BY <1>1, PositionRank
<1>5. r \in Seq(S) /\ DOMAIN r = 1..n
  <2>1. r \in [1..n -> S]
    BY <1>4
  <2> HIDE DEF r, n
  <2> QED BY <2>1, <1>2
<1>6. \A k \in 1..n : Position(I, k) \in I /\ Rank(I, Position(I, k)) = k
  BY <1>1, PositionRank
<1>7. \A i \in I : Rank(I, i) \in 1..n /\ r[Rank(I, i)] = q[i]
  BY <1>1, PositionRank, RankOrders
<1> QED BY <1>1, <1>3, <1>5, <1>6, <1>7, RankOrders

\* A set of positions that is not empty has a last one.
LEMMA LastPosition ==
  ASSUME NEW I \in SUBSET Nat, IsFiniteSet(I), I # {}
  PROVE  \E i \in I : \A j \in I : ~(j > i)
<1> DEFINE n == Cardinality(I)
<1>1. n \in Nat \ {0}
  BY FS_EmptySet, RankOrders
<1>2. PICK i \in I : Rank(I, i) = n
  BY <1>1, RankIsOnto
<1>3. ASSUME NEW j \in I, j > i
      PROVE  FALSE
  <2>1. Rank(I, i) < Rank(I, j) /\ Rank(I, j) \in 1..n
    BY <1>3, RankOrders
  <2> QED BY <1>1, <1>2, <2>1
<1> QED BY <1>3

-----------------------------------------------------------------------------
(* Sequences. *)

\* A sequence, of whatever it holds.
IsSeq(s) == s \in Seq(ToSet(s))

LEMMA SeqIsSeq ==
  ASSUME NEW S, NEW s \in Seq(S)
  PROVE  IsSeq(s) /\ ToSet(s) \subseteq S
<1>1. Len(s) \in Nat /\ DOMAIN s = 1 .. Len(s) /\ \A i \in 1 .. Len(s) : s[i] \in S
  BY LenProperties, ElementOfSeq
<1>2. \A i \in 1 .. Len(s) : s[i] \in ToSet(s)
  BY <1>1 DEF ToSet
<1>3. SubSeq(s, 1, Len(s)) \in Seq(ToSet(s))
  BY <1>1, <1>2, SubSeqProperties
<1>4. SubSeq(s, 1, Len(s)) = s
  BY SubSeqFull
<1>5. ToSet(s) \subseteq S
  BY <1>1 DEF ToSet
<1> QED
  BY <1>3, <1>4, <1>5 DEF IsSeq

LEMMA IsSeqHas ==
  ASSUME NEW s, IsSeq(s)
  PROVE  /\ Len(s) \in Nat /\ DOMAIN s = 1 .. Len(s)
         /\ \A S : ToSet(s) \subseteq S => s \in Seq(S)
         /\ \A i \in DOMAIN s : s[i] \in ToSet(s)
<1>1. s \in Seq(ToSet(s))
  BY DEF IsSeq
<1>2. Len(s) \in Nat /\ DOMAIN s = 1 .. Len(s)
  BY <1>1, LenProperties
<1>3. \A S : ToSet(s) \subseteq S => s \in Seq(S)
  BY <1>1, SeqMonotonic
<1>4. \A i \in DOMAIN s : s[i] \in ToSet(s)
  BY DEF ToSet
<1> QED
  BY <1>2, <1>3, <1>4

LEMMA ConcatIsSeq ==
  ASSUME NEW s, NEW t, IsSeq(s), IsSeq(t)
  PROVE  IsSeq(s \o t) /\ ToSet(s \o t) = ToSet(s) \cup ToSet(t)
<1> DEFINE S == ToSet(s) \cup ToSet(t)
           l == s \o t
<1>1. s \in Seq(S) /\ t \in Seq(S)
  BY IsSeqHas
<1>2. /\ l \in Seq(S) /\ Len(l) = Len(s) + Len(t)
      /\ \A i \in 1 .. Len(s) + Len(t) : l[i] = IF i <= Len(s) THEN s[i] ELSE t[i - Len(s)]
  <2> HIDE DEF S
  <2> QED
    BY <1>1, ConcatProperties
<1>3. IsSeq(l) /\ ToSet(l) \subseteq S /\ DOMAIN l = 1 .. Len(l)
  <2> HIDE DEF S, l
  <2> QED
    BY <1>2, SeqIsSeq, LenProperties
<1>4. Len(s) \in Nat /\ Len(t) \in Nat /\ DOMAIN s = 1 .. Len(s) /\ DOMAIN t = 1 .. Len(t)
  BY IsSeqHas
<1>5. ASSUME NEW x \in S PROVE x \in ToSet(l)
  <2>1. CASE x \in ToSet(s)
    <3>1. PICK i \in DOMAIN s : x = s[i]
      BY <2>1 DEF ToSet
    <3>2. i \in DOMAIN l /\ l[i] = s[i]
      <4> HIDE DEF l
      <4> QED
        BY <1>2, <1>3, <1>4
    <3> HIDE DEF l
    <3> QED
      BY <3>1, <3>2 DEF ToSet
  <2>2. CASE x \in ToSet(t)
    <3>1. PICK i \in DOMAIN t : x = t[i]
      BY <2>2 DEF ToSet
    <3>2. Len(s) + i \in DOMAIN l /\ l[Len(s) + i] = t[i]
      <4>1. Len(s) + i \in 1 .. Len(s) + Len(t) /\ ~(Len(s) + i <= Len(s)) /\ (Len(s) + i) - Len(s) = i
        BY <1>4
      <4> HIDE DEF l
      <4> QED
        BY <1>2, <1>3, <4>1
    <3> HIDE DEF l
    <3> QED
      BY <3>1, <3>2 DEF ToSet
  <2> QED
    BY <2>1, <2>2
<1> QED
  BY <1>3, <1>5

LEMMA ShortIsSeq ==
  /\ IsSeq(<<>>) /\ ToSet(<<>>) = {}
  /\ \A x : IsSeq(<<x>>) /\ ToSet(<<x>>) = {x}
<1>1. <<>> \in Seq({}) /\ \A x : <<x>> \in Seq({x})
  OBVIOUS
<1>2. ToSet(<<>>) = {} /\ \A x : ToSet(<<x>>) = {x}
  BY DEF ToSet
<1> QED
  BY <1>1, <1>2 DEF IsSeq

LEMMA AppendIsSeq ==
  ASSUME NEW s, NEW x, IsSeq(s)
  PROVE  IsSeq(Append(s, x)) /\ ToSet(Append(s, x)) = ToSet(s) \cup {x}
<1> DEFINE S == ToSet(s) \cup {x}
<1>1. s \in Seq(S) /\ x \in S
  BY IsSeqHas
<1>2. Append(s, x) = s \o <<x>>
  <2> HIDE DEF S
  <2> QED
    BY <1>1, AppendIsConcat
<1>3. IsSeq(<<x>>) /\ ToSet(<<x>>) = {x}
  BY ShortIsSeq
<1> QED
  BY <1>2, <1>3, ConcatIsSeq

(* FlattenSeq. *)

\* What it comes to, from the first of the parts on.
Flattens(f, parts) ==
  \A i \in 1 .. Len(parts) : f[i] = IF i = 1 THEN parts[i] ELSE f[i - 1] \o parts[i]

LEMMA FlattenUnfolds ==
  ASSUME NEW parts, IsSeq(parts), parts # <<>>
  PROVE  \E f : Flattens(f, parts) /\ FlattenSeq(parts) = f[Len(parts)]
<1> DEFINE n == Len(parts)
           Body(f) == [i \in 1 .. n |-> IF i = 1 THEN parts[i] ELSE f[i - 1] \o parts[i]]
           Fits(f, m) == \A i \in 1 .. n : i <= m => f[i] = IF i = 1 THEN parts[i] ELSE f[i - 1] \o parts[i]
           T == {m \in Nat : \E f : Fits(f, m)}
<1>1. n \in Nat /\ n # 0
  BY IsSeqHas, EmptySeq DEF IsSeq
<1>2. 0 \in T
  OBVIOUS
<1>3. ASSUME NEW m \in Nat, m \in T PROVE m + 1 \in T
  <2>1. PICK f : Fits(f, m)
    BY <1>3
  <2>2. Fits(Body(f), m + 1)
    <3> SUFFICES ASSUME NEW i \in 1 .. n, i <= m + 1
                 PROVE  Body(f)[i] = IF i = 1 THEN parts[i] ELSE Body(f)[i - 1] \o parts[i]
      OBVIOUS
    <3>1. Body(f)[i] = IF i = 1 THEN parts[i] ELSE f[i - 1] \o parts[i]
      OBVIOUS
    <3>2. CASE i = 1
      BY <3>1, <3>2
    <3>3. CASE i # 1
      <4>1. i - 1 \in 1 .. n /\ i - 1 <= m
        BY <3>3
      <4>2. f[i - 1] = IF i - 1 = 1 THEN parts[i - 1] ELSE f[(i - 1) - 1] \o parts[i - 1]
        BY <2>1, <4>1
      <4>3. Body(f)[i - 1] = IF i - 1 = 1 THEN parts[i - 1] ELSE f[(i - 1) - 1] \o parts[i - 1]
        BY <4>1
      <4> HIDE DEF Body
      <4> QED
        BY <3>1, <3>3, <4>2, <4>3
    <3> QED
      BY <3>2, <3>3
  <2> HIDE DEF Fits, Body
  <2> QED
    BY <2>2
<1>4. n \in T
  <2> HIDE DEF T
  <2> QED
    BY <1>1, <1>2, <1>3, SetInduction
<1>5. PICK f : Fits(f, n)
  BY <1>4
<1>6. Body(f) = Body(Body(f))
  <2>1. ASSUME NEW i \in 1 .. n PROVE Body(f)[i] = f[i]
    BY <1>5, <1>1
  <2>2. ASSUME NEW i \in 1 .. n
        PROVE  (IF i = 1 THEN parts[i] ELSE f[i - 1] \o parts[i])
                  = (IF i = 1 THEN parts[i] ELSE Body(f)[i - 1] \o parts[i])
    <3>1. CASE i = 1
      BY <3>1
    <3>2. CASE i # 1
      <4>1. i - 1 \in 1 .. n
        BY <1>1, <3>2
      <4>2. Body(f)[i - 1] = f[i - 1]
        BY <2>1, <4>1
      <4> HIDE DEF Body
      <4> QED
        BY <3>2, <4>2
    <3> QED
      BY <3>1, <3>2
  <2> QED
    BY <2>2, Zenon
<1> DEFINE g == CHOOSE h : h = Body(h)
<1>7. g = Body(g)
  <2> HIDE DEF Body
  <2> QED
    BY <1>6
<1>8. Flattens(g, parts)
  <2> HIDE DEF g
  <2> QED
    BY <1>7 DEF Flattens
<1>9. FlattenSeq(parts) = g[n]
  BY <1>1 DEF FlattenSeq
<1> HIDE DEF g
<1> QED
  BY <1>8, <1>9

LEMMA FlattenIsSeq ==
  ASSUME NEW parts, IsSeq(parts), \A k \in DOMAIN parts : IsSeq(parts[k])
  PROVE  /\ IsSeq(FlattenSeq(parts))
         /\ ToSet(FlattenSeq(parts)) = UNION {ToSet(parts[k]) : k \in DOMAIN parts}
<1>1. CASE parts = <<>>
  <2>1. FlattenSeq(parts) = <<>> /\ DOMAIN parts = {}
    BY <1>1 DEF FlattenSeq
  <2> QED
    BY <2>1, ShortIsSeq
<1>2. CASE parts # <<>>
  <2> DEFINE n == Len(parts)
  <2>1. PICK f : Flattens(f, parts) /\ FlattenSeq(parts) = f[n]
    BY <1>2, FlattenUnfolds
  <2>2. n \in Nat /\ n # 0 /\ DOMAIN parts = 1 .. n
    BY <1>2, IsSeqHas, EmptySeq DEF IsSeq
  <2> DEFINE Upto(m) == UNION {ToSet(parts[k]) : k \in 1 .. m}
             T == {m \in Nat : m \in 1 .. n => IsSeq(f[m]) /\ ToSet(f[m]) = Upto(m)}
  <2>3. 0 \in T
    OBVIOUS
  <2>4. ASSUME NEW m \in Nat, m \in T PROVE m + 1 \in T
    <3> SUFFICES ASSUME m + 1 \in 1 .. n
                 PROVE  IsSeq(f[m + 1]) /\ ToSet(f[m + 1]) = Upto(m + 1)
      OBVIOUS
    <3>1. f[m + 1] = IF m + 1 = 1 THEN parts[m + 1] ELSE f[(m + 1) - 1] \o parts[m + 1]
      BY <2>1 DEF Flattens
    <3>2. IsSeq(parts[m + 1])
      BY <2>2
    <3>3. CASE m = 0
      <4>1. 1 .. m + 1 = {m + 1} /\ f[m + 1] = parts[m + 1]
        BY <3>1, <3>3
      <4>2. Upto(m + 1) = ToSet(parts[m + 1])
        BY <4>1
      <4> QED
        BY <4>1, <4>2, <3>2
    <3>4. CASE m # 0
      <4>1. m \in 1 .. n /\ (m + 1) - 1 = m /\ m + 1 # 1 /\ 1 .. m + 1 = (1 .. m) \cup {m + 1}
        BY <3>4, <2>2
      <4>2. IsSeq(f[m]) /\ ToSet(f[m]) = Upto(m)
        BY <2>4, <4>1
      <4>3. f[m + 1] = f[m] \o parts[m + 1]
        BY <3>1, <4>1
      <4>4. Upto(m + 1) = Upto(m) \cup ToSet(parts[m + 1])
        BY <4>1
      <4> HIDE DEF Upto
      <4> QED
        BY <3>2, <4>2, <4>3, <4>4, ConcatIsSeq
    <3> QED
      BY <3>3, <3>4
  <2>5. n \in T
    <3> HIDE DEF T
    <3> QED
      BY <2>2, <2>3, <2>4, SetInduction
  <2> QED
    BY <2>1, <2>2, <2>5
<1> QED
  BY <1>1, <1>2

\* Each of a sequence, by a function.
Image(h, s) == [i \in DOMAIN s |-> h[s[i]]]

LEMMA ImageIsSeq ==
  ASSUME NEW h, NEW s, IsSeq(s)
  PROVE  IsSeq(Image(h, s)) /\ Len(Image(h, s)) = Len(s)
<1>1. Len(s) \in Nat /\ DOMAIN s = 1 .. Len(s)
  BY IsSeqHas
<1> DEFINE l == Image(h, s)
           S == {h[s[i]] : i \in DOMAIN s}
<1>2. l = [i \in 1 .. Len(s) |-> h[s[i]]]
  BY <1>1 DEF Image
<1>3. \A i \in 1 .. Len(s) : l[i] \in S
  BY <1>1, <1>2
<1>4. l \in [1 .. Len(s) -> S]
  BY <1>1, <1>2
<1>5. l \in Seq(S)
  <2> HIDE DEF l, S
  <2> QED
    BY <1>1, <1>4, SeqDef
<1>6. DOMAIN l = 1 .. Len(s) /\ DOMAIN l = 1 .. Len(l) /\ Len(l) \in Nat
  <2>1. DOMAIN l = 1 .. Len(s)
    BY <1>2
  <2> HIDE DEF l, S
  <2> QED
    BY <1>5, <2>1, LenProperties
<1>7. Len(l) = Len(s)
  BY <1>1, <1>6
<1> QED
  <2> HIDE DEF l, S
  <2> QED
    BY <1>5, <1>7, SeqIsSeq DEF l

LEMMA ImageOfConcat ==
  ASSUME NEW h, NEW s, NEW t, IsSeq(s), IsSeq(t)
  PROVE  Image(h, s \o t) = Image(h, s) \o Image(h, t)
<1> DEFINE S == ToSet(s) \cup ToSet(t)
           a == Image(h, s)  b == Image(h, t)  U == ToSet(a) \cup ToSet(b)
           l == Image(h, s \o t)
           V == ToSet(l) \cup U
<1>1. s \in Seq(S) /\ t \in Seq(S) /\ Len(s) \in Nat /\ Len(t) \in Nat
  BY IsSeqHas
<1>2. /\ s \o t \in Seq(S) /\ Len(s \o t) = Len(s) + Len(t)
      /\ \A i \in 1 .. Len(s) + Len(t) : (s \o t)[i] = IF i <= Len(s) THEN s[i] ELSE t[i - Len(s)]
  <2> HIDE DEF S
  <2> QED
    BY <1>1, ConcatProperties
<1>3. IsSeq(a) /\ IsSeq(b) /\ Len(a) = Len(s) /\ Len(b) = Len(t)
  BY ImageIsSeq
<1>4. IsSeq(l) /\ Len(l) = Len(s) + Len(t)
  BY <1>2, ConcatIsSeq, ImageIsSeq
<1>5. a \in Seq(V) /\ b \in Seq(V) /\ l \in Seq(V)
  <2> HIDE DEF a, b, l
  <2> QED
    BY <1>3, <1>4, IsSeqHas
<1>6. /\ a \o b \in Seq(V) /\ Len(a \o b) = Len(a) + Len(b)
      /\ \A i \in 1 .. Len(a) + Len(b) : (a \o b)[i] = IF i <= Len(a) THEN a[i] ELSE b[i - Len(a)]
  <2> HIDE DEF a, b, V
  <2> QED
    BY <1>5, ConcatProperties
<1>7. ASSUME NEW i \in 1 .. Len(l) PROVE l[i] = (a \o b)[i]
  <2>1. DOMAIN (s \o t) = 1 .. Len(s) + Len(t) /\ DOMAIN s = 1 .. Len(s) /\ DOMAIN t = 1 .. Len(t)
    <3> HIDE DEF S
    <3> QED
      BY <1>1, <1>2, LenProperties
  <2>2. i \in 1 .. Len(s) + Len(t)
    BY <1>4
  <2>3. l[i] = h[(s \o t)[i]]
    BY <2>1, <2>2 DEF Image
  <2>4. CASE i <= Len(s)
    <3>1. i \in DOMAIN s /\ (s \o t)[i] = s[i]
      BY <1>1, <1>2, <2>1, <2>2, <2>4
    <3>2. a[i] = h[s[i]]
      BY <3>1 DEF Image
    <3> HIDE DEF a, b, l
    <3> QED
      BY <1>3, <1>6, <2>2, <2>3, <2>4, <3>1, <3>2
  <2>5. CASE ~(i <= Len(s))
    <3>1. i - Len(s) \in DOMAIN t /\ (s \o t)[i] = t[i - Len(s)]
      BY <1>1, <1>2, <2>1, <2>2, <2>5
    <3>2. b[i - Len(s)] = h[t[i - Len(s)]]
      BY <3>1 DEF Image
    <3> HIDE DEF a, b, l
    <3> QED
      BY <1>3, <1>6, <2>2, <2>3, <2>5, <3>1, <3>2
  <2> QED
    BY <2>4, <2>5
<1> QED
  <2>1. Len(l) = Len(a \o b)
    BY <1>3, <1>4, <1>6
  <2>2. l = a \o b
    <3> HIDE DEF a, b, l, V
    <3> QED
      BY <1>5, <1>6, <1>7, <2>1, SeqEqual
  <2> QED
    BY <2>2

LEMMA ImageOfFlatten ==
  ASSUME NEW h, NEW parts, IsSeq(parts), \A k \in DOMAIN parts : IsSeq(parts[k]),
         NEW images, IsSeq(images), Len(images) = Len(parts),
         \A k \in DOMAIN parts : images[k] = Image(h, parts[k])
  PROVE  Image(h, FlattenSeq(parts)) = FlattenSeq(images)
<1> DEFINE n == Len(parts)
<1>0. n \in Nat /\ DOMAIN parts = 1 .. n /\ DOMAIN images = 1 .. n
  BY IsSeqHas
<1>1. CASE parts = <<>>
  <2>1. FlattenSeq(parts) = <<>> /\ n = 0 /\ Len(images) = 0
    BY <1>1 DEF FlattenSeq
  <2>2. FlattenSeq(images) = images /\ images = <<>>
    BY <2>1, <1>0, EmptySeq DEF FlattenSeq, IsSeq
  <2>3. Image(h, <<>>) = <<>>
    BY DEF Image
  <2> QED
    BY <2>1, <2>2, <2>3
<1>2. CASE parts # <<>>
  <2>1. n # 0
    BY <1>2, EmptySeq DEF IsSeq
  <2>2. PICK f : Flattens(f, parts) /\ FlattenSeq(parts) = f[n]
    BY <1>2, FlattenUnfolds
  <2>3. images # <<>>
    BY <1>0, <2>1
  <2>4. PICK g : Flattens(g, images) /\ FlattenSeq(images) = g[n]
    BY <2>3, FlattenUnfolds
  <2> DEFINE T == {m \in Nat : m \in 1 .. n => IsSeq(f[m]) /\ Image(h, f[m]) = g[m]}
  <2>5. 0 \in T
    OBVIOUS
  <2>6. ASSUME NEW m \in Nat, m \in T PROVE m + 1 \in T
    <3> SUFFICES ASSUME m + 1 \in 1 .. n
                 PROVE  IsSeq(f[m + 1]) /\ Image(h, f[m + 1]) = g[m + 1]
      OBVIOUS
    <3>1. f[m + 1] = IF m + 1 = 1 THEN parts[m + 1] ELSE f[(m + 1) - 1] \o parts[m + 1]
      BY <2>2 DEF Flattens
    <3>2. g[m + 1] = IF m + 1 = 1 THEN images[m + 1] ELSE g[(m + 1) - 1] \o images[m + 1]
      BY <2>4 DEF Flattens
    <3>3. IsSeq(parts[m + 1]) /\ images[m + 1] = Image(h, parts[m + 1])
      BY <1>0
    <3>4. CASE m = 0
      BY <3>1, <3>2, <3>3, <3>4
    <3>5. CASE m # 0
      <4>1. m \in 1 .. n /\ (m + 1) - 1 = m /\ m + 1 # 1
        BY <3>5, <1>0
      <4>2. IsSeq(f[m]) /\ Image(h, f[m]) = g[m]
        BY <2>6, <4>1
      <4>3. f[m + 1] = f[m] \o parts[m + 1] /\ g[m + 1] = g[m] \o images[m + 1]
        BY <3>1, <3>2, <4>1
      <4>4. IsSeq(f[m] \o parts[m + 1])
        BY <3>3, <4>2, ConcatIsSeq
      <4>5. Image(h, f[m] \o parts[m + 1]) = Image(h, f[m]) \o Image(h, parts[m + 1])
        BY <3>3, <4>2, ImageOfConcat, ZenonT(60)
      <4> QED
        BY <3>3, <4>2, <4>3, <4>4, <4>5
    <3> QED
      BY <3>4, <3>5
  <2>7. n \in T
    <3> HIDE DEF T
    <3> QED
      BY <1>0, <2>5, <2>6, SetInduction
  <2>8. n \in 1 .. n
    BY <1>0, <2>1
  <2> QED
    BY <2>2, <2>4, <2>7, <2>8
<1> QED
  BY <1>1, <1>2

LEMMA MadeIsSeq ==
  ASSUME NEW n \in Nat, NEW s, DOMAIN s = 1 .. n, s = [i \in 1 .. n |-> s[i]]
  PROVE  IsSeq(s) /\ Len(s) = n
<1>1. \A i \in 1 .. n : s[i] \in ToSet(s)
  BY DEF ToSet
<1>2. s \in [1 .. n -> ToSet(s)]
  BY <1>1
<1>3. s \in Seq(ToSet(s))
  BY <1>2, SeqDef
<1> QED
  BY <1>3, LenProperties DEF IsSeq

\* An element removed from what is left of a finite set.
LEMMA FewerLeft ==
  ASSUME NEW D, IsFiniteSet(D), NEW A \in SUBSET D, NEW x \in D \ A
  PROVE  /\ A \cup {x} \in SUBSET D
         /\ Cardinality(D \ A) \in Nat /\ Cardinality(D \ (A \cup {x})) = Cardinality(D \ A) - 1
<1>1. IsFiniteSet(D \ A)
  BY FS_Subset
<1>2. D \ (A \cup {x}) = (D \ A) \ {x}
  OBVIOUS
<1> QED
  BY <1>1, <1>2, FS_RemoveElement, FS_CardinalityType, SMTT(30)

LEMMA DownInduction ==
  ASSUME NEW D, IsFiniteSet(D), NEW T,
         \A A \in SUBSET D : (\A x \in D \ A : A \cup {x} \in T) => A \in T
  PROVE  SUBSET D \subseteq T
<1> DEFINE U == {n \in Nat : \A A \in SUBSET D : Cardinality(D \ A) <= n => A \in T}
<1>0. \A A \in SUBSET D : Cardinality(D \ A) \in Nat
  BY FS_Subset, FS_CardinalityType
<1>1. 0 \in U
  <2> SUFFICES ASSUME NEW A \in SUBSET D, Cardinality(D \ A) <= 0 PROVE A \in T
    OBVIOUS
  <2>1. \A x \in D \ A : FALSE
    <3> SUFFICES ASSUME NEW x \in D \ A PROVE FALSE
      OBVIOUS
    <3>1. /\ A \cup {x} \in SUBSET D /\ Cardinality(D \ A) \in Nat
          /\ Cardinality(D \ (A \cup {x})) = Cardinality(D \ A) - 1
      BY FewerLeft
    <3>2. Cardinality(D \ (A \cup {x})) \in Nat
      BY <1>0, <3>1
    <3> QED
      BY <3>1, <3>2
  <2> QED
    BY <2>1
<1>2. ASSUME NEW n \in Nat, n \in U PROVE n + 1 \in U
  <2> SUFFICES ASSUME NEW A \in SUBSET D, Cardinality(D \ A) <= n + 1 PROVE A \in T
    OBVIOUS
  <2>1. ASSUME NEW x \in D \ A PROVE A \cup {x} \in T
    <3>1. /\ A \cup {x} \in SUBSET D /\ Cardinality(D \ A) \in Nat
          /\ Cardinality(D \ (A \cup {x})) = Cardinality(D \ A) - 1
      BY FewerLeft
    <3>2. Cardinality(D \ (A \cup {x})) <= n
      BY <3>1
    <3> QED
      BY <1>2, <3>1, <3>2
  <2> QED
    BY <2>1
<1>3. Nat \subseteq U
  <2> HIDE DEF U
  <2> QED
    BY <1>1, <1>2, SetInduction
<1> SUFFICES ASSUME NEW A \in SUBSET D PROVE A \in T
  OBVIOUS
<1>4. Cardinality(D \ A) \in U
  BY <1>0, <1>3
<1> QED
  BY <1>0, <1>4

LEMMA MinIsLeast ==
  ASSUME NEW S \in SUBSET Nat, S # {}
  PROVE  Min(S) \in S /\ \A n \in S : Min(S) <= n
<1>1. PICK n \in S : \A m \in S : n <= m
  BY LeastOf
<1> QED
  BY <1>1 DEF Min

\* A function on the places of a sequence is one.
LEMMA OverIsSeq ==
  ASSUME NEW n \in Nat, NEW m \in 0 .. n, NEW g
  PROVE  LET s == [k \in 1 .. m |-> g[k]] IN IsSeq(s) /\ Len(s) = m /\ DOMAIN s = 1 .. m
<1> DEFINE s == [k \in 1 .. m |-> g[k]]
<1>1. m \in Nat /\ DOMAIN s = 1 .. m /\ s = [k \in 1 .. m |-> s[k]]
  OBVIOUS
<1> HIDE DEF s
<1>2. IsSeq(s) /\ Len(s) = m
  BY <1>1, MadeIsSeq
<1> QED
  BY <1>1, <1>2 DEF s

\* Pieces put together in order.
LEMMA PiecesJoin ==
  ASSUME NEW n \in Nat, NEW m \in 0 .. n, NEW g, \A k \in 1 .. n : IsSeq(g[k])
  PROVE  LET s == [k \in 1 .. m |-> g[k]]
         IN IsSeq(FlattenSeq(s)) /\ ToSet(FlattenSeq(s)) = UNION {ToSet(g[k]) : k \in 1 .. m}
<1> DEFINE s == [k \in 1 .. m |-> g[k]]
<1>1. IsSeq(s) /\ DOMAIN s = 1 .. m /\ \A k \in 1 .. m : s[k] = g[k]
  BY OverIsSeq
<1>2. \A k \in DOMAIN s : IsSeq(s[k])
  BY <1>1
<1>3. {ToSet(s[k]) : k \in DOMAIN s} = {ToSet(g[k]) : k \in 1 .. m}
  BY <1>1
<1>4. IsSeq(FlattenSeq(s)) /\ ToSet(FlattenSeq(s)) = UNION {ToSet(s[k]) : k \in DOMAIN s}
  <2> HIDE DEF s
  <2> QED
    BY <1>1, <1>2, FlattenIsSeq
<1> QED
  BY <1>3, <1>4
=============================================================================
