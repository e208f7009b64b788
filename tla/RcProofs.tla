------------------------------ MODULE RcProofs ------------------------------
(***************************************************************************)
(* The bazelrc files: of one open buffer (RcBuffer), that the text the     *)
(* server answers from is the text on screen; of a workspace of them       *)
(* (RcWorkspace), that what the requests answer is what a build of the     *)
(* files would publish, that errors lead to their cause, that the answers  *)
(* agree with one another, that a rename changes a name and nothing else,  *)
(* and that what is found wrong with expansion is what expansion means.    *)
(* Texts, files, imports and links are any number, and so is what they     *)
(* hold.                                                                   *)
(***************************************************************************)
EXTENDS RcBuffer, RcWorkspace, DataProofs

(***************************************************************************)
(* One buffer.  The two sides count differently: the server finds a place  *)
(* through its table of line starts, the client by looking back over its   *)
(* own text; and the server turns a position into an offset, which is right*)
(* only if no two offsets of a caret have the same position.               *)
(***************************************************************************)

\* The places of the line feeds of a text, and those up to an offset.
Ends(text) == {i \in DOMAIN text : text[i] = LF}
EndsBy(text, o) == {i \in 1 .. o : text[i] = LF}

\* Where the line of an offset begins.
Begin(text, o) ==
    LET ended == EndsBy(text, o)
    IN  IF ended = {} THEN 0 ELSE CHOOSE i \in ended : \A j \in ended : j <= i

Text == Seq(STRING)

\* An interval of numbers is finite, and so is what is chosen from it.
LEMMA SomeOfInterval ==
  ASSUME NEW n \in Nat, NEW I \in SUBSET (1 .. n)
  PROVE  /\ IsFiniteSet(I) /\ Cardinality(I) \in Nat /\ I \in SUBSET Nat
         /\ Cardinality(I) <= n
<1>1. IsFiniteSet(1 .. n) /\ Cardinality(1 .. n) = n
  <2>1. IsFiniteSet(1 .. n) /\ Cardinality(1 .. n) = IF 1 > n THEN 0 ELSE n - 1 + 1
    BY FS_Interval
  <2> QED BY <2>1
<1>2. IsFiniteSet(I) /\ Cardinality(I) <= Cardinality(1 .. n)
  BY <1>1, FS_Subset
<1>3. Cardinality(I) \in Nat
  BY <1>2, FS_CardinalityType
<1> QED BY <1>1, <1>2, <1>3

LEMMA EndsFinite ==
  ASSUME NEW text \in Text, NEW o \in 0 .. Len(text)
  PROVE  /\ Ends(text) \in SUBSET (1 .. Len(text)) /\ IsFiniteSet(Ends(text))
         /\ Ends(text) \in SUBSET Nat /\ Cardinality(Ends(text)) \in Nat
         /\ EndsBy(text, o) = {i \in Ends(text) : i <= o}
         /\ EndsBy(text, o) \in SUBSET Ends(text)
         /\ IsFiniteSet(EndsBy(text, o)) /\ Cardinality(EndsBy(text, o)) \in Nat
         /\ Cardinality(EndsBy(text, o)) <= Cardinality(Ends(text))
<1>1. /\ Len(text) \in Nat /\ DOMAIN text = 1 .. Len(text)
      /\ Ends(text) \in SUBSET (1 .. Len(text))
  BY DEF Ends, Text
<1>2. IsFiniteSet(Ends(text)) /\ Cardinality(Ends(text)) \in Nat /\ Ends(text) \in SUBSET Nat
  BY <1>1, SomeOfInterval
<1>3. EndsBy(text, o) = {i \in Ends(text) : i <= o}
  BY <1>1 DEF Ends, EndsBy
<1>4. EndsBy(text, o) \in SUBSET Ends(text)
  BY <1>3
<1> QED BY <1>1, <1>2, <1>3, <1>4, FS_Subset, FS_CardinalityType

\* The entries of the table of line starts.
LEMMA StartsEntries ==
  ASSUME NEW text \in Text
  PROVE  LET n == Cardinality(Ends(text)) IN
         /\ Starts(text) \in Seq(Nat) /\ Len(Starts(text)) = n + 1
         /\ DOMAIN Starts(text) = 1 .. (n + 1)
         /\ Starts(text)[1] = 0
         /\ \A k \in 1 .. n : Starts(text)[k + 1] = Position(Ends(text), k)
<1> DEFINE E == Ends(text)
           n == Cardinality(E)
           s == Starts(text)
<1>1. 0 \in 0 .. Len(text)
  BY DEF Text
<1>2. n \in Nat /\ E \in SUBSET Nat /\ IsFiniteSet(E)
  BY <1>1, EndsFinite
<1>3. s = [k \in 1 .. n + 1 |->
              IF k = 1 THEN 0
              ELSE CHOOSE i \in E : Cardinality({j \in E : j <= i}) = k - 1]
  BY DEF Starts, Ends
<1>4. s[1] = 0
  BY <1>2, <1>3
<1>5. ASSUME NEW k \in 1 .. n
      PROVE  s[k + 1] = Position(E, k)
  <2>1. k + 1 \in 1 .. n + 1 /\ k + 1 # 1 /\ (k + 1) - 1 = k
    BY <1>2
  <2> HIDE DEF E, n, s
  <2>2. s[k + 1] = CHOOSE i \in E : Cardinality({j \in E : j <= i}) = (k + 1) - 1
    BY <1>3, <2>1
  <2> QED BY <2>1, <2>2 DEF Position
<1>6. \A k \in 1 .. n : Position(E, k) \in Nat
  BY <1>2, PositionRank
<1>7. \A k \in 1 .. n + 1 : s[k] \in Nat
  <2> SUFFICES ASSUME NEW k \in 1 .. n + 1, k # 1
               PROVE  s[k] \in Nat
    BY <1>4
  <2>1. k - 1 \in 1 .. n /\ (k - 1) + 1 = k
    BY <1>2
  <2> HIDE DEF E, n, s
  <2> QED BY <1>5, <1>6, <2>1
<1> HIDE DEF E, n
<1>8. DOMAIN s = 1 .. n + 1
  BY <1>3
<1>9. s \in Seq(Nat) /\ Len(s) = n + 1
  <2>1. s = [k \in 1 .. n + 1 |-> s[k]]
    BY <1>3
  <2> HIDE DEF s
  <2>2. s \in [1 .. n + 1 -> Nat]
    BY <1>7, <2>1
  <2> QED BY <1>2, <2>2
<1> QED BY <1>4, <1>5, <1>8, <1>9 DEF E, n, s

\* A line starts by an offset exactly if as many line feeds are before it.
LEMMA StartsBy ==
  ASSUME NEW text \in Text, NEW o \in 0 .. Len(text), NEW k \in 1 .. Cardinality(Ends(text))
  PROVE  Position(Ends(text), k) <= o <=> k <= Cardinality(EndsBy(text, o))
<1> DEFINE E == Ends(text)
           B == EndsBy(text, o)
           p == Position(E, k)
           U == {j \in E : j <= p}
<1>1. /\ IsFiniteSet(E) /\ E \in SUBSET Nat /\ B \in SUBSET E /\ B = {i \in E : i <= o}
      /\ o \in Nat /\ IsFiniteSet(B) /\ Cardinality(B) \in Nat /\ k \in Nat
  BY EndsFinite
<1>2. p \in E /\ Cardinality(U) = k
  BY <1>1, PositionRank DEF Rank
<1>3. IsFiniteSet(U) /\ p \in U /\ p \in Nat
  BY <1>1, <1>2, FS_Subset
<1> HIDE DEF E, B, p
<1>4. CASE p <= o
  <2>1. ASSUME NEW j \in E, j <= p
        PROVE  j <= o
    <3>1. j \in Nat
      BY <1>1
    <3> QED BY <1>1, <1>3, <1>4, <2>1, <3>1
  <2>2. U \in SUBSET B
    BY <1>1, <2>1
  <2>3. Cardinality(U) <= Cardinality(B)
    BY <1>1, <2>2, FS_Subset
  <2> QED BY <1>2, <1>4, <2>3 DEF E, B, p
<1>5. CASE ~(p <= o)
  <2>1. ASSUME NEW j \in E, j <= o
        PROVE  j <= p
    <3>1. j \in Nat
      BY <1>1
    <3> QED BY <1>1, <1>3, <1>5, <2>1, <3>1
  <2>2. B \in SUBSET U /\ B # U
    BY <1>1, <1>3, <1>5, <2>1
  <2>3. Cardinality(B) <= Cardinality(U) /\ Cardinality(B) # Cardinality(U)
    BY <1>3, <2>2, FS_Subset
  <2>4. ~(k <= Cardinality(B))
    BY <1>1, <1>2, <2>3
  <2> QED BY <1>5, <2>4 DEF E, B, p
<1> QED BY <1>4, <1>5

\* The last line that starts by an offset begins after the last line feed before it.
LEMMA BeginIsStart ==
  ASSUME NEW text \in Text, NEW o \in 0 .. Len(text)
  PROVE  LET c == Cardinality(EndsBy(text, o)) IN
         /\ Starts(text)[c + 1] = Begin(text, o)
         /\ Begin(text, o) \in 0 .. o
<1> DEFINE E == Ends(text)
           B == EndsBy(text, o)
           c == Cardinality(B)
           n == Cardinality(E)
<1>1. /\ IsFiniteSet(E) /\ E \in SUBSET Nat /\ B \in SUBSET E /\ B = {i \in E : i <= o}
      /\ o \in Nat /\ IsFiniteSet(B) /\ c \in Nat /\ n \in Nat /\ c <= n
  BY EndsFinite
<1>2. CASE B = {}
  <2>1. c = 0
    BY <1>2, FS_EmptySet
  <2> QED BY <1>1, <1>2, <2>1, StartsEntries DEF Begin
<1>3. CASE B # {}
  <2> DEFINE p == Position(E, c)
             U == {j \in E : j <= p}
  <2>1. c \in 1 .. n
    BY <1>1, <1>3, FS_EmptySet, SMTT(30)
  <2>2. p \in E /\ Cardinality(U) = c
    BY <1>1, <2>1, PositionRank DEF Rank
  <2>3. p <= o
    <3>1. \A k \in 1 .. n : Position(E, k) <= o <=> k <= c
      BY StartsBy
    <3> HIDE DEF E, n, c
    <3> QED BY <1>1, <2>1, <3>1
  <2>4. ASSUME NEW j \in E, j <= p
         PROVE  j <= o
    <3>1. j \in Nat /\ p \in Nat
      BY <1>1, <2>2
    <3> HIDE DEF p
    <3> QED BY <1>1, <2>3, <2>4, <3>1
  <2>5. U \in SUBSET B
    <3> HIDE DEF p
    <3> QED BY <1>1, <2>4
  <2>6. U = B
    BY <1>1, <2>2, <2>5, FS_Subset
  <2>7. p \in B /\ \A j \in B : j <= p
    <3>1. \A j \in U : j \in E /\ j <= p
      OBVIOUS
    <3> HIDE DEF p, U, B
    <3> QED BY <1>1, <2>2, <2>3, <2>6, <3>1
  <2> HIDE DEF p, U
  <2>8. \A i \in B : (\A j \in B : j <= i) => i = p
    BY <1>1, <2>7
  <2>9. (CHOOSE i \in B : \A j \in B : j <= i) = p
    <3> HIDE DEF B
    <3> QED BY <2>7, <2>8
  <2>10. Begin(text, o) = p
    BY <1>3, <2>9 DEF Begin
  <2>11. Starts(text)[c + 1] = p
    BY <2>1, StartsEntries DEF p
  <2> QED BY <1>1, <2>3, <2>7, <2>10, <2>11
<1> QED BY <1>2, <1>3

\* The two sides agree on where an offset is.
LEMMA PositionsAgree ==
  ASSUME NEW text \in Text, NEW o \in 0 .. Len(text)
  PROVE  PositionAt(text, o) = ClientPosition(text, o)
<1> DEFINE E == Ends(text)
           B == EndsBy(text, o)
           c == Cardinality(B)
           n == Cardinality(E)
           s == Starts(text)
           L == {k \in DOMAIN s : s[k] <= o}
<1>1. o \in Nat /\ c \in Nat /\ n \in Nat /\ c <= n
  BY EndsFinite
<1>2. DOMAIN s = 1 .. (n + 1) /\ s[1] = 0 /\ \A k \in 1 .. n : s[k + 1] = Position(E, k)
  BY StartsEntries
<1>3. \A k \in 1 .. n : Position(E, k) <= o <=> k <= c
  BY StartsBy
<1> HIDE DEF E, B, c, n, s
<1>4. \A k \in 1 .. (n + 1) : s[k] <= o <=> k <= c + 1
  <2>1. s[1] <= o /\ 1 <= c + 1
    BY <1>1, <1>2
  <2>2. ASSUME NEW k \in 1 .. (n + 1), k # 1
        PROVE  s[k] <= o <=> k <= c + 1
    <3>1. k - 1 \in 1 .. n /\ k = (k - 1) + 1
      BY <1>1, <2>2
    <3>2. s[(k - 1) + 1] = Position(E, k - 1)
      BY <1>2, <3>1
    <3>3. s[k] <= o <=> k - 1 <= c
      BY <1>3, <3>1, <3>2
    <3> QED BY <1>1, <3>3
  <2> QED BY <2>1, <2>2
<1>5. L = 1 .. (c + 1)
  BY <1>1, <1>2, <1>4
<1>6. Cardinality(L) = c + 1
  <2>1. 1 \in Int /\ c + 1 \in Int /\ ~(1 > c + 1) /\ (c + 1) - 1 + 1 = c + 1
    BY <1>1
  <2>2. Cardinality(1 .. (c + 1)) = c + 1
    BY <2>1, FS_Interval
  <2> QED BY <1>5, <2>2
<1>7. Starts(text)[c + 1] = Begin(text, o)
  BY BeginIsStart DEF c, B
<1>8. ~(o > Len(text)) /\ Cardinality(L) - 1 = c
  BY <1>1, <1>6 DEF Text
<1>9. PositionAt(text, o) = [line |-> c, character |-> Utf16Len(Slice(text, s[c + 1], o))]
  BY <1>8 DEF PositionAt, s, L
<1>10. ClientPosition(text, o) = [line |-> c, character |-> Utf16Len(Slice(text, Begin(text, o), o))]
  BY DEF ClientPosition, Begin, EndsBy, c, B
<1> QED BY <1>7, <1>9, <1>10 DEF s

\* What is between two offsets.
LEMMA SliceFacts ==
  ASSUME NEW text \in Text, NEW b \in Nat, NEW n \in Nat, b + n <= Len(text)
  PROVE  LET s == SubSeq(text, b + 1, b + n) IN
         /\ s \in Text /\ Len(s) = n /\ DOMAIN s = 1 .. n
         /\ \A x \in 1 .. n : s[x] = text[b + x]
         /\ \A x \in 1 .. n : SubSeq(s, 1, x) = SubSeq(text, b + 1, b + x)
<1> DEFINE s == SubSeq(text, b + 1, b + n)
<1>1. Len(text) \in Nat /\ DOMAIN text = 1 .. Len(text)
  BY DEF Text
<1>2. s \in Text /\ Len(s) = n /\ DOMAIN s = 1 .. n
  BY <1>1 DEF Text
<1>3. \A x \in 1 .. n : s[x] = text[b + x]
  BY <1>1 DEF Text
<1>4. ASSUME NEW x \in 1 .. n
      PROVE  SubSeq(s, 1, x) = SubSeq(text, b + 1, b + x)
  <2> DEFINE t == SubSeq(s, 1, x)
             u == SubSeq(text, b + 1, b + x)
  <2>1. t \in Seq(STRING) /\ Len(t) = x /\ \A y \in 1 .. x : t[y] = s[y]
    <3> HIDE DEF s
    <3> QED BY <1>2 DEF Text
  <2>2. u \in Seq(STRING) /\ Len(u) = x /\ \A y \in 1 .. x : u[y] = text[b + y]
    BY <1>1 DEF Text
  <2>3. \A y \in 1 .. x : s[y] = text[b + y]
    BY <1>3
  <2> HIDE DEF s, t, u
  <2>4. \A y \in 1 .. x : t[y] = u[y]
    BY <2>1, <2>2, <2>3
  <2>5. t = u
    BY <2>1, <2>2, <2>4, SeqEqual
  <2> QED BY <2>5 DEF t, u, s
<1> QED BY <1>2, <1>3, <1>4

\* A longer start of a line is wider.
LEMMA WidthGrows ==
  ASSUME NEW text \in Text, NEW b \in Nat, NEW i \in Nat, NEW j \in Nat, i < j,
         b + j <= Len(text)
  PROVE  /\ Utf16Len(SubSeq(text, b + 1, b + i)) \in Nat
         /\ Utf16Len(SubSeq(text, b + 1, b + i)) < Utf16Len(SubSeq(text, b + 1, b + j))
<1> DEFINE s == SubSeq(text, b + 1, b + i)
           t == SubSeq(text, b + 1, b + j)
           I == {x \in 1 .. i : text[b + x] \in Wide}
           J == {x \in 1 .. j : text[b + x] \in Wide}
<1>1. b + i <= Len(text) /\ Len(text) \in Nat
  BY DEF Text
<1>2. Len(s) = i /\ DOMAIN s = 1 .. i /\ \A x \in 1 .. i : s[x] = text[b + x]
  BY <1>1, SliceFacts, SMTT(30)
<1>3. Len(t) = j /\ DOMAIN t = 1 .. j /\ \A x \in 1 .. j : t[x] = text[b + x]
  BY SliceFacts
<1> HIDE DEF s, t
<1>4. Utf16Len(s) = i + Cardinality(I)
  <2>1. {x \in DOMAIN s : s[x] \in Wide} = I
    BY <1>2
  <2> QED BY <1>2, <2>1 DEF Utf16Len
<1>5. Utf16Len(t) = j + Cardinality(J)
  <2>1. {x \in DOMAIN t : t[x] \in Wide} = J
    BY <1>3
  <2> QED BY <1>3, <2>1 DEF Utf16Len
<1>6. IsFiniteSet(J) /\ Cardinality(J) \in Nat /\ Cardinality(I) \in Nat
  <2>1. I \in SUBSET (1 .. i) /\ J \in SUBSET (1 .. j)
    OBVIOUS
  <2> HIDE DEF I, J
  <2> QED BY <2>1, SomeOfInterval
<1>7. I \in SUBSET J
  <2>1. \A x \in 1 .. i : x \in 1 .. j
    OBVIOUS
  <2> QED BY <2>1
<1>8. Cardinality(I) <= Cardinality(J)
  BY <1>6, <1>7, FS_Subset
<1> HIDE DEF I, J
<1> QED BY <1>4, <1>5, <1>6, <1>8 DEF s, t

\* A caret is inside its line.
LEMMA CaretInLine ==
  ASSUME NEW text \in Text, Conforming(text), NEW o \in Caret(text)
  PROVE  LET c  == Cardinality(EndsBy(text, o))
             s  == Starts(text)
             le == LineEnd(text, s[c + 1], IF c + 1 < Len(s) THEN s[c + 2] ELSE Len(text))
         IN  c + 1 <= Len(s) /\ le \in Nat /\ o <= le /\ le <= Len(text)
<1> DEFINE E == Ends(text)
           B == EndsBy(text, o)
           c == Cardinality(B)
           n == Cardinality(E)
           s == Starts(text)
           b == s[c + 1]
           e == IF c + 1 < Len(s) THEN s[c + 2] ELSE Len(text)
<1>1. o \in 0 .. Len(text) /\ ~Splits(text, o) /\ Len(text) \in Nat /\ DOMAIN text = 1 .. Len(text)
  BY DEF Caret, Text
<1>2. /\ IsFiniteSet(E) /\ E \in SUBSET (1 .. Len(text)) /\ E \in SUBSET Nat
      /\ B = {i \in E : i <= o} /\ c \in Nat /\ n \in Nat /\ c <= n
  BY <1>1, EndsFinite
<1>3. o \in Nat /\ o <= Len(text) /\ Len(text) \in Nat
  BY <1>1
<1>4. Len(s) = n + 1 /\ \A k \in 1 .. n : s[k + 1] = Position(E, k)
  BY StartsEntries
<1>5. \A k \in 1 .. n : Position(E, k) \in E /\ (Position(E, k) <= o <=> k <= c)
  BY <1>1, <1>2, StartsBy, PositionRank
<1>6. b \in 0 .. o /\ b = Begin(text, o)
  BY <1>1, BeginIsStart
<1>7. b = o \/ ~(o \in E)
  <2>1. CASE o \in E
    <3>1. o \in B /\ \A j \in B : j <= o
      BY <1>1, <1>2, <2>1
    <3>2. \A i \in B : (\A j \in B : j <= i) => i = o
      BY <1>1, <1>2, <3>1
    <3>3. (CHOOSE i \in B : \A j \in B : j <= i) = o
      <4> HIDE DEF B
      <4> QED BY <3>1, <3>2
    <3> QED BY <1>6, <3>1, <3>3 DEF Begin
  <2> QED BY <2>1
<1> HIDE DEF E, B, c, n, s, b
<1>8. CASE c < n
  <2>1. c + 1 \in 1 .. n /\ c + 1 < Len(s) /\ c + 2 = (c + 1) + 1
    BY <1>2, <1>4, <1>8
  <2>2. e = Position(E, c + 1)
    BY <1>4, <2>1
  <2>3. e \in E /\ e \in 1 .. Len(text) /\ ~(e <= o)
    <3>1. ~(c + 1 <= c)
      BY <1>2
    <3>2. Position(E, c + 1) \in E /\ ~(Position(E, c + 1) <= o)
      BY <1>5, <2>1, <3>1
    <3> HIDE DEF e
    <3> QED BY <1>2, <2>2, <3>2
  <2>4. text[e] = LF
    BY <2>3 DEF E, Ends
  <2> HIDE DEF e
  <2>5. LineEnd(text, b, e) = IF e - 1 > b /\ text[e - 1] = CR THEN (e - 1) - 1 ELSE e - 1
    BY <1>1, <1>6, <2>3, <2>4 DEF LineEnd
  <2>6. ~(e - 1 = o /\ e - 1 > b /\ text[e - 1] = CR)
    BY <1>1, <1>6, <2>3, <2>4 DEF Splits
  <2>7. LineEnd(text, b, e) \in Nat /\ o <= LineEnd(text, b, e) /\ LineEnd(text, b, e) <= Len(text)
    BY <1>1, <1>6, <2>3, <2>5, <2>6
  <2> QED BY <1>2, <1>4, <2>1, <2>7 DEF b, c, B, e, s
<1>9. CASE ~(c < n)
  <2>1. ~(c + 1 < Len(s)) /\ e = Len(text)
    BY <1>2, <1>4, <1>9
  <2>2. Len(text) > b => text[Len(text)] # LF
    <3> SUFFICES ASSUME Len(text) > b, text[Len(text)] = LF
                 PROVE  FALSE
      OBVIOUS
    <3>1. Len(text) \in E
      BY <1>1, <1>6 DEF E, Ends
    <3>2. B = E
      <4>1. B \in SUBSET E /\ Cardinality(B) = Cardinality(E)
        BY <1>2, <1>9 DEF c, n
      <4> QED BY <1>2, <4>1, FS_Subset
    <3>3. Len(text) <= o
      BY <1>2, <3>1, <3>2
    <3>4. o = Len(text)
      BY <1>3, <3>3
    <3> QED BY <1>1, <1>6, <1>7, <3>1, <3>4
  <2>3. Len(text) > b => text[Len(text)] # CR
    <3> SUFFICES ASSUME Len(text) > b, text[Len(text)] = CR
                 PROVE  FALSE
      OBVIOUS
    <3>1. Len(text) \in DOMAIN text /\ Len(text) + 1 \notin DOMAIN text
      BY <1>1, <1>6
    <3>2. Symbol(text, Len(text) + 1) = "end of text"
      BY <3>1 DEF Symbol
    <3> QED BY <3>1, <3>2 DEF Conforming, LF
  <2>4. LineEnd(text, b, Len(text)) = Len(text)
    BY <1>1, <2>2, <2>3 DEF LineEnd
  <2> HIDE DEF e
  <2> QED BY <1>1, <1>2, <1>4, <2>1, <2>4 DEF b, c, B, e, s
<1> QED BY <1>8, <1>9

\* The server finds the caret where the client has it.
LEMMA CaretIsFound ==
  ASSUME NEW text \in Text, Conforming(text), NEW o \in Caret(text)
  PROVE  OffsetAt(text, ClientPosition(text, o)) = o
<1> DEFINE c == Cardinality(EndsBy(text, o))
           s == Starts(text)
           b == s[c + 1]
           le == LineEnd(text, b, IF c + 1 < Len(s) THEN s[c + 2] ELSE Len(text))
           line == Slice(text, b, le)
           W(i) == Utf16Len(SubSeq(text, b + 1, b + i))
           at == ClientPosition(text, o)
           I == {i \in DOMAIN line : Utf16Len(SubSeq(line, 1, i)) <= W(o - b)}
<1>1. o \in 0 .. Len(text) /\ Len(text) \in Nat
  BY DEF Caret, Text
<1>2. c \in Nat /\ b \in 0 .. o /\ b = Begin(text, o)
  BY <1>1, EndsFinite, BeginIsStart
<1>3. c + 1 <= Len(s) /\ le \in Nat /\ o <= le /\ le <= Len(text)
  BY CaretInLine
<1>4. Len(s) \in Nat
  BY StartsEntries
<1> HIDE DEF c, s, b, le
<1>5. at = [line |-> c, character |-> W(o - b)]
  <2>1. b + (o - b) = o
    BY <1>1, <1>2
  <2>2. at = [line |-> c, character |-> Utf16Len(SubSeq(text, Begin(text, o) + 1, o))]
    BY DEF ClientPosition, Begin, EndsBy, Slice, c
  <2>3. W(o - b) = Utf16Len(SubSeq(text, b + 1, o))
    BY <2>1
  <2> QED BY <1>2, <2>2, <2>3
<1>6. OffsetAt(text, at) = b + Cardinality(I)
  <2>1. ~(c + 1 > Len(s)) /\ (c + 1) + 1 = c + 2
    BY <1>2, <1>3, <1>4
  <2> HIDE DEF at, W
  <2>2. at.line + 1 = c + 1 /\ at.character = W(o - b)
    BY <1>5
  <2>3. OffsetAt(text, at) =
           IF c + 1 > Len(s) THEN Len(text)
           ELSE b + Cardinality({i \in DOMAIN line : Utf16Len(SubSeq(line, 1, i)) <= at.character})
    BY <2>1, <2>2 DEF OffsetAt, s, b, le
  <2> QED BY <2>1, <2>2, <2>3
<1>7. /\ DOMAIN line = 1 .. (le - b)
      /\ \A i \in 1 .. (le - b) : SubSeq(line, 1, i) = SubSeq(text, b + 1, b + i)
  <2>1. b \in Nat /\ le - b \in Nat /\ b + (le - b) = le
    BY <1>1, <1>2, <1>3
  <2>2. line = SubSeq(text, b + 1, b + (le - b)) /\ b + (le - b) <= Len(text)
    BY <1>3, <2>1 DEF Slice
  <2> DEFINE n == le - b
             t == SubSeq(text, b + 1, b + n)
  <2>3. b \in Nat /\ n \in Nat /\ b + n <= Len(text) /\ line = t
    BY <2>1, <2>2
  <2> HIDE DEF line, b, le, n
  <2>4. DOMAIN t = 1 .. n /\ \A i \in 1 .. n : SubSeq(t, 1, i) = SubSeq(text, b + 1, b + i)
    BY <2>3, SliceFacts
  <2> HIDE DEF t
  <2> QED BY <2>3, <2>4 DEF n
<1>8. ASSUME NEW i \in 1 .. (le - b)
      PROVE  W(i) <= W(o - b) <=> i <= o - b
  <2>1. /\ i \in Nat /\ o - b \in Nat /\ b \in Nat /\ b + i <= Len(text)
        /\ b + (o - b) <= Len(text)
    BY <1>1, <1>2, <1>3
  <2>2. i < o - b => W(i) < W(o - b) /\ W(i) \in Nat
    BY <2>1, WidthGrows
  <2>3. o - b < i => W(o - b) < W(i) /\ W(o - b) \in Nat
    BY <2>1, WidthGrows
  <2>4. \A x \in Nat : b + x <= Len(text) => W(x) \in Int
    <3> SUFFICES ASSUME NEW x \in Nat, b + x <= Len(text)
                 PROVE  W(x) \in Int
      OBVIOUS
    <3> DEFINE t == SubSeq(text, b + 1, b + x)
               J == {y \in DOMAIN t : t[y] \in Wide}
    <3>1. Len(t) = x /\ DOMAIN t = 1 .. x
      BY <2>1, SliceFacts
    <3>2. J \in SUBSET (1 .. x)
      BY <3>1
    <3> HIDE DEF t, J
    <3>3. Cardinality(J) \in Nat
      BY <3>2, SomeOfInterval
    <3>4. Utf16Len(t) \in Int
      BY <3>1, <3>3 DEF Utf16Len, J
    <3> QED BY <3>4 DEF t
  <2>5. W(i) \in Int /\ W(o - b) \in Int
    BY <2>1, <2>4
  <2> HIDE DEF W
  <2> QED BY <2>1, <2>2, <2>3, <2>5
<1>9. I = 1 .. (o - b)
  <2>1. I = {i \in 1 .. (le - b) : W(i) <= W(o - b)}
    BY <1>7
  <2> HIDE DEF I, W
  <2>2. I = {i \in 1 .. (le - b) : i <= o - b}
    BY <1>8, <2>1
  <2> QED BY <1>1, <1>2, <1>3, <2>2
<1>10. Cardinality(I) = o - b
  <2>1. 1 \in Int /\ o - b \in Int /\ (IF 1 > o - b THEN 0 ELSE (o - b) - 1 + 1) = o - b
    BY <1>1, <1>2
  <2>2. Cardinality(1 .. (o - b)) = o - b
    BY <2>1, FS_Interval
  <2> QED BY <1>9, <2>2
<1> QED BY <1>1, <1>2, <1>6, <1>10

\* A notification of one change, and one of two.
LEMMA OneChange ==
  ASSUME NEW text, NEW change
  PROVE  ApplyChanges(text, <<change>>) = ApplyChange(text, change)
<1> DEFINE cs == <<change>>
           base == [ok |-> TRUE, text |-> text]
           AllApply(g) == g = [n \in 0 .. Len(cs) |->
                                 IF n = 0 THEN base
                                 ELSE IF g[n - 1].ok THEN ApplyChange(g[n - 1].text, cs[n])
                                 ELSE g[n - 1]]
           f == CHOOSE g : AllApply(g)
           h == [n \in 0 .. 1 |-> IF n = 0 THEN base ELSE ApplyChange(text, change)]
<1>1. Len(cs) = 1 /\ cs[1] = change
  OBVIOUS
<1>2. ApplyChanges(text, cs) = f[Len(cs)]
  BY DEF ApplyChanges
<1> HIDE DEF cs
<1>3. AllApply(h)
  <2>1. \A n \in 0 .. 1 : n = 0 \/ (n = 1 /\ n - 1 = 0)
    OBVIOUS
  <2>2. h[0] = base /\ base.ok = TRUE /\ base.text = text
    OBVIOUS
  <2> QED BY <1>1, <2>1, <2>2
<1>4. AllApply(f)
  BY <1>3
<1> HIDE DEF f
<1>5. f[0] = base
  BY <1>1, <1>4
<1>6. f[1] = ApplyChange(text, change)
  BY <1>1, <1>4, <1>5
<1> QED BY <1>1, <1>2, <1>6 DEF cs

LEMMA TwoChanges ==
  ASSUME NEW text, NEW first, NEW second, NEW between,
         ApplyChange(text, first) = [ok |-> TRUE, text |-> between]
  PROVE  ApplyChanges(text, <<first, second>>) = ApplyChange(between, second)
<1> DEFINE cs == <<first, second>>
           base == [ok |-> TRUE, text |-> text]
           one == ApplyChange(text, first)
           two == ApplyChange(between, second)
           AllApply(g) == g = [n \in 0 .. Len(cs) |->
                                 IF n = 0 THEN base
                                 ELSE IF g[n - 1].ok THEN ApplyChange(g[n - 1].text, cs[n])
                                 ELSE g[n - 1]]
           f == CHOOSE g : AllApply(g)
           h == [n \in 0 .. 2 |-> IF n = 0 THEN base ELSE IF n = 1 THEN one ELSE two]
<1>1. Len(cs) = 2 /\ cs[1] = first /\ cs[2] = second
  OBVIOUS
<1>2. ApplyChanges(text, cs) = f[Len(cs)]
  BY DEF ApplyChanges
<1> HIDE DEF cs
<1>3. AllApply(h)
  <2>1. \A n \in 0 .. 2 : n = 0 \/ (n = 1 /\ n - 1 = 0) \/ (n = 2 /\ n - 1 = 1)
    OBVIOUS
  <2>2. h[0] = base /\ h[1] = one /\ base.ok = TRUE /\ base.text = text
    OBVIOUS
  <2>3. one.ok = TRUE /\ one.text = between
    OBVIOUS
  <2> QED BY <1>1, <2>1, <2>2, <2>3
<1>4. AllApply(f)
  BY <1>3
<1> HIDE DEF f
<1>5. f[0] = base
  BY <1>1, <1>4
<1>6. f[1] = one
  <2> HIDE DEF one
  <2>1. f[1] = IF f[0].ok THEN ApplyChange(f[0].text, cs[1]) ELSE f[0]
    BY <1>1, <1>4
  <2> QED BY <1>1, <1>5, <2>1 DEF one
<1>7. f[2] = two
  <2> HIDE DEF two
  <2>1. f[2] = IF f[1].ok THEN ApplyChange(f[1].text, cs[2]) ELSE f[1]
    BY <1>1, <1>4
  <2>2. f[1].ok = TRUE /\ f[1].text = between
    BY <1>6
  <2> QED BY <1>1, <2>1, <2>2 DEF two
<1> QED BY <1>1, <1>2, <1>7 DEF cs

\* What the server makes of one change is what the client made of it.
LEMMA ChangeIsApplied ==
  ASSUME NEW text \in Text, Conforming(text), NEW start \in Caret(text), NEW end \in Caret(text),
         start <= end, NEW new
  PROVE  ApplyChange(text, ClientChange(text, start, end, new)) =
             [ok |-> TRUE, text |-> Replace(text, start, end, new)]
<1> DEFINE change == ClientChange(text, start, end, new)
<1>1. /\ change.whole = FALSE /\ change.text = new
      /\ change.range.start = ClientPosition(text, start)
      /\ change.range.end = ClientPosition(text, end)
  BY DEF ClientChange
<1>2. /\ OffsetAt(text, ClientPosition(text, start)) = start
      /\ OffsetAt(text, ClientPosition(text, end)) = end
  BY CaretIsFound
<1>3. start \in 0 .. Len(text) /\ end \in 0 .. Len(text)
  BY DEF Caret
<1>4. /\ PositionAt(text, start) = ClientPosition(text, start)
      /\ PositionAt(text, end) = ClientPosition(text, end)
  BY <1>3, PositionsAgree
<1> HIDE DEF change
<1>5. ApplyChange(text, change) = [ok |-> TRUE, text |-> Replace(text, start, end, new)]
  BY <1>1, <1>2, <1>4 DEF ApplyChange
<1> QED BY <1>5 DEF change

LEMMA ReplaceType ==
  ASSUME NEW text \in Text, NEW start \in 0 .. Len(text), NEW end \in 0 .. Len(text), NEW new \in Text
  PROVE  Replace(text, start, end, new) \in Text
<1>1. Len(text) \in Nat /\ start \in Nat /\ end \in Nat
  BY DEF Text
<1>2. SubSeq(text, 1, start) \in Text
  BY <1>1 DEF Text
<1>3. SubSeq(text, end + 1, Len(text)) \in Text
  BY <1>1 DEF Text
<1> QED BY <1>2, <1>3 DEF Replace, Text

-----------------------------------------------------------------------------
\* The buffer is the screen, both are texts, and versions are numbers.
BufferInv ==
    /\ client \in Text
    /\ document.text = client
    /\ document.version \in Nat

LEMMA TypedIsText == Texts \subseteq Text /\ Typed \subseteq Text
  BY TextAssumption DEF Text

\* A version that follows and changes the text takes give the document their result.
LEMMA ChangeIsTaken ==
  ASSUME document.version \in Nat, NEW changes, NEW text,
         ApplyChanges(document.text, changes) = [ok |-> TRUE, text |-> text],
         document' = Changed(document, document.version + 1, changes)
  PROVE  document'.text = text /\ document'.version \in Nat
<1>1. document' = NewDocument(text, document.version + 1)
  BY DEF Changed
<1> QED BY <1>1 DEF NewDocument

LEMMA EditKeepsBuffer ==
  ASSUME BufferInv, EditOnce
  PROVE  BufferInv'
<1>1. PICK start \in Caret(client), end \in Caret(client), new \in Typed :
        /\ start <= end
        /\ client' = Replace(client, start, end, new)
        /\ document' = Changed(document, document.version + 1,
                               <<ClientChange(client, start, end, new)>>)
  BY DEF EditOnce
<1>2. client \in Text /\ document.text = client /\ document.version \in Nat /\ Conforming(client)
  BY DEF BufferInv, EditOnce
<1>3. ApplyChanges(document.text, <<ClientChange(client, start, end, new)>>) =
        [ok |-> TRUE, text |-> client']
  <2> DEFINE change == ClientChange(client, start, end, new)
  <2>1. ApplyChange(client, change) = [ok |-> TRUE, text |-> client']
    BY <1>1, <1>2, ChangeIsApplied
  <2> HIDE DEF change
  <2>2. ApplyChanges(client, <<change>>) = ApplyChange(client, change)
    BY OneChange
  <2> QED BY <1>2, <2>1, <2>2 DEF change
<1>4. document'.text = client' /\ document'.version \in Nat
  BY <1>1, <1>2, <1>3, ChangeIsTaken
<1>5. client' \in Text
  BY <1>1, <1>2, ReplaceType, TypedIsText DEF Caret
<1> QED BY <1>4, <1>5 DEF BufferInv

LEMMA EditTwiceKeepsBuffer ==
  ASSUME BufferInv, EditTwice
  PROVE  BufferInv'
<1>1. PICK at \in Caret(client), new \in Typed :
        LET between == Replace(client, at, at, new)
        IN  /\ Conforming(between)
            /\ \E start, end \in Caret(between) :
                  /\ start <= end
                  /\ client' = Replace(between, start, end, <<>>)
                  /\ document' = Changed(document, document.version + 1,
                                         <<ClientChange(client, at, at, new),
                                           ClientChange(between, start, end, <<>>)>>)
  BY DEF EditTwice
<1> DEFINE between == Replace(client, at, at, new)
<1>2. PICK start \in Caret(between), end \in Caret(between) :
        /\ start <= end
        /\ client' = Replace(between, start, end, <<>>)
        /\ document' = Changed(document, document.version + 1,
                               <<ClientChange(client, at, at, new),
                                 ClientChange(between, start, end, <<>>)>>)
  BY <1>1
<1>3. client \in Text /\ document.text = client /\ document.version \in Nat /\ Conforming(client)
  BY DEF BufferInv, EditTwice
<1>4. between \in Text /\ Conforming(between)
  BY <1>1, <1>3, ReplaceType, TypedIsText DEF Caret
<1>5. at <= at
  BY DEF Caret
<1>6. ApplyChange(client, ClientChange(client, at, at, new)) = [ok |-> TRUE, text |-> between]
  BY <1>3, <1>5, ChangeIsApplied
<1> HIDE DEF between
<1>7. ApplyChange(between, ClientChange(between, start, end, <<>>)) = [ok |-> TRUE, text |-> client']
  BY <1>2, <1>4, ChangeIsApplied
<1>8. ApplyChanges(document.text, <<ClientChange(client, at, at, new),
                                    ClientChange(between, start, end, <<>>)>>) =
        [ok |-> TRUE, text |-> client']
  <2> DEFINE first == ClientChange(client, at, at, new)
             second == ClientChange(between, start, end, <<>>)
  <2>1. ApplyChange(client, first) = [ok |-> TRUE, text |-> between]
    BY <1>6
  <2>2. ApplyChange(between, second) = [ok |-> TRUE, text |-> client']
    BY <1>7
  <2> HIDE DEF first, second
  <2>3. ApplyChanges(client, <<first, second>>) = ApplyChange(between, second)
    BY <2>1, TwoChanges
  <2> QED BY <1>3, <2>2, <2>3 DEF first, second
<1>9. document'.text = client' /\ document'.version \in Nat
  BY <1>2, <1>3, <1>8, ChangeIsTaken
<1>10. client' \in Text
  <2>1. <<>> \in Text
    BY DEF Text
  <2> QED BY <1>2, <1>4, <2>1, ReplaceType DEF Caret
<1> QED BY <1>9, <1>10 DEF BufferInv

LEMMA RewriteKeepsBuffer ==
  ASSUME BufferInv, Rewrite
  PROVE  BufferInv'
<1>1. PICK new \in Typed :
        /\ client' = new
        /\ document' = Changed(document, document.version + 1, <<WholeDocument(new)>>)
  BY DEF Rewrite
<1>2. WholeDocument(new).whole = TRUE /\ WholeDocument(new).text = new
  BY DEF WholeDocument
<1>3. ApplyChanges(document.text, <<WholeDocument(new)>>) = [ok |-> TRUE, text |-> new]
  BY <1>2, OneChange DEF ApplyChange
<1>4. document'.text = new /\ document'.version \in Nat
  BY <1>1, <1>3, ChangeIsTaken DEF BufferInv
<1> QED BY <1>1, <1>4, TypedIsText DEF BufferInv

\* Whatever an editor types, cuts or rewrites, in files of any length, one or
\* two edits to a notification, the text the server answers from is the text on
\* screen: apply_changes reads every range in the text the changes before it
\* left, and LineIndex::offset finds the place the client counted.  The client
\* is one that points at no place between CR and LF and edits no text with a
\* lone CR.
THEOREM TheBufferIsTheScreen == TextSpec => []BufferFollowsClient
<1>1. TextInit => BufferInv
  <2> SUFFICES ASSUME TextInit PROVE BufferInv
    OBVIOUS
  <2>1. client \in Text
    BY TypedIsText DEF TextInit
  <2>2. document.text = client /\ document.version = 1
    BY DEF TextInit, NewDocument
  <2> QED BY <2>1, <2>2 DEF BufferInv
<1>2. BufferInv /\ [TextNext]_textVars => BufferInv'
  <2> SUFFICES ASSUME BufferInv, [TextNext]_textVars PROVE BufferInv'
    OBVIOUS
  <2>1. CASE EditOnce
    BY <2>1, EditKeepsBuffer
  <2>2. CASE EditTwice
    BY <2>2, EditTwiceKeepsBuffer
  <2>3. CASE Rewrite
    BY <2>3, RewriteKeepsBuffer
  <2>4. CASE UNCHANGED textVars
    BY <2>4 DEF textVars, BufferInv
  <2> QED BY <2>1, <2>2, <2>3, <2>4 DEF TextNext
<1>3. BufferInv => BufferFollowsClient
  BY DEF BufferInv, BufferFollowsClient
<1> QED BY <1>1, <1>2, <1>3, PTL DEF TextSpec

-----------------------------------------------------------------------------
(***************************************************************************)
(* Visits of a build.                                                      *)
(*                                                                         *)
(* A visit of a path is defined by what visits inside it add, while one    *)
(* more file is being visited: a function on the sets of files being       *)
(* visited, that unfolds because those sets only grow.                     *)
(***************************************************************************)

\* What a disk is: some of its files have lines, each path leads to one of them or to none.
IsDisk(disk) ==
  /\ IsFiniteSet(DOMAIN disk.lines) /\ NoFile \notin DOMAIN disk.lines
  /\ \A p \in DOMAIN disk.canonical : disk.canonical[p] \in DOMAIN disk.lines \cup {NoFile}

VisitRow(disk, visits, active) ==
  [path \in DOMAIN disk.canonical |->
     VisitFile(disk, visits[active \cup {disk.canonical[path]}], active, disk.canonical[path])]

IsVisits(visits, disk) ==
  \A active \in SUBSET DOMAIN disk.lines : visits[active] = VisitRow(disk, visits, active)

LEMMA VisitStays ==
  ASSUME NEW disk, NEW active, NEW file, file = NoFile \/ file \in active, NEW v, NEW w
  PROVE  VisitFile(disk, v, active, file) = VisitFile(disk, w, active, file)
BY DEF VisitFile

LEMMA RowsAgree ==
  ASSUME NEW disk, IsDisk(disk), NEW active \in SUBSET DOMAIN disk.lines, NEW v, NEW w,
         \A x \in DOMAIN disk.lines \ active : v[active \cup {x}] = w[active \cup {x}]
  PROVE  VisitRow(disk, v, active) = VisitRow(disk, w, active)
<1>1. ASSUME NEW path \in DOMAIN disk.canonical
      PROVE  VisitFile(disk, v[active \cup {disk.canonical[path]}], active, disk.canonical[path])
           = VisitFile(disk, w[active \cup {disk.canonical[path]}], active, disk.canonical[path])
  <2> SUFFICES ASSUME NEW file, file = disk.canonical[path]
               PROVE  VisitFile(disk, v[active \cup {file}], active, file)
                    = VisitFile(disk, w[active \cup {file}], active, file)
    OBVIOUS
  <2>1. CASE file = NoFile \/ file \in active
    BY <2>1, VisitStays
  <2>2. CASE file # NoFile /\ file \notin active
    <3>1. file \in DOMAIN disk.lines \ active
      BY <2>2 DEF IsDisk
    <3>2. v[active \cup {file}] = w[active \cup {file}]
      BY <3>1
    <3> QED
      BY <3>2
  <2> QED
    BY <2>1, <2>2
<1> QED
  BY <1>1 DEF VisitRow

LEMMA VisitsUnfold ==
  ASSUME NEW disk, IsDisk(disk)
  PROVE  \E visits : IsVisits(visits, disk) /\ Visits(disk) = visits[{}]
<1> DEFINE D == DOMAIN disk.lines
           Following(v) == [A \in SUBSET D |-> VisitRow(disk, v, A)]
           Fits(v, n) == \A A \in SUBSET D : Cardinality(D \ A) <= n => v[A] = VisitRow(disk, v, A)
           T == {n \in Nat : \E v : Fits(v, n)}
<1>0. /\ IsFiniteSet(D) /\ \A A \in SUBSET D : Cardinality(D \ A) \in Nat
      /\ \A A \in SUBSET D : \A x \in D \ A : A \cup {x} \in SUBSET D
      /\ \A A \in SUBSET D : \A x \in D \ A : Cardinality(D \ (A \cup {x})) = Cardinality(D \ A) - 1
  BY FewerLeft, FS_Subset, FS_CardinalityType DEF IsDisk
<1>1. \A v : \A A \in SUBSET D : Following(v)[A] = VisitRow(disk, v, A)
  OBVIOUS
<1> HIDE DEF D, Following
<1>2. 0 \in T
  <2>1. Fits(Following(<<>>), 0)
    <3> SUFFICES ASSUME NEW A \in SUBSET D, Cardinality(D \ A) <= 0
                 PROVE  Following(<<>>)[A] = VisitRow(disk, Following(<<>>), A)
      OBVIOUS
    <3>1. ASSUME NEW x \in D \ A PROVE FALSE
      <4>1. Cardinality(D \ A) \in Nat /\ Cardinality(D \ (A \cup {x})) \in Nat
        BY <1>0
      <4>2. Cardinality(D \ (A \cup {x})) = Cardinality(D \ A) - 1
        BY <1>0
      <4> QED
        BY <4>1, <4>2
    <3>2. VisitRow(disk, <<>>, A) = VisitRow(disk, Following(<<>>), A)
      BY <3>1, RowsAgree DEF D
    <3> QED
      BY <3>2, <1>1
  <2> QED
    BY <2>1
<1>3. ASSUME NEW n \in Nat, n \in T PROVE n + 1 \in T
  <2>1. PICK v : Fits(v, n)
    BY <1>3
  <2>2. Fits(Following(v), n + 1)
    <3> SUFFICES ASSUME NEW A \in SUBSET D, Cardinality(D \ A) <= n + 1
                 PROVE  Following(v)[A] = VisitRow(disk, Following(v), A)
      OBVIOUS
    <3>1. ASSUME NEW x \in D \ A PROVE v[A \cup {x}] = Following(v)[A \cup {x}]
      <4>1. A \cup {x} \in SUBSET D /\ Cardinality(D \ (A \cup {x})) <= n
        BY <1>0
      <4>2. v[A \cup {x}] = VisitRow(disk, v, A \cup {x})
        BY <2>1, <4>1
      <4> QED
        BY <1>1, <4>1, <4>2
    <3>2. VisitRow(disk, v, A) = VisitRow(disk, Following(v), A)
      BY <3>1, RowsAgree DEF D
    <3> QED
      BY <3>2, <1>1
  <2>3. \E u : Fits(u, n + 1)
    <3> HIDE DEF Fits
    <3> QED
      BY <2>2
  <2> QED
    BY <2>3
<1>4. Cardinality(D) \in T
  <2> HIDE DEF T
  <2>1. Nat \subseteq T
    BY <1>2, <1>3, SetInduction
  <2> QED
    BY <2>1, <1>0, FS_CardinalityType
<1>5. PICK v : Fits(v, Cardinality(D))
  BY <1>4
<1>6. \A A \in SUBSET D : v[A] = VisitRow(disk, v, A)
  <2> SUFFICES ASSUME NEW A \in SUBSET D PROVE v[A] = VisitRow(disk, v, A)
    OBVIOUS
  <2>1. Cardinality(D \ A) <= Cardinality(D)
    BY <1>0, FS_Subset
  <2> QED
    BY <1>5, <2>1
<1> DEFINE w == Following(v)
<1>7. \A A \in SUBSET D : w[A] = v[A]
  BY <1>1, <1>6
<1>8. \A A \in SUBSET D : VisitRow(disk, v, A) = VisitRow(disk, w, A)
  <2> SUFFICES ASSUME NEW A \in SUBSET D PROVE VisitRow(disk, v, A) = VisitRow(disk, w, A)
    OBVIOUS
  <2>1. \A x \in D \ A : v[A \cup {x}] = w[A \cup {x}]
    BY <1>0, <1>7
  <2> HIDE DEF w
  <2> QED
    BY <2>1, RowsAgree DEF D
<1>9. w = [A \in SUBSET D |-> VisitRow(disk, w, A)]
  BY <1>8 DEF Following
<1> DEFINE c == CHOOSE u : u = [A \in SUBSET D |-> VisitRow(disk, u, A)]
<1>10. c = [A \in SUBSET D |-> VisitRow(disk, c, A)]
  <2> HIDE DEF w
  <2> QED
    BY <1>9
<1>11. Visits(disk) = c[{}]
  BY DEF Visits, VisitRow, D
<1>12. IsVisits(c, disk)
  <2> SUFFICES ASSUME NEW A \in SUBSET D PROVE c[A] = VisitRow(disk, c, A)
    BY DEF IsVisits, D
  <2> HIDE DEF c
  <2> QED
    BY <1>10
<1> QED
  BY <1>11, <1>12

\* What a visit adds are sequences.
Sequenced(r) ==
  /\ IsSeq(r.reads) /\ IsSeq(r.entries) /\ IsSeq(r.imports)
  /\ IsSeq(r.declarations) /\ IsSeq(r.references)

\* How many lines of a file are done.
LinesDone(parts) ==
  LET failed == {k \in DOMAIN parts : parts[k].outcome = "failed"}
  IN  IF failed = {} THEN Len(parts) ELSE Min(failed)

LEMMA LinesAreDone ==
  ASSUME NEW parts, IsSeq(parts)
  PROVE  /\ LinesDone(parts) \in 0 .. Len(parts)
         /\ \/ (\A k \in DOMAIN parts : parts[k].outcome # "failed") /\ LinesDone(parts) = Len(parts)
            \/ LinesDone(parts) \in DOMAIN parts /\ parts[LinesDone(parts)].outcome = "failed"
<1> DEFINE failed == {k \in DOMAIN parts : parts[k].outcome = "failed"}
<1>1. Len(parts) \in Nat /\ DOMAIN parts = 1 .. Len(parts)
  BY IsSeqHas
<1>2. CASE failed = {}
  BY <1>1, <1>2 DEF LinesDone
<1>3. CASE failed # {}
  <2>3. failed \in SUBSET Nat
    BY <1>1
  <2>1. Min(failed) \in failed
    <3> HIDE DEF failed
    <3> QED
      BY <1>3, <2>3, MinIsLeast
  <2>2. LinesDone(parts) = Min(failed)
    BY <1>3 DEF LinesDone
  <2> QED
    BY <1>1, <2>1, <2>2
<1> QED
  BY <1>2, <1>3

\* What the lines of a file add together is what those that are done add.
Joins(r, file, parts, done) ==
  /\ Sequenced(r) /\ r.file = file
  /\ done \subseteq DOMAIN parts
  /\ ToSet(r.reads) = UNION {ToSet(parts[k].reads) : k \in done}
  /\ ToSet(r.entries) = UNION {ToSet(parts[k].entries) : k \in done}
  /\ ToSet(r.imports) = UNION {ToSet(parts[k].imports) : k \in done}
  /\ ToSet(r.declarations) = UNION {ToSet(parts[k].declarations) : k \in done}
  /\ ToSet(r.references) = UNION {ToSet(parts[k].references) : k \in done}
  /\ r.errors = UNION {parts[k].errors : k \in done}
  /\ \/ r.outcome = "loaded" /\ done = DOMAIN parts /\ \A k \in done : parts[k].outcome # "failed"
     \/ r.outcome = "failed" /\ \E k \in done : parts[k].outcome = "failed"

LEMMA LinesJoin ==
  ASSUME NEW parts, NEW file, IsSeq(parts), \A k \in DOMAIN parts : Sequenced(parts[k])
  PROVE  Joins(ByLines(parts, file), file, parts, 1 .. LinesDone(parts))
<1> DEFINE failed == {k \in DOMAIN parts : parts[k].outcome = "failed"}
           n == Len(parts)
           m == LinesDone(parts)
           r == ByLines(parts, file)
<1>1. n \in Nat /\ DOMAIN parts = 1 .. n
  BY IsSeqHas
<1>2. /\ m \in 0 .. n
      /\ \/ (\A k \in DOMAIN parts : parts[k].outcome # "failed") /\ m = n
         \/ m \in DOMAIN parts /\ parts[m].outcome = "failed"
  BY LinesAreDone
<1>3. 1 .. m \subseteq 1 .. n
  BY <1>1, <1>2
<1>4. (IF failed = {} THEN DOMAIN parts ELSE 1 .. Min(failed)) = 1 .. m
  BY <1>1 DEF LinesDone
<1>5. /\ r.outcome = IF failed = {} THEN "loaded" ELSE "failed"
      /\ r.file = file
      /\ r.reads = FlattenSeq([k \in 1 .. m |-> parts[k].reads])
      /\ r.entries = FlattenSeq([k \in 1 .. m |-> parts[k].entries])
      /\ r.declarations = FlattenSeq([k \in 1 .. m |-> parts[k].declarations])
      /\ r.references = FlattenSeq([k \in 1 .. m |-> parts[k].references])
      /\ r.imports = FlattenSeq([k \in 1 .. m |-> parts[k].imports])
      /\ r.errors = UNION {parts[k].errors : k \in 1 .. m}
  <2> HIDE DEF m
  <2> QED
    BY <1>4 DEF ByLines
<1>6. \/ r.outcome = "loaded" /\ 1 .. m = DOMAIN parts /\ \A k \in 1 .. m : parts[k].outcome # "failed"
      \/ r.outcome = "failed" /\ \E k \in 1 .. m : parts[k].outcome = "failed"
  <2> HIDE DEF m, r, n
  <2>1. CASE failed = {}
    <3>1. \A k \in DOMAIN parts : parts[k].outcome # "failed"
      BY <2>1
    <3>2. m = n
      BY <1>2, <3>1
    <3> QED
      BY <1>1, <1>5, <2>1, <3>1, <3>2
  <2>2. CASE failed # {}
    <3>1. m \in DOMAIN parts /\ parts[m].outcome = "failed"
      BY <1>2, <2>2
    <3>2. m \in 1 .. m
      BY <1>1, <3>1
    <3> QED
      BY <1>5, <2>2, <3>1, <3>2
  <2> QED
    BY <2>1, <2>2
<1> HIDE DEF m, n, r, failed
<1>7. IsSeq(r.reads) /\ ToSet(r.reads) = UNION {ToSet(parts[k].reads) : k \in 1 .. m}
  <2> DEFINE g == [k \in 1 .. n |-> parts[k].reads]
  <2>1. \A k \in 1 .. n : IsSeq(g[k])
    BY <1>1 DEF Sequenced
  <2>2. /\ [k \in 1 .. m |-> g[k]] = [k \in 1 .. m |-> parts[k].reads]
        /\ {ToSet(g[k]) : k \in 1 .. m} = {ToSet(parts[k].reads) : k \in 1 .. m}
    BY <1>3
  <2> HIDE DEF g
  <2>3. /\ IsSeq(FlattenSeq([k \in 1 .. m |-> g[k]]))
        /\ ToSet(FlattenSeq([k \in 1 .. m |-> g[k]])) = UNION {ToSet(g[k]) : k \in 1 .. m}
    BY <1>1, <1>2, <2>1, PiecesJoin
  <2> QED
    BY <1>5, <2>2, <2>3
<1>8. IsSeq(r.entries) /\ ToSet(r.entries) = UNION {ToSet(parts[k].entries) : k \in 1 .. m}
  <2> DEFINE g == [k \in 1 .. n |-> parts[k].entries]
  <2>1. \A k \in 1 .. n : IsSeq(g[k])
    BY <1>1 DEF Sequenced
  <2>2. /\ [k \in 1 .. m |-> g[k]] = [k \in 1 .. m |-> parts[k].entries]
        /\ {ToSet(g[k]) : k \in 1 .. m} = {ToSet(parts[k].entries) : k \in 1 .. m}
    BY <1>3
  <2> HIDE DEF g
  <2>3. /\ IsSeq(FlattenSeq([k \in 1 .. m |-> g[k]]))
        /\ ToSet(FlattenSeq([k \in 1 .. m |-> g[k]])) = UNION {ToSet(g[k]) : k \in 1 .. m}
    BY <1>1, <1>2, <2>1, PiecesJoin
  <2> QED
    BY <1>5, <2>2, <2>3
<1>9. IsSeq(r.imports) /\ ToSet(r.imports) = UNION {ToSet(parts[k].imports) : k \in 1 .. m}
  <2> DEFINE g == [k \in 1 .. n |-> parts[k].imports]
  <2>1. \A k \in 1 .. n : IsSeq(g[k])
    BY <1>1 DEF Sequenced
  <2>2. /\ [k \in 1 .. m |-> g[k]] = [k \in 1 .. m |-> parts[k].imports]
        /\ {ToSet(g[k]) : k \in 1 .. m} = {ToSet(parts[k].imports) : k \in 1 .. m}
    BY <1>3
  <2> HIDE DEF g
  <2>3. /\ IsSeq(FlattenSeq([k \in 1 .. m |-> g[k]]))
        /\ ToSet(FlattenSeq([k \in 1 .. m |-> g[k]])) = UNION {ToSet(g[k]) : k \in 1 .. m}
    BY <1>1, <1>2, <2>1, PiecesJoin
  <2> QED
    BY <1>5, <2>2, <2>3
<1>10. IsSeq(r.declarations) /\ ToSet(r.declarations) = UNION {ToSet(parts[k].declarations) : k \in 1 .. m}
  <2> DEFINE g == [k \in 1 .. n |-> parts[k].declarations]
  <2>1. \A k \in 1 .. n : IsSeq(g[k])
    BY <1>1 DEF Sequenced
  <2>2. /\ [k \in 1 .. m |-> g[k]] = [k \in 1 .. m |-> parts[k].declarations]
        /\ {ToSet(g[k]) : k \in 1 .. m} = {ToSet(parts[k].declarations) : k \in 1 .. m}
    BY <1>3
  <2> HIDE DEF g
  <2>3. /\ IsSeq(FlattenSeq([k \in 1 .. m |-> g[k]]))
        /\ ToSet(FlattenSeq([k \in 1 .. m |-> g[k]])) = UNION {ToSet(g[k]) : k \in 1 .. m}
    BY <1>1, <1>2, <2>1, PiecesJoin
  <2> QED
    BY <1>5, <2>2, <2>3
<1>11. IsSeq(r.references) /\ ToSet(r.references) = UNION {ToSet(parts[k].references) : k \in 1 .. m}
  <2> DEFINE g == [k \in 1 .. n |-> parts[k].references]
  <2>1. \A k \in 1 .. n : IsSeq(g[k])
    BY <1>1 DEF Sequenced
  <2>2. /\ [k \in 1 .. m |-> g[k]] = [k \in 1 .. m |-> parts[k].references]
        /\ {ToSet(g[k]) : k \in 1 .. m} = {ToSet(parts[k].references) : k \in 1 .. m}
    BY <1>3
  <2> HIDE DEF g
  <2>3. /\ IsSeq(FlattenSeq([k \in 1 .. m |-> g[k]]))
        /\ ToSet(FlattenSeq([k \in 1 .. m |-> g[k]])) = UNION {ToSet(g[k]) : k \in 1 .. m}
    BY <1>1, <1>2, <2>1, PiecesJoin
  <2> QED
    BY <1>5, <2>2, <2>3
<1>12. Sequenced(r)
  BY <1>7, <1>8, <1>9, <1>10, <1>11 DEF Sequenced
<1>13. Joins(r, file, parts, 1 .. m)
  BY <1>1, <1>3, <1>5, <1>6, <1>7, <1>8, <1>9, <1>10, <1>11, <1>12 DEF Joins
<1> QED
  BY <1>13 DEF m, r

-----------------------------------------------------------------------------
(***************************************************************************)
(* What a visit adds: sites that lead to files that were read, and errors  *)
(* that lead on to others.                                                 *)
(***************************************************************************)

\* A disk whose files hold lines, and whose imports are paths.
GoodDisk(disk) ==
  /\ IsDisk(disk)
  /\ \A f \in DOMAIN disk.lines :
       /\ IsSeq(disk.lines[f])
       /\ \A k \in DOMAIN disk.lines[f] :
            /\ IsSeq(disk.lines[f][k].options)
            /\ IsImport(disk.lines[f][k]) => disk.lines[f][k].path \in DOMAIN disk.canonical

\* A site of an import leads to the file that was loaded there, and read.
SiteHolds(disk, site, reads) ==
  site.loaded # NoFile =>
    /\ site.active /\ site.target \in DOMAIN disk.canonical
    /\ site.loaded = disk.canonical[site.target] /\ site.loaded \in DOMAIN disk.lines
    /\ \E x \in reads : x.file = site.loaded

ReadsHold(disk, r) ==
  /\ \A x \in ToSet(r.reads) : x.file \in DOMAIN disk.lines
  /\ \A s \in ToSet(r.imports) : SiteHolds(disk, s, ToSet(r.reads))

\* An error is at an import, of a file that is wrong itself, that has an error,
\* or that is being visited.
LeadsOn(disk, e, visiting, errors) ==
  LET file == disk.canonical[disk.lines[e[1]][e[2]].path]
  IN  \/ file = NoFile \/ ~Readable(disk.lines[file]) \/ Malformed(disk.lines[file])
      \/ file \in visiting \/ \E other \in errors : other[1] = file

ErrorHolds(disk, e, visiting, errors) ==
  /\ e[1] \in DOMAIN disk.lines /\ e[2] \in DOMAIN disk.lines[e[1]]
  /\ IsImport(disk.lines[e[1]][e[2]]) /\ e = <<e[1], e[2], 0>>
  /\ LeadsOn(disk, e, visiting, errors)

IsRead(f, r) == f = r.file \/ \E x \in ToSet(r.reads) : x.file = f

\* What a visit of a path adds while some files are being visited.
VisitHolds(disk, active, path, r) ==
  LET file == disk.canonical[path]
  IN  /\ Sequenced(r) /\ ReadsHold(disk, r)
      /\ r.outcome \in {"declined", "failed", "loaded"} /\ r.file \in {NoFile, file}
      /\ r.outcome = "declined" => file = NoFile \/ ~Readable(disk.lines[file])
      /\ r.outcome = "loaded" => r.file = file /\ file \in DOMAIN disk.lines
      /\ r.outcome = "failed" =>
            \/ file \in active
            \/ file \in DOMAIN disk.lines /\ (Malformed(disk.lines[file]) \/ \E e \in r.errors : e[1] = file)
      /\ r.errors # {} => r.outcome = "failed"
      /\ \A e \in r.errors : ErrorHolds(disk, e, active, r.errors) /\ IsRead(e[1], r)

\* What a line of a file adds.
LineHolds(disk, visiting, file, k, r) ==
  /\ Sequenced(r) /\ ReadsHold(disk, r)
  /\ r.outcome \in {"failed", "loaded"}
  /\ r.errors # {} => r.outcome = "failed"
  /\ r.outcome = "failed" => <<file, k, 0>> \in r.errors
  /\ \A e \in r.errors : /\ ErrorHolds(disk, e, visiting, r.errors)
                         /\ e[1] = file \/ \E x \in ToSet(r.reads) : x.file = e[1]

LEMMA NothingAdded ==
  ASSUME NEW outcome, NEW file
  PROVE  LET r == Added(outcome, file)
         IN  /\ r.outcome = outcome /\ r.file = file /\ r.errors = {}
             /\ r.reads = <<>> /\ r.entries = <<>> /\ r.imports = <<>>
             /\ r.declarations = <<>> /\ r.references = <<>>
             /\ Sequenced(r) /\ \A disk : ReadsHold(disk, r)
BY ShortIsSeq DEF Added, Sequenced, ReadsHold

LEMMA SitesOfEntries ==
  ASSUME NEW file, NEW k, NEW line, IsSeq(line.options)
  PROVE  IsSeq(DeclarationsOf(file, k, line)) /\ IsSeq(ReferencesOf(file, k, line))
<1>1. IsSeq(DeclarationsOf(file, k, line))
  BY ShortIsSeq DEF DeclarationsOf
<1> DEFINE n == Len(line.options)
           site(j) == ConfigSite(Referenced(line, j), line.command, <<file, k, j>>, line.name)
           none(j) == ~AcceptsConfig(line.command) \/ Referenced(line, j) = NoName
           g == [j \in 1 .. n |-> IF none(j) THEN <<>> ELSE <<site(j)>>]
<1>2. n \in Nat /\ DOMAIN line.options = 1 .. n
  BY IsSeqHas
<1>3. \A j \in 1 .. n : IsSeq(g[j])
  <2> SUFFICES ASSUME NEW j \in 1 .. n PROVE IsSeq(g[j])
    OBVIOUS
  <2>1. g[j] = IF none(j) THEN <<>> ELSE <<site(j)>>
    OBVIOUS
  <2> HIDE DEF g, none, site
  <2> QED
    BY <2>1, ShortIsSeq
<1>4. IsSeq(FlattenSeq(g))
  <2>1. g = [j \in 1 .. n |-> g[j]]
    OBVIOUS
  <2> HIDE DEF g, n
  <2>2. IsSeq(FlattenSeq([j \in 1 .. n |-> g[j]]))
    BY <1>2, <1>3, PiecesJoin
  <2> QED
    BY <2>1, <2>2
<1>5. ReferencesOf(file, k, line) = FlattenSeq(g)
  BY <1>2 DEF ReferencesOf
<1> QED
  BY <1>1, <1>4, <1>5

LEMMA EntriesHold ==
  ASSUME NEW disk, NEW visiting, NEW file, NEW k, NEW line, IsSeq(line.options)
  PROVE  LineHolds(disk, visiting, file, k, ByEntry(file, k, line))
<1> DEFINE r == ByEntry(file, k, line)
<1>1. /\ r.outcome = "loaded" /\ r.errors = {} /\ r.reads = <<>> /\ r.imports = <<>>
      /\ r.entries = <<<<file, k>>>>
      /\ r.declarations = DeclarationsOf(file, k, line) /\ r.references = ReferencesOf(file, k, line)
  BY DEF ByEntry, Added
<1> HIDE DEF r
<1>2. Sequenced(r)
  BY <1>1, ShortIsSeq, SitesOfEntries DEF Sequenced
<1>3. ReadsHold(disk, r)
  BY <1>1, ShortIsSeq DEF ReadsHold
<1>4. LineHolds(disk, visiting, file, k, r)
  BY <1>1, <1>2, <1>3 DEF LineHolds
<1> QED
  BY <1>4 DEF r

LEMMA ImportsHold ==
  ASSUME NEW disk, GoodDisk(disk), NEW file \in DOMAIN disk.lines, NEW k \in DOMAIN disk.lines[file],
         IsImport(disk.lines[file][k]), Active(disk.lines[file][k]),
         NEW visiting, NEW inner, VisitHolds(disk, visiting, disk.lines[file][k].path, inner)
  PROVE  LineHolds(disk, visiting, file, k, ByImport(disk.lines[file][k], <<file, k, 0>>, inner))
<1> DEFINE line == disk.lines[file][k]
           at == <<file, k, 0>>
           fails == Fails(line, inner.outcome)
           there == IF inner.file = NoFile THEN <<>> ELSE <<[at |-> at, file |-> inner.file]>>
           site == [at |-> at, target |-> line.path, active |-> Active(line),
                    loaded |-> IF inner.outcome = "loaded" THEN inner.file ELSE NoFile]
           r == ByImport(line, at, inner)
           target == disk.canonical[line.path]
<1>1. /\ r.outcome = IF fails THEN "failed" ELSE "loaded"
      /\ r.reads = there \o inner.reads /\ r.entries = inner.entries
      /\ r.declarations = inner.declarations /\ r.references = inner.references
      /\ r.imports = Append(inner.imports, site)
      /\ r.errors = inner.errors \cup (IF fails THEN {at} ELSE {})
  BY DEF ByImport, ErrorsFrom
<1>2. /\ Sequenced(inner) /\ ReadsHold(disk, inner)
      /\ inner.outcome \in {"declined", "failed", "loaded"} /\ inner.file \in {NoFile, target}
      /\ inner.outcome = "declined" => target = NoFile \/ ~Readable(disk.lines[target])
      /\ inner.outcome = "loaded" => inner.file = target /\ target \in DOMAIN disk.lines
      /\ inner.outcome = "failed" =>
            \/ target \in visiting
            \/ target \in DOMAIN disk.lines /\ (Malformed(disk.lines[target]) \/ \E e \in inner.errors : e[1] = target)
      /\ inner.errors # {} => inner.outcome = "failed"
      /\ \A e \in inner.errors : ErrorHolds(disk, e, visiting, inner.errors) /\ IsRead(e[1], inner)
  BY DEF VisitHolds
<1>3. /\ line.path \in DOMAIN disk.canonical /\ target \in DOMAIN disk.lines \cup {NoFile}
      /\ NoFile \notin DOMAIN disk.lines
  BY DEF GoodDisk, IsDisk
<1>4. fails <=> inner.outcome = "failed" \/ (inner.outcome = "declined" /\ line.says = "import")
  BY DEF Fails
<1>5. site.active /\ site.target = line.path
      /\ site.loaded = IF inner.outcome = "loaded" THEN inner.file ELSE NoFile
  OBVIOUS
<1>6. IsSeq(there) /\ ToSet(there) = IF inner.file = NoFile THEN {} ELSE {[at |-> at, file |-> inner.file]}
  BY ShortIsSeq
<1> HIDE DEF r, site, there, fails, target
<1>7. IsSeq(r.reads) /\ ToSet(r.reads) = ToSet(there) \cup ToSet(inner.reads)
  BY <1>1, <1>2, <1>6, ConcatIsSeq DEF Sequenced
<1>8. IsSeq(r.imports) /\ ToSet(r.imports) = ToSet(inner.imports) \cup {site}
  BY <1>1, <1>2, AppendIsSeq DEF Sequenced
<1>9. Sequenced(r)
  BY <1>1, <1>2, <1>7, <1>8 DEF Sequenced
<1>10. \A f : f \in DOMAIN disk.lines /\ IsRead(f, inner) => \E x \in ToSet(r.reads) : x.file = f
  <2> SUFFICES ASSUME NEW f \in DOMAIN disk.lines, IsRead(f, inner)
               PROVE  \E x \in ToSet(r.reads) : x.file = f
    OBVIOUS
  <2>1. CASE f = inner.file
    <3>1. [at |-> at, file |-> inner.file] \in ToSet(r.reads)
      BY <1>3, <1>6, <1>7, <2>1
    <3> QED
      BY <2>1, <3>1
  <2>2. CASE \E x \in ToSet(inner.reads) : x.file = f
    BY <1>7, <2>2
  <2> QED
    BY <2>1, <2>2 DEF IsRead
<1>11. ReadsHold(disk, r)
  <2>1. \A x \in ToSet(r.reads) : x.file \in DOMAIN disk.lines
    BY <1>2, <1>3, <1>6, <1>7 DEF ReadsHold
  <2>2. ASSUME NEW s \in ToSet(inner.imports) PROVE SiteHolds(disk, s, ToSet(r.reads))
    <3>1. SiteHolds(disk, s, ToSet(inner.reads))
      BY <1>2 DEF ReadsHold
    <3> QED
      BY <3>1, <1>7 DEF SiteHolds
  <2>3. SiteHolds(disk, site, ToSet(r.reads))
    <3> SUFFICES ASSUME site.loaded # NoFile PROVE SiteHolds(disk, site, ToSet(r.reads))
      BY DEF SiteHolds
    <3>1. inner.outcome = "loaded" /\ site.loaded = target /\ target \in DOMAIN disk.lines /\ inner.file = target
      BY <1>2, <1>5
    <3>2. \E x \in ToSet(r.reads) : x.file = target
      BY <3>1, <1>10 DEF IsRead
    <3> QED
      BY <1>3, <1>5, <3>1, <3>2 DEF SiteHolds, target
  <2> QED
    BY <1>8, <2>1, <2>2, <2>3 DEF ReadsHold
<1>12. ASSUME NEW e \in inner.errors
       PROVE  ErrorHolds(disk, e, visiting, r.errors) /\ \E x \in ToSet(r.reads) : x.file = e[1]
  <2>1. ErrorHolds(disk, e, visiting, inner.errors) /\ IsRead(e[1], inner)
    BY <1>2
  <2>2. inner.errors \subseteq r.errors
    BY <1>1
  <2>3. ErrorHolds(disk, e, visiting, r.errors)
    BY <2>1, <2>2 DEF ErrorHolds, LeadsOn
  <2>4. e[1] \in DOMAIN disk.lines
    BY <2>1 DEF ErrorHolds
  <2> QED
    BY <1>10, <2>1, <2>3, <2>4
<1>13. ASSUME fails PROVE ErrorHolds(disk, at, visiting, r.errors)
  <2>1. at[1] = file /\ at[2] = k /\ at = <<at[1], at[2], 0>>
    OBVIOUS
  <2>2. \/ target = NoFile \/ ~Readable(disk.lines[target]) \/ Malformed(disk.lines[target])
        \/ target \in visiting \/ \E other \in r.errors : other[1] = target
    BY <1>1, <1>2, <1>4, <1>13
  <2>3. LeadsOn(disk, at, visiting, r.errors)
    BY <2>1, <2>2 DEF LeadsOn, target
  <2> QED
    BY <2>1, <2>3 DEF ErrorHolds
<1>14. r.errors # {} => r.outcome = "failed"
  BY <1>1, <1>2, <1>4
<1>15. r.outcome = "failed" => at \in r.errors
  BY <1>1
<1>16. \A e \in r.errors : /\ ErrorHolds(disk, e, visiting, r.errors)
                           /\ e[1] = file \/ \E x \in ToSet(r.reads) : x.file = e[1]
  <2> SUFFICES ASSUME NEW e \in r.errors
               PROVE  /\ ErrorHolds(disk, e, visiting, r.errors)
                      /\ e[1] = file \/ \E x \in ToSet(r.reads) : x.file = e[1]
    OBVIOUS
  <2>1. CASE e \in inner.errors
    BY <2>1, <1>12
  <2>2. CASE fails /\ e = at
    BY <2>2, <1>13
  <2> QED
    BY <1>1, <2>1, <2>2
<1>17. r.outcome \in {"failed", "loaded"}
  BY <1>1
<1>18. LineHolds(disk, visiting, file, k, r)
  BY <1>9, <1>11, <1>14, <1>15, <1>16, <1>17 DEF LineHolds
<1> QED
  BY <1>18 DEF r

LEMMA SkipsHold ==
  ASSUME NEW disk, NEW visiting, NEW file, NEW k, NEW line, ~Active(line)
  PROVE  LineHolds(disk, visiting, file, k, ByImport(line, <<file, k, 0>>, Added("skipped", NoFile)))
<1> DEFINE at == <<file, k, 0>>
           inner == Added("skipped", NoFile)
           site == [at |-> at, target |-> line.path, active |-> Active(line), loaded |-> NoFile]
           r == ByImport(line, at, inner)
<1>1. /\ inner.outcome = "skipped" /\ inner.file = NoFile /\ inner.errors = {}
      /\ inner.reads = <<>> /\ inner.entries = <<>> /\ inner.imports = <<>>
      /\ inner.declarations = <<>> /\ inner.references = <<>>
  BY NothingAdded
<1>2. ~Fails(line, inner.outcome)
  BY <1>1 DEF Fails
<1>3. /\ r.outcome = "loaded" /\ r.errors = {}
      /\ r.reads = <<>> \o <<>> /\ r.entries = <<>>
      /\ r.declarations = <<>> /\ r.references = <<>>
      /\ r.imports = Append(<<>>, site)
  <2> HIDE DEF inner
  <2> QED
    BY <1>1, <1>2 DEF ByImport, ErrorsFrom
<1>4. site.loaded = NoFile
  OBVIOUS
<1> HIDE DEF r, site
<1>5. Sequenced(r) /\ ToSet(r.reads) = {} /\ ToSet(r.imports) = {site}
  BY <1>3, ShortIsSeq, ConcatIsSeq, AppendIsSeq DEF Sequenced
<1>6. ReadsHold(disk, r)
  BY <1>4, <1>5 DEF ReadsHold, SiteHolds
<1>7. LineHolds(disk, visiting, file, k, r)
  BY <1>3, <1>5, <1>6 DEF LineHolds
<1> QED
  BY <1>7 DEF r

LEMMA EachLineHolds ==
  ASSUME NEW disk, GoodDisk(disk), NEW file \in DOMAIN disk.lines, NEW k \in DOMAIN disk.lines[file],
         NEW visiting, NEW visits, \A p \in DOMAIN disk.canonical : VisitHolds(disk, visiting, p, visits[p])
  PROVE  LineHolds(disk, visiting, file, k, ByLine(visits, file, k, disk.lines[file][k]))
<1> DEFINE line == disk.lines[file][k]
<1>1. IsSeq(line.options) /\ (IsImport(line) => line.path \in DOMAIN disk.canonical)
  BY DEF GoodDisk
<1>2. CASE line.says = "entry"
  <2>1. ByLine(visits, file, k, line) = ByEntry(file, k, line)
    BY <1>2 DEF ByLine
  <2> QED
    BY <1>1, <2>1, EntriesHold
<1>3. CASE line.says # "entry" /\ IsImport(line) /\ Active(line)
  <2>1. ByLine(visits, file, k, line) = ByImport(line, <<file, k, 0>>, visits[line.path])
    BY <1>3 DEF ByLine
  <2>2. VisitHolds(disk, visiting, line.path, visits[line.path])
    BY <1>1, <1>3
  <2> QED
    BY <1>3, <2>1, <2>2, ImportsHold
<1>4. CASE line.says # "entry" /\ IsImport(line) /\ ~Active(line)
  <2>1. ByLine(visits, file, k, line) = ByImport(line, <<file, k, 0>>, Added("skipped", NoFile))
    BY <1>4 DEF ByLine
  <2> QED
    BY <1>4, <2>1, SkipsHold
<1>5. CASE line.says # "entry" /\ ~IsImport(line)
  <2>1. ByLine(visits, file, k, line) = Added("loaded", NoFile)
    BY <1>5 DEF ByLine
  <2> QED
    BY <2>1, NothingAdded DEF LineHolds
<1> QED
  BY <1>2, <1>3, <1>4, <1>5

LEMMA LinesHold ==
  ASSUME NEW disk, GoodDisk(disk), NEW path \in DOMAIN disk.canonical, NEW active,
         NEW file \in DOMAIN disk.lines, file = disk.canonical[path],
         NEW parts, IsSeq(parts),
         \A k \in DOMAIN parts : LineHolds(disk, active \cup {file}, file, k, parts[k])
  PROVE  VisitHolds(disk, active, path, ByLines(parts, file))
<1> DEFINE r == ByLines(parts, file)
           done == 1 .. LinesDone(parts)
<1>1. \A k \in DOMAIN parts : Sequenced(parts[k])
  BY DEF LineHolds
<1>2. Joins(r, file, parts, done)
  BY <1>1, LinesJoin
<1> HIDE DEF r, done
<1>3. \A k \in done : LineHolds(disk, active \cup {file}, file, k, parts[k])
  BY <1>2 DEF Joins
<1>4. \A k \in done : /\ ToSet(parts[k].reads) \subseteq ToSet(r.reads)
                      /\ parts[k].errors \subseteq r.errors
  BY <1>2 DEF Joins
<1>5. ReadsHold(disk, r)
  <2>1. ASSUME NEW x \in ToSet(r.reads) PROVE x.file \in DOMAIN disk.lines
    <3>1. PICK k \in done : x \in ToSet(parts[k].reads)
      BY <1>2 DEF Joins
    <3> QED
      BY <1>3, <3>1 DEF LineHolds, ReadsHold
  <2>2. ASSUME NEW s \in ToSet(r.imports) PROVE SiteHolds(disk, s, ToSet(r.reads))
    <3>1. PICK k \in done : s \in ToSet(parts[k].imports)
      BY <1>2 DEF Joins
    <3>2. SiteHolds(disk, s, ToSet(parts[k].reads))
      BY <1>3, <3>1 DEF LineHolds, ReadsHold
    <3> QED
      BY <1>4, <3>2 DEF SiteHolds
  <2> QED
    BY <2>1, <2>2 DEF ReadsHold
<1>6. \A k \in done : parts[k].outcome = "failed" => \E e \in r.errors : e[1] = file
  <2> SUFFICES ASSUME NEW k \in done, parts[k].outcome = "failed"
               PROVE  \E e \in r.errors : e[1] = file
    OBVIOUS
  <2>1. <<file, k, 0>> \in r.errors /\ <<file, k, 0>>[1] = file
    BY <1>3, <1>4 DEF LineHolds
  <2> QED
    BY <2>1
<1>7. r.errors # {} => r.outcome = "failed"
  <2> SUFFICES ASSUME NEW e \in r.errors PROVE r.outcome = "failed"
    OBVIOUS
  <2>1. PICK k \in done : e \in parts[k].errors
    BY <1>2 DEF Joins
  <2>2. parts[k].outcome = "failed"
    BY <1>3, <2>1 DEF LineHolds
  <2> QED
    BY <1>2, <2>2 DEF Joins
<1>8. ASSUME NEW e \in r.errors
      PROVE  ErrorHolds(disk, e, active, r.errors) /\ IsRead(e[1], r)
  <2>1. PICK k \in done : e \in parts[k].errors
    BY <1>2 DEF Joins
  <2>2. /\ ErrorHolds(disk, e, active \cup {file}, parts[k].errors)
        /\ e[1] = file \/ \E x \in ToSet(parts[k].reads) : x.file = e[1]
        /\ parts[k].outcome = "failed"
    BY <1>3, <2>1 DEF LineHolds
  <2>3. IsRead(e[1], r)
    BY <1>2, <1>4, <2>2 DEF Joins, IsRead
  <2>4. \E other \in r.errors : other[1] = file
    BY <1>6, <2>2
  <2>5. LeadsOn(disk, e, active, r.errors)
    BY <1>4, <2>2, <2>4 DEF ErrorHolds, LeadsOn
  <2> QED
    BY <2>2, <2>3, <2>5 DEF ErrorHolds
<1>9. r.outcome = "failed" => \E e \in r.errors : e[1] = file
  BY <1>2, <1>6 DEF Joins
<1>10. r.outcome \in {"failed", "loaded"}
  BY <1>2 DEF Joins
<1>11. VisitHolds(disk, active, path, r)
  BY <1>2, <1>5, <1>7, <1>8, <1>9, <1>10 DEF Joins, VisitHolds
<1> QED
  BY <1>11 DEF r

LEMMA FilesHold ==
  ASSUME NEW disk, GoodDisk(disk), NEW path \in DOMAIN disk.canonical,
         NEW active \in SUBSET DOMAIN disk.lines, NEW file, file = disk.canonical[path], NEW visits,
         file \in DOMAIN disk.lines \ active =>
            \A p \in DOMAIN disk.canonical : VisitHolds(disk, active \cup {file}, p, visits[p])
  PROVE  VisitHolds(disk, active, path, VisitFile(disk, visits, active, file))
<1> DEFINE r == VisitFile(disk, visits, active, file)
<1>0. file \in DOMAIN disk.lines \cup {NoFile} /\ NoFile \notin DOMAIN disk.lines
  BY DEF GoodDisk, IsDisk
<1>1. CASE file = NoFile
  <2>1. r = Added("declined", NoFile)
    BY <1>1 DEF VisitFile
  <2> QED
    BY <1>1, <2>1, NothingAdded DEF VisitHolds
<1>2. CASE file # NoFile /\ file \in active
  <2>1. r = Added("failed", NoFile)
    BY <1>2 DEF VisitFile
  <2> QED
    BY <1>2, <2>1, NothingAdded DEF VisitHolds
<1>3. CASE file # NoFile /\ file \notin active /\ ~Readable(disk.lines[file])
  <2>1. r = Added("declined", NoFile)
    BY <1>3 DEF VisitFile
  <2> QED
    BY <1>3, <2>1, NothingAdded DEF VisitHolds
<1>4. CASE /\ file # NoFile /\ file \notin active
           /\ Readable(disk.lines[file]) /\ Malformed(disk.lines[file])
  <2>1. r = Added("failed", file)
    BY <1>4 DEF VisitFile
  <2> QED
    BY <1>0, <1>4, <2>1, NothingAdded DEF VisitHolds
<1>5. CASE /\ file # NoFile /\ file \notin active
           /\ Readable(disk.lines[file]) /\ ~Malformed(disk.lines[file])
  <2> DEFINE parts == [k \in DOMAIN disk.lines[file] |-> ByLine(visits, file, k, disk.lines[file][k])]
  <2>1. r = ByLines(parts, file) /\ file \in DOMAIN disk.lines
    BY <1>0, <1>5 DEF VisitFile
  <2>2. IsSeq(disk.lines[file])
    BY <2>1 DEF GoodDisk
  <2>3. Len(disk.lines[file]) \in Nat /\ DOMAIN disk.lines[file] = 1 .. Len(disk.lines[file])
    BY <2>2, IsSeqHas
  <2>4. IsSeq(parts)
    <3>1. DOMAIN parts = 1 .. Len(disk.lines[file])
          /\ parts = [k \in 1 .. Len(disk.lines[file]) |-> parts[k]]
      BY <2>3
    <3> HIDE DEF parts
    <3> QED
      BY <2>3, <3>1, MadeIsSeq
  <2>5. ASSUME NEW k \in DOMAIN parts
        PROVE  LineHolds(disk, active \cup {file}, file, k, parts[k])
    BY <1>5, <2>1, EachLineHolds
  <2> HIDE DEF parts
  <2> QED
    BY <2>1, <2>4, <2>5, LinesHold
<1> QED
  BY <1>1, <1>2, <1>3, <1>4, <1>5

LEMMA VisitsHold ==
  ASSUME NEW disk, GoodDisk(disk), NEW visits, IsVisits(visits, disk)
  PROVE  \A active \in SUBSET DOMAIN disk.lines : \A path \in DOMAIN disk.canonical :
            VisitHolds(disk, active, path, visits[active][path])
<1> DEFINE D == DOMAIN disk.lines
           T == {A \in SUBSET D : \A path \in DOMAIN disk.canonical : VisitHolds(disk, A, path, visits[A][path])}
<1>1. ASSUME NEW A \in SUBSET D, \A x \in D \ A : A \cup {x} \in T PROVE A \in T
  <2> SUFFICES ASSUME NEW path \in DOMAIN disk.canonical
               PROVE  VisitHolds(disk, A, path, visits[A][path])
    OBVIOUS
  <2>1. PICK file : file = disk.canonical[path]
    OBVIOUS
  <2>2. visits[A][path] = VisitFile(disk, visits[A \cup {file}], A, file)
    BY <2>1 DEF IsVisits, VisitRow
  <2>3. file \in D \ A => \A p \in DOMAIN disk.canonical : VisitHolds(disk, A \cup {file}, p, visits[A \cup {file}][p])
    BY <1>1
  <2>4. VisitHolds(disk, A, path, VisitFile(disk, visits[A \cup {file}], A, file))
    BY <2>1, <2>3, FilesHold
  <2> QED
    BY <2>2, <2>4
<1>2. IsFiniteSet(D)
  BY DEF GoodDisk, IsDisk
<1>3. SUBSET D \subseteq T
  <2> HIDE DEF D, T
  <2> QED
    BY <1>1, <1>2, DownInduction
<1> QED
  BY <1>3

\* What the visit of the root adds.
LEMMA RootHolds ==
  ASSUME NEW disk, GoodDisk(disk), NEW path \in DOMAIN disk.canonical
  PROVE  VisitHolds(disk, {}, path, Visits(disk)[path])
<1>1. PICK visits : IsVisits(visits, disk) /\ Visits(disk) = visits[{}]
  BY VisitsUnfold DEF GoodDisk
<1> QED
  BY <1>1, VisitsHold

-----------------------------------------------------------------------------
(***************************************************************************)
(* The workspace: the files, the documents and the graph stay what they    *)
(* are.                                                                    *)
(***************************************************************************)

\* Files on disk, each with something it may hold.
SavedHolds(files) ==
  DOMAIN files \subseteq Files /\ \A f \in DOMAIN files : files[f] \in Contents[f]

\* Documents that are open at paths, each with something its file may hold.
OpenHolds(buffers) ==
  /\ DOMAIN buffers \subseteq Paths
  /\ \A p \in DOMAIN buffers : buffers[p] \in Contents[Link[p]] /\ Readable(buffers[p])

\* The graph is the default one, or one that was built from files there were.
WorkspaceHolds(files, buffers, graph, flags) ==
  /\ SavedHolds(files) /\ OpenHolds(buffers)
  /\ graph = Unbuilt \/ \E s : SavedHolds(s) /\ graph = Build(Disk(s))
  /\ flags \in {<<>>, <<Flags>>}

LEMMA DiskIsGood ==
  ASSUME NEW s, SavedHolds(s)
  PROVE  /\ GoodDisk(Disk(s))
         /\ DOMAIN Disk(s).canonical = Paths /\ Disk(s).lines = s
         /\ \A p \in Paths : Disk(s).canonical[p] = IF Link[p] \in DOMAIN s THEN Link[p] ELSE NoFile
<1> DEFINE disk == Disk(s)
<1>1. /\ DOMAIN disk.canonical = Paths /\ disk.lines = s
      /\ \A p \in Paths : disk.canonical[p] = IF Link[p] \in DOMAIN s THEN Link[p] ELSE NoFile
  BY DEF Disk
<1>2. DOMAIN s \subseteq Files /\ IsFiniteSet(DOMAIN s) /\ NoFile \notin DOMAIN s
  BY FS_Subset, ContentsAssumption, PathsAssumption DEF SavedHolds
<1> HIDE DEF disk
<1>3. IsDisk(disk)
  BY <1>1, <1>2 DEF IsDisk
<1>4. ASSUME NEW f \in DOMAIN s
      PROVE  /\ IsSeq(s[f])
             /\ \A k \in DOMAIN s[f] : /\ IsSeq(s[f][k].options)
                                       /\ IsImport(s[f][k]) => s[f][k].path \in Paths
  <2>1. f \in Files /\ s[f] \in Contents[f]
    BY DEF SavedHolds
  <2> QED
    BY <2>1, ContentsAssumption DEF IsSeq
<1>5. GoodDisk(disk)
  BY <1>1, <1>3, <1>4 DEF GoodDisk
<1> QED
  BY <1>1, <1>5 DEF disk

\* What a published graph says of the disk it was built from.
GraphHolds(graph, disk, root) ==
  /\ graph.root = TRUE
  /\ DOMAIN graph.files \subseteq DOMAIN disk.lines
  /\ \A f \in DOMAIN graph.files : graph.files[f] = disk.lines[f]
  /\ \A f \in DOMAIN disk.lines : IsRead(f, root) => f \in DOMAIN graph.files
  /\ IsSeq(graph.imports)
  /\ \A s \in ToSet(graph.imports) :
        s.loaded # NoFile =>
          /\ s.active /\ s.target \in DOMAIN disk.canonical
          /\ s.loaded = disk.canonical[s.target] /\ s.loaded \in DOMAIN graph.files
  /\ graph.rootFile = IF root.outcome = "loaded" THEN root.file ELSE NoFile
  /\ graph.rootFile # NoFile => graph.rootFile = disk.canonical[Root] /\ graph.rootFile \in DOMAIN graph.files
  /\ \A q \in graph.problems : q.severity = "error" => q.at \in root.errors
  /\ \A e \in root.errors : Problem(e, "error") \in graph.problems

LEMMA BuildHolds ==
  ASSUME NEW disk, GoodDisk(disk), Root \in DOMAIN disk.canonical
  PROVE  /\ VisitHolds(disk, {}, Root, Visits(disk)[Root])
         /\ GraphHolds(Build(disk), disk, Visits(disk)[Root])
<1> DEFINE root == Visits(disk)[Root]
           g == Build(disk)
           there == IF root.file = NoFile THEN <<>> ELSE <<[at |-> NoOrigin, file |-> root.file]>>
           reads == there \o root.reads
<1>1. VisitHolds(disk, {}, Root, root)
  BY RootHolds
<1>2. /\ g.root = TRUE /\ g.rootFile = IF root.outcome = "loaded" THEN root.file ELSE NoFile
      /\ g.files = [f \in {reads[i].file : i \in DOMAIN reads} |-> disk.lines[f]]
      /\ g.imports = root.imports
      /\ g.problems = {Problem(at, "error") : at \in root.errors}
                         \cup {Problem(at, "warning") : at \in Again(reads)}
  BY DEF Build, Published
<1>3. IsSeq(there) /\ ToSet(there) = IF root.file = NoFile THEN {} ELSE {[at |-> NoOrigin, file |-> root.file]}
  BY ShortIsSeq
<1> HIDE DEF root, g, there
<1>4. /\ Sequenced(root) /\ ReadsHold(disk, root) /\ root.file \in {NoFile, disk.canonical[Root]}
      /\ root.outcome = "loaded" => root.file = disk.canonical[Root] /\ root.file \in DOMAIN disk.lines
  BY <1>1 DEF VisitHolds
<1>5. IsSeq(root.reads) /\ IsSeq(root.imports)
  BY <1>4 DEF Sequenced
<1>6. ToSet(reads) = ToSet(there) \cup ToSet(root.reads)
  BY <1>3, <1>5, ConcatIsSeq
<1>7. DOMAIN g.files = {x.file : x \in ToSet(reads)}
  <2> HIDE DEF reads
  <2>1. DOMAIN g.files = {reads[i].file : i \in DOMAIN reads}
    BY <1>2
  <2> QED
    BY <2>1 DEF ToSet
<1> HIDE DEF reads
<1>8. \A f : f \in DOMAIN g.files => (f = root.file /\ f # NoFile) \/ \E x \in ToSet(root.reads) : x.file = f
  BY <1>3, <1>6, <1>7
<1>9. \A f : f # NoFile /\ IsRead(f, root) => f \in DOMAIN g.files
  <2> SUFFICES ASSUME NEW f, f # NoFile, IsRead(f, root) PROVE f \in DOMAIN g.files
    OBVIOUS
  <2>1. CASE f = root.file
    <3>1. [at |-> NoOrigin, file |-> root.file] \in ToSet(reads)
      BY <1>3, <1>6, <2>1
    <3> QED
      BY <1>7, <2>1, <3>1
  <2>2. CASE \E x \in ToSet(root.reads) : x.file = f
    BY <1>6, <1>7, <2>2
  <2> QED
    BY <2>1, <2>2 DEF IsRead
<1>10. disk.canonical[Root] \in DOMAIN disk.lines \cup {NoFile} /\ NoFile \notin DOMAIN disk.lines
  BY DEF GoodDisk, IsDisk
<1>11. DOMAIN g.files \subseteq DOMAIN disk.lines
  BY <1>4, <1>8, <1>10 DEF ReadsHold
<1>12. \A f \in DOMAIN g.files : g.files[f] = disk.lines[f]
  BY <1>2
<1>13. ASSUME NEW s \in ToSet(g.imports), s.loaded # NoFile
       PROVE  /\ s.active /\ s.target \in DOMAIN disk.canonical
              /\ s.loaded = disk.canonical[s.target] /\ s.loaded \in DOMAIN g.files
  <2>1. SiteHolds(disk, s, ToSet(root.reads))
    BY <1>2, <1>4, <1>13 DEF ReadsHold
  <2>2. IsRead(s.loaded, root)
    BY <1>13, <2>1 DEF SiteHolds, IsRead
  <2> QED
    BY <1>9, <1>13, <2>1, <2>2 DEF SiteHolds
<1>14. g.rootFile # NoFile => g.rootFile = disk.canonical[Root] /\ g.rootFile \in DOMAIN g.files
  BY <1>2, <1>4, <1>9 DEF IsRead
<1>15. ASSUME NEW q \in g.problems, q.severity = "error" PROVE q.at \in root.errors
  <2>1. CASE q \in {Problem(at, "error") : at \in root.errors}
    BY <2>1 DEF Problem
  <2>2. CASE q \in {Problem(at, "warning") : at \in Again(reads)}
    BY <1>15, <2>2 DEF Problem
  <2> QED
    BY <1>2, <2>1, <2>2
<1>16. GraphHolds(g, disk, root)
  BY <1>2, <1>5, <1>9, <1>10, <1>11, <1>12, <1>13, <1>14, <1>15 DEF GraphHolds
<1> QED
  BY <1>1, <1>16 DEF g, root

\* The file of the graph that a path names is the one it leads to.
LEMMA IdentityLeads ==
  ASSUME NEW s, SavedHolds(s), NEW path \in Paths
  PROVE  LET graph == Build(Disk(s))
         IN  Identity(graph, path) = NoFile
               \/ (Identity(graph, path) = Link[path] /\ Link[path] \in DOMAIN graph.files /\ Link[path] \in DOMAIN s)
<1> DEFINE disk == Disk(s)
           g == Build(disk)
           root == Visits(disk)[Root]
<1>1. /\ GoodDisk(disk) /\ DOMAIN disk.canonical = Paths /\ disk.lines = s
      /\ \A p \in Paths : disk.canonical[p] = IF Link[p] \in DOMAIN s THEN Link[p] ELSE NoFile
      /\ Root \in Paths
  BY DiskIsGood, PathsAssumption
<1>2. GraphHolds(g, disk, root)
  <2> HIDE DEF disk
  <2> QED
    BY <1>1, BuildHolds
<1> HIDE DEF disk, g, root
<1>3. DOMAIN g.files \subseteq DOMAIN s /\ DOMAIN g.files \subseteq Files /\ NoFile \notin DOMAIN g.files
  BY <1>1, <1>2, ContentsAssumption, PathsAssumption DEF GraphHolds, SavedHolds
<1>4. CASE path \in DOMAIN g.files
  <2>1. Identity(g, path) = path /\ Link[path] = path
    BY <1>3, <1>4, PathsAssumption DEF Identity
  <2> QED
    BY <1>3, <1>4, <2>1 DEF g, disk
<1>5. CASE path \notin DOMAIN g.files /\ path = Root
  <2>1. Identity(g, path) = g.rootFile
    BY <1>2, <1>5 DEF Identity, GraphHolds
  <2>2. g.rootFile # NoFile => g.rootFile = Link[Root] /\ g.rootFile \in DOMAIN g.files
    BY <1>1, <1>2 DEF GraphHolds
  <2> QED
    BY <1>3, <1>5, <2>1, <2>2 DEF g, disk
<1>6. CASE path \notin DOMAIN g.files /\ path # Root
  <2> DEFINE at == ImportsOf(g, path)
             loaded == {i \in at : g.imports[i].loaded # NoFile}
  <2>1. Identity(g, path) = IF loaded = {} THEN NoFile ELSE g.imports[Min(loaded)].loaded
    BY <1>6 DEF Identity, FirstLoaded
  <2>2. CASE loaded = {}
    BY <2>1, <2>2 DEF g, disk
  <2>3. CASE loaded # {}
    <3>1. loaded \in SUBSET Nat
      BY <1>2, IsSeqHas DEF GraphHolds, ImportsOf
    <3>2. Min(loaded) \in loaded
      BY <2>3, <3>1, MinIsLeast
    <3>3. PICK i : /\ i \in DOMAIN g.imports /\ path \in {g.imports[i].target, g.imports[i].loaded}
                   /\ g.imports[i].loaded # NoFile /\ Identity(g, path) = g.imports[i].loaded
      BY <2>1, <2>3, <3>2 DEF ImportsOf
    <3>4. g.imports[i] \in ToSet(g.imports)
      BY <3>3 DEF ToSet
    <3>5. /\ g.imports[i].loaded = disk.canonical[g.imports[i].target]
          /\ g.imports[i].loaded \in DOMAIN g.files
      BY <1>2, <3>3, <3>4 DEF GraphHolds
    <3>6. g.imports[i].target = path
      BY <1>6, <3>3, <3>5
    <3>7. Identity(g, path) = Link[path] /\ Link[path] \in DOMAIN g.files
      BY <1>1, <3>3, <3>5, <3>6
    <3> QED
      BY <1>3, <3>7 DEF g, disk
  <2> QED
    BY <2>2, <2>3
<1> QED
  BY <1>4, <1>5, <1>6

LEMMA WorkspaceStarts ==
  ASSUME Init
  PROVE  WorkspaceHolds(saved, open, snapshot, catalog)
<1>1. SavedHolds(saved)
  BY DEF Init, SavedHolds
<1>2. OpenHolds(open) /\ catalog = <<>>
  BY DEF Init, OpenHolds
<1> QED
  BY <1>1, <1>2 DEF Init, WorkspaceHolds

LEMMA WorkspaceSteps ==
  ASSUME WorkspaceHolds(saved, open, snapshot, catalog), [Next]_vars
  PROVE  WorkspaceHolds(saved, open, snapshot, catalog)'
<1>0. /\ SavedHolds(saved) /\ OpenHolds(open)
      /\ snapshot = Unbuilt \/ \E s : SavedHolds(s) /\ snapshot = Build(Disk(s))
      /\ catalog \in {<<>>, <<Flags>>}
  BY DEF WorkspaceHolds
<1>1. CASE Write
  <2>1. PICK f \in Files :
          \/ \E c \in Contents[f] : saved' = [g \in DOMAIN saved \cup {f} |-> IF g = f THEN c ELSE saved[g]]
          \/ f \in DOMAIN saved /\ saved' = [g \in DOMAIN saved \ {f} |-> saved[g]]
    BY <1>1 DEF Write
  <2>2. SavedHolds(saved')
    BY <1>0, <2>1 DEF SavedHolds
  <2>3. open' = open /\ snapshot' = snapshot /\ catalog' = catalog
    BY <1>1 DEF Write
  <2> QED
    BY <1>0, <2>2, <2>3 DEF WorkspaceHolds
<1>2. CASE Open
  <2>1. PICK p \in Paths \ DOMAIN open :
          Link[p] \in DOMAIN saved /\ Readable(saved[Link[p]]) /\ open' = [q \in DOMAIN open \cup {p} |-> IF q = p THEN saved[Link[p]] ELSE open[q]]
    BY <1>2 DEF Open
  <2>2. DOMAIN open' = DOMAIN open \cup {p} /\ open'[p] = saved[Link[p]] /\ \A q \in DOMAIN open : open'[q] = open[q]
    BY <2>1
  <2>3. saved[Link[p]] \in Contents[Link[p]]
    BY <1>0, <2>1 DEF SavedHolds
  <2>4. OpenHolds(open')
    BY <1>0, <2>1, <2>2, <2>3 DEF OpenHolds
  <2>5. saved' = saved /\ snapshot' = snapshot /\ catalog' = catalog
    BY <1>2 DEF Open
  <2> QED
    BY <1>0, <2>4, <2>5 DEF WorkspaceHolds
<1>3. CASE Edit
  <2>1. PICK p \in DOMAIN open : \E c \in Contents[Link[p]] : Readable(c) /\ open' = [open EXCEPT ![p] = c]
    BY <1>3 DEF Edit
  <2>2. OpenHolds(open')
    BY <1>0, <2>1 DEF OpenHolds
  <2>3. saved' = saved /\ snapshot' = snapshot /\ catalog' = catalog
    BY <1>3 DEF Edit
  <2> QED
    BY <1>0, <2>2, <2>3 DEF WorkspaceHolds
<1>4. CASE Close
  <2>1. PICK p \in DOMAIN open : open' = [q \in DOMAIN open \ {p} |-> open[q]]
    BY <1>4 DEF Close
  <2>2. OpenHolds(open')
    BY <1>0, <2>1 DEF OpenHolds
  <2>3. saved' = saved /\ snapshot' = snapshot /\ catalog' = catalog
    BY <1>4 DEF Close
  <2> QED
    BY <1>0, <2>2, <2>3 DEF WorkspaceHolds
<1>5. CASE Adopt
  BY <1>0, <1>5 DEF Adopt, WorkspaceHolds
<1>6. CASE UNCHANGED vars
  BY <1>0, <1>6 DEF vars, WorkspaceHolds
<1> QED
  BY <1>1, <1>2, <1>3, <1>4, <1>5, <1>6 DEF Next

\* The loop only ever answers from the default graph or from one that a build
\* published of files as they were at some time (main.rs, the semantic wake), and
\* the documents and the files hold what they may.
THEOREM WorkspaceStaysGood == Spec => []WorkspaceHolds(saved, open, snapshot, catalog)
<1>1. Init => WorkspaceHolds(saved, open, snapshot, catalog)
  BY WorkspaceStarts
<1>2. WorkspaceHolds(saved, open, snapshot, catalog) /\ [Next]_vars => WorkspaceHolds(saved, open, snapshot, catalog)'
  BY WorkspaceSteps
<1> QED
  BY <1>1, <1>2, PTL DEF Spec

-----------------------------------------------------------------------------
(***************************************************************************)
(* Errors.                                                                 *)
(***************************************************************************)

LEMMA FindingHas ==
  ASSUME NEW at, NEW severity, NEW what
  PROVE  LET d == Finding(at, severity, what)
         IN  d.at = at /\ d.severity = severity /\ d.what = what
BY DEF Finding

\* Only the saved graph has findings of imports.
LEMMA ImportFindings ==
  ASSUME NEW buffers, NEW graph, NEW flags, NEW path,
         NEW d \in Diagnostics(buffers, graph, flags, path), d.what = "import"
  PROVE  d \in GraphProblems(buffers, graph, path)
<1> DEFINE lines == buffers[path]
           view == View(buffers, graph, path)
<1>1. CASE d \in SyntaxDiagnostics(path, lines)
  <2>1. d.what = "syntax"
    BY <1>1 DEF SyntaxDiagnostics, Finding
  <2> QED
    BY <2>1
<1>2. CASE d \in ExpansionFindings(view, path)
  <2>1. PICK f \in Findings(view) : d = Finding(f.at, IF f.kind = "cycle" THEN "error" ELSE "warning", f.kind)
    BY <1>2 DEF ExpansionFindings
  <2>2. f.kind \in {"cycle", "repeated", "deep"}
    BY <2>1 DEF Findings
  <2> QED
    BY <2>1, <2>2, FindingHas
<1>3. CASE \E k \in {j \in DOMAIN lines : lines[j].says = "entry"} :
             d \in EntryDiagnostics(view, flags, path, k, lines[k])
  <2>1. PICK k \in DOMAIN lines : d \in EntryDiagnostics(view, flags, path, k, lines[k])
    BY <1>3
  <2> DEFINE line == lines[k]
  <2> HIDE DEF lines, view
  <2>2. CASE d \in Undeclared(view, path, k, line)
    <3>1. d.what = "undeclared"
      BY <2>2, FindingHas DEF Undeclared
    <3> QED
      BY <3>1
  <2>3. CASE d \in SplitInBody(path, k, line)
    <3>1. PICK j : d = Finding(<<path, k, j>>, "error", "split config")
      <4> HIDE DEF line
      <4> QED
        BY <2>3, Zenon DEF SplitInBody
    <3>2. d.what = "split config"
      BY <3>1 DEF Finding
    <3> QED
      BY <3>2
  <2>4. CASE d \in FlagFindings(flags, path, k, line)
    <3>1. PICK use \in Uses(flags[1], line) : \E w \in UseFindings(flags[1], line, use) :
            d = Finding(<<path, k, use.option>>, FlagSeverity(w), w)
      BY <2>4 DEF FlagFindings
    <3>3. PICK w \in UseFindings(flags[1], line, use) :
            d = Finding(<<path, k, use.option>>, FlagSeverity(w), w)
      BY <3>1
    <3>2. w # "import"
      <4>1. UseFindings(flags[1], line, use) \subseteq {"unrecognized", "scope", "negative value",
               "no value", "bad value", "old", "deprecated", "status"}
        BY DEF UseFindings
      <4> QED
        BY <4>1
    <3> QED
      BY <3>2, <3>3, FindingHas
  <2>5. CASE d = Finding(<<path, k, 0>>, "warning", "command") \/ d = Finding(<<path, k, 0>>, "warning", "section")
    BY <2>5, FindingHas
  <2> QED
    BY <2>1, <2>2, <2>3, <2>4, <2>5 DEF EntryDiagnostics
<1> DEFINE each == UNION {EntryDiagnostics(view, flags, path, k, lines[k]) :
                            k \in {j \in DOMAIN lines : lines[j].says = "entry"}}
<1>4. Diagnostics(buffers, graph, flags, path)
        = SyntaxDiagnostics(path, lines) \cup GraphProblems(buffers, graph, path)
             \cup ExpansionFindings(view, path) \cup each
  BY DEF Diagnostics
<1>5. d \in each => \E k \in {j \in DOMAIN lines : lines[j].says = "entry"} :
                         d \in EntryDiagnostics(view, flags, path, k, lines[k])
  <2> HIDE DEF lines, view
  <2> QED
    OBVIOUS
<1> HIDE DEF lines, view, each
<1>6. d \in SyntaxDiagnostics(path, lines) \/ d \in GraphProblems(buffers, graph, path)
        \/ d \in each \/ d \in ExpansionFindings(view, path)
  BY <1>4
<1> QED
  BY <1>1, <1>2, <1>3, <1>5, <1>6

\* A file of the disk is its own identity in the graph, when it was read.
LEMMA ReadFileIsItself ==
  ASSUME NEW graph, NEW f \in DOMAIN graph.files
  PROVE  Identity(graph, f) = f
BY DEF Identity

LEMMA ErrorIsShown ==
  ASSUME NEW s, SavedHolds(s), NEW flags, NEW e \in Visits(Disk(s))[Root].errors
  PROVE  \E d \in Diagnostics([g \in {e[1]} |-> s[e[1]]], Build(Disk(s)), flags, e[1]) : d.severity = "error"
<1> DEFINE disk == Disk(s)
           graph == Build(disk)
           root == Visits(disk)[Root]
           f == e[1]
           buffers == [g \in {f} |-> s[f]]
           q == Problem(e, "error")
           d == Finding(<<f, q.at[2], 0>>, q.severity, "import")
<1>0. e \in root.errors
  OBVIOUS
<1>1. GoodDisk(disk) /\ disk.lines = s /\ Root \in DOMAIN disk.canonical
  BY DiskIsGood, PathsAssumption
<1>2. VisitHolds(disk, {}, Root, root) /\ GraphHolds(graph, disk, root)
  <2> HIDE DEF disk
  <2> QED
    BY <1>1, BuildHolds
<1>3. ErrorHolds(disk, e, {}, root.errors) /\ IsRead(f, root)
  <2> HIDE DEF disk, root
  <2> QED
    BY <1>0, <1>2 DEF VisitHolds
<1>4. f \in DOMAIN graph.files /\ graph.files[f] = s[f]
  <2> HIDE DEF graph, disk, root
  <2> QED
    BY <1>1, <1>2, <1>3 DEF GraphHolds, ErrorHolds
<1>5. q \in graph.problems
  <2> HIDE DEF graph, disk, root
  <2> QED
    BY <1>0, <1>2 DEF GraphHolds, q
<1>6. q.at = e /\ q.severity = "error"
  BY DEF Problem
<1> HIDE DEF graph, disk, root, q
<1>7. Identity(graph, f) = f
  BY <1>4, ReadFileIsItself
<1>8. buffers[f] = s[f]
  OBVIOUS
<1>9. d \in GraphProblems(buffers, graph, f)
  <2> HIDE DEF buffers
  <2> QED
    BY <1>4, <1>5, <1>6, <1>7, <1>8 DEF GraphProblems
<1>10. d \in Diagnostics(buffers, graph, flags, f)
  BY <1>9 DEF Diagnostics
<1>11. d.severity = "error"
  BY <1>6, FindingHas
<1> QED
  BY <1>10, <1>11 DEF graph, disk

LEMMA MalformedIsShown ==
  ASSUME NEW buffers, NEW graph, NEW flags, NEW path, Malformed(buffers[path])
  PROVE  \E d \in Diagnostics(buffers, graph, flags, path) : d.severity = "error"
<1>1. PICK k \in DOMAIN buffers[path] : buffers[path][k].says = "invalid"
  BY DEF Malformed
<1> DEFINE d == Finding(<<path, k, 0>>, "error", "syntax")
<1>2. d \in SyntaxDiagnostics(path, buffers[path])
  BY <1>1 DEF SyntaxDiagnostics
<1>3. d \in Diagnostics(buffers, graph, flags, path)
  <2> HIDE DEF d
  <2> QED
    BY <1>2 DEF Diagnostics
<1>4. d.severity = "error"
  BY FindingHas
<1> QED
  BY <1>3, <1>4

LEMMA TheErrorsLead ==
  ASSUME WorkspaceHolds(saved, open, snapshot, catalog)
  PROVE  ErrorsLeadToTheCause
<1> SUFFICES ASSUME snapshot = Build(Disk(saved)), Root \in DOMAIN saved, Readable(saved[Root]),
                    snapshot.rootFile = NoFile
             PROVE  /\ Errors(Root, [g \in {Root} |-> saved[Root]]) # {}
                    /\ \A f \in DOMAIN saved :
                         \A d \in {e \in Errors(f, [g \in {f} |-> saved[f]]) : e.what = "import"} :
                           LET file == Link[saved[f][d.at[2]].path]
                           IN  file \in DOMAIN saved /\ Readable(saved[file])
                                 => Errors(file, [g \in {file} |-> saved[file]]) # {}
  BY DEF ErrorsLeadToTheCause
<1> DEFINE disk == Disk(saved)
           root == Visits(disk)[Root]
<1>1. SavedHolds(saved)
  BY DEF WorkspaceHolds
<1>2. /\ GoodDisk(disk) /\ disk.lines = saved /\ DOMAIN disk.canonical = Paths
      /\ \A p \in Paths : disk.canonical[p] = IF Link[p] \in DOMAIN saved THEN Link[p] ELSE NoFile
      /\ Root \in Paths
  BY <1>1, DiskIsGood, PathsAssumption
<1>3. VisitHolds(disk, {}, Root, root) /\ GraphHolds(snapshot, disk, root)
  <2> HIDE DEF disk
  <2> QED
    BY <1>2, BuildHolds DEF disk
<1>4. \A e \in root.errors : Errors(e[1], [g \in {e[1]} |-> saved[e[1]]]) # {}
  BY <1>1, ErrorIsShown DEF Errors
<1>5. ASSUME NEW f \in DOMAIN saved, Malformed(saved[f])
      PROVE  Errors(f, [g \in {f} |-> saved[f]]) # {}
  <2> DEFINE buffers == [g \in {f} |-> saved[f]]
  <2>1. Malformed(buffers[f])
    BY <1>5
  <2> HIDE DEF buffers
  <2>2. Errors(f, buffers) # {}
    BY <2>1, MalformedIsShown DEF Errors
  <2> QED
    BY <2>2 DEF buffers
<1> HIDE DEF disk, root
<1>6. Errors(Root, [g \in {Root} |-> saved[Root]]) # {}
  <2>1. Root \in Files /\ disk.canonical[Root] = Root /\ Root # NoFile
    BY <1>1, <1>2, PathsAssumption, ContentsAssumption DEF SavedHolds
  <2>2. root.outcome # "loaded"
    BY <1>2, <1>3, <2>1 DEF VisitHolds, GraphHolds
  <2>3. root.outcome # "declined"
    BY <1>2, <1>3, <2>1 DEF VisitHolds
  <2>4. Malformed(saved[Root]) \/ \E e \in root.errors : e[1] = Root
    BY <1>2, <1>3, <2>1, <2>2, <2>3 DEF VisitHolds
  <2> QED
    BY <1>4, <1>5, <2>4
<1>7. ASSUME NEW f \in DOMAIN saved, NEW d \in Errors(f, [g \in {f} |-> saved[f]]), d.what = "import",
             NEW file, file = Link[saved[f][d.at[2]].path], file \in DOMAIN saved, Readable(saved[file])
      PROVE  Errors(file, [g \in {file} |-> saved[file]]) # {}
  <2> DEFINE buffers == [g \in {f} |-> saved[f]]
  <2>1. d \in GraphProblems(buffers, snapshot, f) /\ d.severity = "error"
    BY <1>7, ImportFindings DEF Errors
  <2>2. f \in Paths /\ Link[f] = f /\ f # NoFile
    BY <1>1, PathsAssumption, ContentsAssumption DEF SavedHolds
  <2>3. Identity(snapshot, f) \in {NoFile, f}
    BY <1>1, <2>2, IdentityLeads
  <2>4. PICK p \in snapshot.problems :
          /\ d = Finding(<<f, p.at[2], 0>>, p.severity, "import")
          /\ Identity(snapshot, f) \in DOMAIN snapshot.files /\ p.at[1] = Identity(snapshot, f)
    <3> HIDE DEF buffers
    <3> QED
      BY <2>1 DEF GraphProblems
  <2>5. p.at[1] = f
    BY <1>2, <1>3, <2>3, <2>4 DEF GraphHolds, GoodDisk, IsDisk
  <2>6. p.severity = "error" /\ d.at[2] = p.at[2]
    BY <2>1, <2>4, FindingHas
  <2>7. p.at \in root.errors
    BY <1>3, <2>6 DEF GraphHolds
  <2>8. ErrorHolds(disk, p.at, {}, root.errors)
    BY <1>3, <2>7 DEF VisitHolds
  <2>9. /\ d.at[2] \in DOMAIN saved[f] /\ IsImport(saved[f][d.at[2]])
        /\ LeadsOn(disk, p.at, {}, root.errors)
    BY <1>2, <2>5, <2>6, <2>8 DEF ErrorHolds
  <2>10. saved[f][d.at[2]].path \in Paths
    BY <1>2, <2>9 DEF GoodDisk
  <2>11. disk.canonical[saved[f][d.at[2]].path] = file
    BY <1>2, <1>7, <2>10
  <2>12. file # NoFile
    BY <1>2, <1>7 DEF GoodDisk, IsDisk
  <2>13. Malformed(saved[file]) \/ \E other \in root.errors : other[1] = file
    BY <1>2, <1>7, <2>5, <2>6, <2>9, <2>11, <2>12 DEF LeadsOn
  <2> QED
    BY <1>4, <1>5, <1>7, <2>13
<1> QED
  BY <1>6, <1>7

\* Whatever the files import of one another, through links, in circles or in
\* part, when the build of the files on disk fails the root has an error, and an
\* error at an import leads to a file with one, or to a file that is not there or
\* cannot be read (index.rs, Builder::visit; syntax.rs; main.rs, the diagnostics).
THEOREM ErrorsAlwaysLead == Spec => []ErrorsLeadToTheCause
<1>1. WorkspaceHolds(saved, open, snapshot, catalog) => ErrorsLeadToTheCause
  BY TheErrorsLead
<1> QED
  BY <1>1, WorkspaceStaysGood, PTL

-----------------------------------------------------------------------------
(***************************************************************************)
(* What a view collects: the sites of a text are on its lines.             *)
(***************************************************************************)

CollectRow(buffers, graph, visits, active) ==
  [file \in Loaded(graph) |-> CollectFile(buffers, graph, visits[active \cup {file}], active, file)]

IsCollects(visits, buffers, graph) ==
  \A active \in SUBSET Loaded(graph) : visits[active] = CollectRow(buffers, graph, visits, active)

LEMMA CollectStays ==
  ASSUME NEW buffers, NEW graph, NEW active, NEW file \in active, NEW v, NEW w
  PROVE  CollectFile(buffers, graph, v, active, file) = CollectFile(buffers, graph, w, active, file)
BY DEF CollectFile

LEMMA CollectRowsAgree ==
  ASSUME NEW buffers, NEW graph, NEW active \in SUBSET Loaded(graph), NEW v, NEW w,
         \A x \in Loaded(graph) \ active : v[active \cup {x}] = w[active \cup {x}]
  PROVE  CollectRow(buffers, graph, v, active) = CollectRow(buffers, graph, w, active)
<1>1. ASSUME NEW file \in Loaded(graph)
      PROVE  CollectFile(buffers, graph, v[active \cup {file}], active, file)
           = CollectFile(buffers, graph, w[active \cup {file}], active, file)
  <2>1. CASE file \in active
    BY <2>1, CollectStays
  <2>2. CASE file \notin active
    <3>1. v[active \cup {file}] = w[active \cup {file}]
      BY <2>2
    <3> QED
      BY <3>1
  <2> QED
    BY <2>1, <2>2
<1> QED
  BY <1>1 DEF CollectRow

LEMMA CollectsUnfold ==
  ASSUME NEW buffers, NEW graph, IsFiniteSet(Loaded(graph))
  PROVE  \E visits : /\ IsCollects(visits, buffers, graph)
                     /\ \A active \in SUBSET Loaded(graph) : Visiting(buffers, graph, active) = visits[active]
<1> DEFINE D == Loaded(graph)
           Row(v, A) == CollectRow(buffers, graph, v, A)
           Following(v) == [A \in SUBSET D |-> Row(v, A)]
           Fits(v, n) == \A A \in SUBSET D : Cardinality(D \ A) <= n => v[A] = Row(v, A)
           T == {n \in Nat : \E v : Fits(v, n)}
<1>0. /\ IsFiniteSet(D) /\ \A A \in SUBSET D : Cardinality(D \ A) \in Nat
      /\ \A A \in SUBSET D : \A x \in D \ A : A \cup {x} \in SUBSET D
      /\ \A A \in SUBSET D : \A x \in D \ A : Cardinality(D \ (A \cup {x})) = Cardinality(D \ A) - 1
  BY FewerLeft, FS_Subset, FS_CardinalityType
<1>1. \A v : \A A \in SUBSET D : Following(v)[A] = Row(v, A)
  OBVIOUS
<1> HIDE DEF Following
<1>11. ASSUME NEW v, NEW w, NEW A \in SUBSET D, \A x \in D \ A : v[A \cup {x}] = w[A \cup {x}]
       PROVE  Row(v, A) = Row(w, A)
  BY <1>11, CollectRowsAgree
<1> HIDE DEF D, Row
<1>2. 0 \in T
  <2>1. Fits(Following(<<>>), 0)
    <3> SUFFICES ASSUME NEW A \in SUBSET D, Cardinality(D \ A) <= 0
                 PROVE  Following(<<>>)[A] = Row(Following(<<>>), A)
      OBVIOUS
    <3>1. ASSUME NEW x \in D \ A PROVE FALSE
      <4>1. Cardinality(D \ A) \in Nat /\ Cardinality(D \ (A \cup {x})) \in Nat
        BY <1>0
      <4>2. Cardinality(D \ (A \cup {x})) = Cardinality(D \ A) - 1
        BY <1>0
      <4> QED
        BY <4>1, <4>2
    <3>2. Row(<<>>, A) = Row(Following(<<>>), A)
      BY <3>1, <1>11
    <3> QED
      BY <3>2, <1>1
  <2> QED
    BY <2>1
<1>3. ASSUME NEW n \in Nat, n \in T PROVE n + 1 \in T
  <2>1. PICK v : Fits(v, n)
    BY <1>3
  <2>2. Fits(Following(v), n + 1)
    <3> SUFFICES ASSUME NEW A \in SUBSET D, Cardinality(D \ A) <= n + 1
                 PROVE  Following(v)[A] = Row(Following(v), A)
      OBVIOUS
    <3>1. ASSUME NEW x \in D \ A PROVE v[A \cup {x}] = Following(v)[A \cup {x}]
      <4>1. A \cup {x} \in SUBSET D /\ Cardinality(D \ (A \cup {x})) <= n
        BY <1>0, SMTT(30)
      <4>2. v[A \cup {x}] = Row(v, A \cup {x})
        BY <2>1, <4>1
      <4> QED
        BY <1>1, <4>1, <4>2
    <3>2. Row(v, A) = Row(Following(v), A)
      BY <3>1, <1>11
    <3> QED
      BY <3>2, <1>1
  <2>3. \E u : Fits(u, n + 1)
    <3> HIDE DEF Fits
    <3> QED
      BY <2>2
  <2> HIDE DEF Fits
  <2> QED
    BY <2>3
<1>4. Cardinality(D) \in T
  <2> HIDE DEF T
  <2>1. Nat \subseteq T
    BY <1>2, <1>3, SetInduction
  <2> QED
    BY <2>1, <1>0, FS_CardinalityType
<1>5. PICK v : Fits(v, Cardinality(D))
  BY <1>4
<1>6. \A A \in SUBSET D : v[A] = Row(v, A)
  <2> SUFFICES ASSUME NEW A \in SUBSET D PROVE v[A] = Row(v, A)
    OBVIOUS
  <2>1. Cardinality(D \ A) <= Cardinality(D)
    BY <1>0, FS_Subset
  <2> QED
    BY <1>5, <2>1
<1> DEFINE w == Following(v)
<1>7. \A A \in SUBSET D : w[A] = v[A]
  BY <1>1, <1>6
<1>8. \A A \in SUBSET D : Row(v, A) = Row(w, A)
  <2> SUFFICES ASSUME NEW A \in SUBSET D PROVE Row(v, A) = Row(w, A)
    OBVIOUS
  <2>1. \A x \in D \ A : v[A \cup {x}] = w[A \cup {x}]
    BY <1>0, <1>7
  <2> HIDE DEF w
  <2> QED
    BY <2>1, <1>11
<1>9. w = [A \in SUBSET D |-> Row(w, A)]
  BY <1>8 DEF Following
<1> DEFINE c == CHOOSE u : u = [A \in SUBSET D |-> Row(u, A)]
<1>10. c = [A \in SUBSET D |-> Row(c, A)]
  <2> HIDE DEF w
  <2> QED
    BY <1>9
<1>12. \A A \in SUBSET D : Visiting(buffers, graph, A) = c[A]
  BY DEF Visiting, CollectRow, Row, D
<1>13. IsCollects(c, buffers, graph)
  <2> SUFFICES ASSUME NEW A \in SUBSET D PROVE c[A] = Row(c, A)
    BY DEF IsCollects, D, Row
  <2> HIDE DEF c
  <2> QED
    BY <1>10
<1> QED
  <2> HIDE DEF c
  <2> QED
    BY <1>12, <1>13 DEF D

DeclaredIn(site, at, lines) ==
  \E k \in DOMAIN lines :
    /\ lines[k].says = "entry" /\ Declares(lines[k])
    /\ site = ConfigSite(lines[k].name, lines[k].command, <<at, k, 0>>, NoName)

ReferredIn(site, at, lines) ==
  \E k \in DOMAIN lines : \E j \in DOMAIN lines[k].options :
    /\ lines[k].says = "entry" /\ AcceptsConfig(lines[k].command) /\ Referenced(lines[k], j) # NoName
    /\ site = ConfigSite(Referenced(lines[k], j), lines[k].command, <<at, k, j>>, lines[k].name)

\* The references of an entry are at its options.
LEMMA ReferencesAre ==
  ASSUME NEW file, NEW k, NEW line, IsSeq(line.options)
  PROVE  ToSet(ReferencesOf(file, k, line)) =
           {ConfigSite(Referenced(line, j), line.command, <<file, k, j>>, line.name) :
              j \in {i \in DOMAIN line.options : AcceptsConfig(line.command) /\ Referenced(line, i) # NoName}}
<1> DEFINE n == Len(line.options)
           site(j) == ConfigSite(Referenced(line, j), line.command, <<file, k, j>>, line.name)
           none(j) == ~AcceptsConfig(line.command) \/ Referenced(line, j) = NoName
           g == [j \in 1 .. n |-> IF none(j) THEN <<>> ELSE <<site(j)>>]
<1>2. n \in Nat /\ DOMAIN line.options = 1 .. n
  BY IsSeqHas
<1>3. \A j \in 1 .. n : IsSeq(g[j]) /\ ToSet(g[j]) = IF none(j) THEN {} ELSE {site(j)}
  <2> SUFFICES ASSUME NEW j \in 1 .. n PROVE IsSeq(g[j]) /\ ToSet(g[j]) = IF none(j) THEN {} ELSE {site(j)}
    OBVIOUS
  <2>1. g[j] = IF none(j) THEN <<>> ELSE <<site(j)>>
    OBVIOUS
  <2> HIDE DEF g, none, site
  <2> QED
    BY <2>1, ShortIsSeq
<1>4. ToSet(FlattenSeq(g)) = UNION {ToSet(g[j]) : j \in 1 .. n}
  <2>1. g = [j \in 1 .. n |-> g[j]]
    OBVIOUS
  <2>3. \A j \in 1 .. n : IsSeq(g[j])
    BY <1>3
  <2> HIDE DEF g, n
  <2>2. ToSet(FlattenSeq([j \in 1 .. n |-> g[j]])) = UNION {ToSet(g[j]) : j \in 1 .. n}
    BY <1>2, <2>3, PiecesJoin
  <2> QED
    BY <2>1, <2>2
<1>5. ReferencesOf(file, k, line) = FlattenSeq(g)
  BY <1>2 DEF ReferencesOf
<1>6. UNION {ToSet(g[j]) : j \in 1 .. n} = {site(j) : j \in {i \in 1 .. n : ~none(i)}}
  <2> HIDE DEF g, none, site
  <2> QED
    BY <1>3
<1>7. {i \in 1 .. n : ~none(i)} = {i \in DOMAIN line.options : AcceptsConfig(line.command) /\ Referenced(line, i) # NoName}
  BY <1>2
<1> QED
  BY <1>4, <1>5, <1>6, <1>7

\* What a graph that was published, or the default one, has.
GraphFine(graph) ==
  /\ IsSeq(graph.imports) /\ IsFiniteSet(Loaded(graph))
  /\ \A f \in DOMAIN graph.files : f \in Files /\ graph.files[f] \in Contents[f]

LEMMA GraphsAreFine ==
  ASSUME NEW graph, graph = Unbuilt \/ \E s : SavedHolds(s) /\ graph = Build(Disk(s))
  PROVE  GraphFine(graph)
<1>1. CASE graph = Unbuilt
  <2>1. graph.imports = <<>> /\ graph.files = <<>> /\ graph.rootFile = NoFile
    BY <1>1 DEF Unbuilt
  <2>2. IsSeq(graph.imports) /\ DOMAIN graph.files = {}
    BY <2>1, ShortIsSeq
  <2>3. Loaded(graph) = {NoFile, Root}
    BY <2>1 DEF Loaded
  <2>4. IsFiniteSet({NoFile, Root})
    <3>1. IsFiniteSet({} \cup {NoFile})
      BY FS_EmptySet, FS_AddElement
    <3>2. IsFiniteSet(({} \cup {NoFile}) \cup {Root})
      BY <3>1, FS_AddElement
    <3>3. ({} \cup {NoFile}) \cup {Root} = {NoFile, Root}
      OBVIOUS
    <3> QED
      BY <3>2, <3>3
  <2> QED
    BY <2>2, <2>3, <2>4 DEF GraphFine
<1>2. ASSUME NEW s, SavedHolds(s), graph = Build(Disk(s)) PROVE GraphFine(graph)
  <2> DEFINE disk == Disk(s)
             root == Visits(disk)[Root]
  <2>1. /\ GoodDisk(disk) /\ DOMAIN disk.canonical = Paths /\ disk.lines = s /\ Root \in Paths
        /\ \A p \in Paths : disk.canonical[p] = IF Link[p] \in DOMAIN s THEN Link[p] ELSE NoFile
    BY <1>2, DiskIsGood, PathsAssumption
  <2>2. GraphHolds(graph, disk, root)
    <3> HIDE DEF disk
    <3> QED
      BY <1>2, <2>1, BuildHolds DEF disk
  <2> HIDE DEF disk, root
  <2>3. IsSeq(graph.imports) /\ DOMAIN graph.files \subseteq DOMAIN s
    BY <2>1, <2>2 DEF GraphHolds
  <2>4. \A f \in DOMAIN graph.files : f \in Files /\ graph.files[f] \in Contents[f]
    BY <1>2, <2>1, <2>2 DEF GraphHolds, SavedHolds
  <2>5. Loaded(graph) \subseteq Files \cup {NoFile, Root}
    <3> SUFFICES ASSUME NEW i \in DOMAIN graph.imports
                 PROVE  graph.imports[i].loaded \in Files \cup {NoFile}
      <4>1. graph.rootFile \in Files \cup {NoFile}
        BY <2>2, <2>4 DEF GraphHolds
      <4> QED
        BY <4>1 DEF Loaded
    <3>1. graph.imports[i] \in ToSet(graph.imports)
      BY DEF ToSet
    <3> QED
      BY <2>2, <2>4, <3>1 DEF GraphHolds
  <2>6. IsFiniteSet(Files \cup {NoFile, Root})
    <3>1. IsFiniteSet((Files \cup {NoFile}) \cup {Root})
      BY ContentsAssumption, FS_AddElement
    <3>2. (Files \cup {NoFile}) \cup {Root} = Files \cup {NoFile, Root}
      OBVIOUS
    <3> QED
      BY <3>1, <3>2
  <2>7. IsFiniteSet(Loaded(graph))
    BY <2>5, <2>6, FS_Subset
  <2> QED
    BY <2>3, <2>4, <2>7 DEF GraphFine
<1> QED
  BY <1>1, <1>2

LEMMA FirstIsLoaded ==
  ASSUME NEW graph, IsSeq(graph.imports), NEW imports \in SUBSET DOMAIN graph.imports
  PROVE  FirstLoaded(graph, imports) = NoFile
           \/ \E i \in imports : graph.imports[i].loaded = FirstLoaded(graph, imports) /\ graph.imports[i].loaded # NoFile
<1> DEFINE loaded == {i \in imports : graph.imports[i].loaded # NoFile}
<1>1. loaded \in SUBSET Nat
  BY IsSeqHas
<1>2. CASE loaded = {}
  BY <1>2 DEF FirstLoaded
<1>3. CASE loaded # {}
  <2>1. Min(loaded) \in loaded
    BY <1>1, <1>3, MinIsLeast
  <2>2. FirstLoaded(graph, imports) = graph.imports[Min(loaded)].loaded
    BY <1>3 DEF FirstLoaded
  <2> QED
    BY <2>1, <2>2
<1> QED
  BY <1>2, <1>3

LEMMA ImportIsLoaded ==
  ASSUME NEW graph, IsSeq(graph.imports), NEW path, LoadedImport(graph, path) # NoFile
  PROVE  LoadedImport(graph, path) \in Loaded(graph)
<1>1. ActiveImportsOf(graph, path) \in SUBSET DOMAIN graph.imports
  BY DEF ActiveImportsOf, ImportsOf
<1>2. \E i \in DOMAIN graph.imports : graph.imports[i].loaded = LoadedImport(graph, path)
  BY <1>1, FirstIsLoaded DEF LoadedImport
<1> QED
  BY <1>2 DEF Loaded

\* Lines that a file may hold.
IsText(lines) == \E f \in Files : lines \in Contents[f]

LEMMA TextHas ==
  ASSUME NEW lines, IsText(lines)
  PROVE  /\ IsSeq(lines)
         /\ \A k \in DOMAIN lines : /\ IsSeq(lines[k].options) /\ lines[k].name # Fresh
                                    /\ IsImport(lines[k]) => lines[k].path \in Paths
BY ContentsAssumption DEF IsText, IsSeq

\* Where the sites of a view are: on the lines of a text, and where a document is
\* open, on its own.
PlacedAt(buffers, at, lines) == IsText(lines) /\ (at \in DOMAIN buffers => lines = buffers[at])

SitesHold(buffers, c) ==
  /\ IsSeq(c.declarations) /\ IsSeq(c.references)
  /\ \A s \in ToSet(c.declarations) : \E lines : PlacedAt(buffers, s.at[1], lines) /\ DeclaredIn(s, s.at[1], lines)
  /\ \A s \in ToSet(c.references) : \E lines : PlacedAt(buffers, s.at[1], lines) /\ ReferredIn(s, s.at[1], lines)

LEMMA NothingHolds ==
  ASSUME NEW buffers, NEW valid
  PROVE  SitesHold(buffers, Collected(valid, <<>>, <<>>))
BY ShortIsSeq DEF SitesHold, Collected

LEMMA CollectedJoin ==
  ASSUME NEW parts, IsSeq(parts),
         \A k \in DOMAIN parts : IsSeq(parts[k].declarations) /\ IsSeq(parts[k].references)
  PROVE  LET c == CollectLines(parts)
         IN  /\ IsSeq(c.declarations) /\ IsSeq(c.references)
             /\ c.valid = \A k \in DOMAIN parts : parts[k].valid
             /\ c.declarations = FlattenSeq([k \in DOMAIN parts |-> parts[k].declarations])
             /\ c.references = FlattenSeq([k \in DOMAIN parts |-> parts[k].references])
             /\ \A s \in ToSet(c.declarations) : \E k \in DOMAIN parts : s \in ToSet(parts[k].declarations)
             /\ \A s \in ToSet(c.references) : \E k \in DOMAIN parts : s \in ToSet(parts[k].references)
<1> DEFINE c == CollectLines(parts)
           n == Len(parts)
           d == [k \in 1 .. n |-> parts[k].declarations]
           r == [k \in 1 .. n |-> parts[k].references]
<1>1. n \in Nat /\ DOMAIN parts = 1 .. n /\ n \in 0 .. n
  BY IsSeqHas
<1>2. /\ c.valid = \A k \in DOMAIN parts : parts[k].valid
      /\ c.declarations = FlattenSeq([k \in DOMAIN parts |-> parts[k].declarations])
      /\ c.references = FlattenSeq([k \in DOMAIN parts |-> parts[k].references])
  BY DEF CollectLines, Collected
<1>3. c.declarations = FlattenSeq(d) /\ c.references = FlattenSeq(r)
  BY <1>1, <1>2
<1> HIDE DEF c
<1>4. IsSeq(FlattenSeq(d)) /\ ToSet(FlattenSeq(d)) = UNION {ToSet(d[k]) : k \in 1 .. n}
  <2>1. d = [k \in 1 .. n |-> d[k]] /\ \A k \in 1 .. n : IsSeq(d[k])
    BY <1>1
  <2> HIDE DEF d, n
  <2>2. IsSeq(FlattenSeq([k \in 1 .. n |-> d[k]])) /\ ToSet(FlattenSeq([k \in 1 .. n |-> d[k]])) = UNION {ToSet(d[k]) : k \in 1 .. n}
    BY <1>1, <2>1, PiecesJoin
  <2> QED
    BY <2>1, <2>2
<1>5. IsSeq(FlattenSeq(r)) /\ ToSet(FlattenSeq(r)) = UNION {ToSet(r[k]) : k \in 1 .. n}
  <2>1. r = [k \in 1 .. n |-> r[k]] /\ \A k \in 1 .. n : IsSeq(r[k])
    BY <1>1
  <2> HIDE DEF r, n
  <2>2. IsSeq(FlattenSeq([k \in 1 .. n |-> r[k]])) /\ ToSet(FlattenSeq([k \in 1 .. n |-> r[k]])) = UNION {ToSet(r[k]) : k \in 1 .. n}
    BY <1>1, <2>1, PiecesJoin
  <2> QED
    BY <2>1, <2>2
<1>6. ASSUME NEW s \in ToSet(c.declarations) PROVE \E k \in DOMAIN parts : s \in ToSet(parts[k].declarations)
  <2>1. PICK k \in 1 .. n : s \in ToSet(d[k])
    <3> HIDE DEF d, n
    <3> QED
      BY <1>3, <1>4
  <2> QED
    BY <1>1, <2>1
<1>7. ASSUME NEW s \in ToSet(c.references) PROVE \E k \in DOMAIN parts : s \in ToSet(parts[k].references)
  <2>1. PICK k \in 1 .. n : s \in ToSet(r[k])
    <3> HIDE DEF r, n
    <3> QED
      BY <1>3, <1>5
  <2> QED
    BY <1>1, <2>1
<1>8. IsSeq(c.declarations) /\ IsSeq(c.references)
  <2> HIDE DEF d, r
  <2> QED
    BY <1>3, <1>4, <1>5
<1> HIDE DEF d, r, n
<1> QED
  BY <1>2, <1>6, <1>7, <1>8 DEF c

LEMMA CollectedHolds ==
  ASSUME NEW buffers, NEW parts, IsSeq(parts), \A k \in DOMAIN parts : SitesHold(buffers, parts[k])
  PROVE  SitesHold(buffers, CollectLines(parts))
<1> DEFINE c == CollectLines(parts)
<1>1. \A k \in DOMAIN parts : IsSeq(parts[k].declarations) /\ IsSeq(parts[k].references)
  BY DEF SitesHold
<1>2. /\ IsSeq(c.declarations) /\ IsSeq(c.references)
      /\ \A s \in ToSet(c.declarations) : \E k \in DOMAIN parts : s \in ToSet(parts[k].declarations)
      /\ \A s \in ToSet(c.references) : \E k \in DOMAIN parts : s \in ToSet(parts[k].references)
  BY <1>1, CollectedJoin
<1> HIDE DEF c
<1>3. SitesHold(buffers, c)
  BY <1>2 DEF SitesHold
<1> QED
  BY <1>3 DEF c

LEMMA EntryIsPlaced ==
  ASSUME NEW buffers, NEW at, NEW lines, PlacedAt(buffers, at, lines),
         NEW k \in DOMAIN lines, lines[k].says = "entry"
  PROVE  SitesHold(buffers, Collected(TRUE, DeclarationsOf(at, k, lines[k]), ReferencesOf(at, k, lines[k])))
<1> DEFINE line == lines[k]
           c == Collected(TRUE, DeclarationsOf(at, k, line), ReferencesOf(at, k, line))
<1>1. IsSeq(line.options)
  BY TextHas DEF PlacedAt
<1>2. c.declarations = DeclarationsOf(at, k, line) /\ c.references = ReferencesOf(at, k, line)
  BY DEF Collected
<1> HIDE DEF c
<1>3. IsSeq(c.declarations) /\ IsSeq(c.references)
  BY <1>1, <1>2, SitesOfEntries
<1>4. ASSUME NEW s \in ToSet(c.declarations)
      PROVE  PlacedAt(buffers, s.at[1], lines) /\ DeclaredIn(s, s.at[1], lines)
  <2>1. Declares(line) /\ s = ConfigSite(line.name, line.command, <<at, k, 0>>, NoName)
    BY <1>2, ShortIsSeq DEF DeclarationsOf
  <2>2. s.at[1] = at
    BY <2>1 DEF ConfigSite
  <2> QED
    BY <2>1, <2>2 DEF DeclaredIn
<1>5. ASSUME NEW s \in ToSet(c.references)
      PROVE  PlacedAt(buffers, s.at[1], lines) /\ ReferredIn(s, s.at[1], lines)
  <2>1. PICK j \in DOMAIN line.options :
           /\ AcceptsConfig(line.command) /\ Referenced(line, j) # NoName
           /\ s = ConfigSite(Referenced(line, j), line.command, <<at, k, j>>, line.name)
    BY <1>1, <1>2, ReferencesAre
  <2>2. s.at[1] = at
    BY <2>1 DEF ConfigSite
  <2> QED
    BY <2>1, <2>2 DEF ReferredIn
<1>6. SitesHold(buffers, c)
  BY <1>3, <1>4, <1>5 DEF SitesHold
<1> QED
  BY <1>6 DEF c

LEMMA TextIsPlaced ==
  ASSUME NEW buffers, NEW graph, IsSeq(graph.imports), NEW at, NEW lines, PlacedAt(buffers, at, lines),
         NEW visits, \A f \in Loaded(graph) : SitesHold(buffers, visits[f])
  PROVE  SitesHold(buffers, CollectText(graph, visits, at, lines))
<1>1. CASE Malformed(lines)
  BY <1>1, NothingHolds DEF CollectText
<1>2. CASE ~Malformed(lines)
  <2> DEFINE parts == [k \in DOMAIN lines |-> CollectLine(graph, visits, at, k, lines[k])]
  <2>1. CollectText(graph, visits, at, lines) = CollectLines(parts)
    BY <1>2 DEF CollectText
  <2>2. IsSeq(parts)
    <3>1. Len(lines) \in Nat /\ DOMAIN lines = 1 .. Len(lines)
      BY TextHas, IsSeqHas DEF PlacedAt
    <3>2. DOMAIN parts = 1 .. Len(lines) /\ parts = [k \in 1 .. Len(lines) |-> parts[k]]
      BY <3>1
    <3> HIDE DEF parts
    <3> QED
      BY <3>1, <3>2, MadeIsSeq
  <2>3. ASSUME NEW k \in DOMAIN parts PROVE SitesHold(buffers, parts[k])
    <3> DEFINE line == lines[k]
               loaded == LoadedImport(graph, line.path)
    <3>1. parts[k] = CollectLine(graph, visits, at, k, line) /\ k \in DOMAIN lines
      OBVIOUS
    <3>2. CASE line.says = "entry"
      BY <3>1, <3>2, EntryIsPlaced DEF CollectLine
    <3>3. CASE line.says # "entry" /\ IsImport(line) /\ Active(line) /\ graph.root /\ loaded # NoFile
      <4>1. CollectLine(graph, visits, at, k, line) = visits[loaded]
        BY <3>3 DEF CollectLine
      <4>2. loaded \in Loaded(graph)
        BY <3>3, ImportIsLoaded
      <4> QED
        BY <3>1, <4>1, <4>2
    <3>4. CASE line.says # "entry" /\ ~(IsImport(line) /\ Active(line) /\ graph.root /\ loaded # NoFile)
      BY <3>1, <3>4, NothingHolds DEF CollectLine, Nothing
    <3> QED
      BY <3>2, <3>3, <3>4
  <2> HIDE DEF parts
  <2> QED
    BY <2>1, <2>2, <2>3, CollectedHolds
<1> QED
  BY <1>1, <1>2

LEMMA CollectIsPlaced ==
  ASSUME NEW buffers, OpenHolds(buffers), NEW graph, GraphFine(graph),
         NEW visits, IsCollects(visits, buffers, graph)
  PROVE  \A active \in SUBSET Loaded(graph) : \A f \in Loaded(graph) : SitesHold(buffers, visits[active][f])
<1> DEFINE D == Loaded(graph)
           T == {A \in SUBSET D : \A f \in D : SitesHold(buffers, visits[A][f])}
<1>0. IsSeq(graph.imports)
  BY DEF GraphFine
<1>1. ASSUME NEW A \in SUBSET D, \A x \in D \ A : A \cup {x} \in T PROVE A \in T
  <2> SUFFICES ASSUME NEW file \in D PROVE SitesHold(buffers, visits[A][file])
    OBVIOUS
  <2> DEFINE at == SourceOf(buffers, graph, file)
             w == visits[A \cup {file}]
  <2>1. visits[A][file] = CollectFile(buffers, graph, w, A, file)
    BY DEF IsCollects, CollectRow
  <2>2. CASE file \in A
    BY <2>1, <2>2, NothingHolds DEF CollectFile, Nothing
  <2>3. ASSUME file \notin A PROVE \A f \in Loaded(graph) : SitesHold(buffers, w[f])
    BY <1>1, <2>3
  <2>4. CASE file \notin A /\ OpenAt(buffers, graph, file) # {}
    <3>1. at \in DOMAIN buffers
      BY <2>4 DEF SourceOf, OpenAt
    <3>2. buffers[at] \in Contents[Link[at]] /\ Link[at] \in Files
      BY <3>1, PathsAssumption DEF OpenHolds
    <3>3. PlacedAt(buffers, at, buffers[at])
      BY <3>2 DEF PlacedAt, IsText
    <3>4. visits[A][file] = CollectText(graph, w, at, buffers[at])
      BY <2>1, <2>4 DEF CollectFile
    <3> HIDE DEF at, w
    <3> QED
      BY <1>0, <2>3, <2>4, <3>3, <3>4, TextIsPlaced
  <2>5. CASE file \notin A /\ OpenAt(buffers, graph, file) = {} /\ file \in DOMAIN graph.files
    <3>1. at = file
      BY <2>5 DEF SourceOf
    <3>2. file \notin DOMAIN buffers
      BY <2>5, ReadFileIsItself DEF OpenAt
    <3>3. PlacedAt(buffers, file, graph.files[file])
      BY <2>5, <3>2 DEF PlacedAt, IsText, GraphFine
    <3>4. visits[A][file] = CollectText(graph, w, file, graph.files[file])
      BY <2>1, <2>5, <3>1 DEF CollectFile
    <3> HIDE DEF at, w
    <3> QED
      BY <1>0, <2>3, <2>5, <3>3, <3>4, TextIsPlaced
  <2>6. CASE file \notin A /\ OpenAt(buffers, graph, file) = {} /\ file \notin DOMAIN graph.files
    BY <2>1, <2>6, NothingHolds DEF CollectFile
  <2> QED
    BY <2>2, <2>4, <2>5, <2>6
<1>2. IsFiniteSet(D)
  BY DEF GraphFine
<1>3. SUBSET D \subseteq T
  <2> HIDE DEF D, T
  <2> QED
    BY <1>1, <1>2, DownInduction
<1> QED
  BY <1>3

LEMMA FinishedHolds ==
  ASSUME NEW buffers, NEW graph, NEW c, SitesHold(buffers, c)
  PROVE  SitesHold(buffers, Finished(graph, c))
BY ShortIsSeq DEF SitesHold, Finished

LEMMA WorkspaceViewIsPlaced ==
  ASSUME NEW buffers, OpenHolds(buffers), NEW graph, GraphFine(graph)
  PROVE  SitesHold(buffers, WorkspaceView(buffers, graph))
<1>1. PICK visits : /\ IsCollects(visits, buffers, graph)
                    /\ \A active \in SUBSET Loaded(graph) : Visiting(buffers, graph, active) = visits[active]
  BY CollectsUnfold DEF GraphFine
<1>2. \A active \in SUBSET Loaded(graph) : \A f \in Loaded(graph) :
         SitesHold(buffers, Visiting(buffers, graph, active)[f])
  BY <1>1, CollectIsPlaced
<1>3. CASE graph.rootFile # NoFile
  <2>1. graph.rootFile \in Loaded(graph)
    BY DEF Loaded
  <2>2. SitesHold(buffers, Visiting(buffers, graph, {})[graph.rootFile])
    BY <1>2, <2>1
  <2> QED
    BY <1>3, <2>2, FinishedHolds DEF WorkspaceView
<1>4. CASE graph.rootFile = NoFile /\ graph.problems = {} /\ graph.root /\ Root \in DOMAIN buffers
  <2> DEFINE w == Visiting(buffers, graph, {Root})
  <2>1. {Root} \in SUBSET Loaded(graph)
    BY DEF Loaded
  <2>2. \A f \in Loaded(graph) : SitesHold(buffers, w[f])
    BY <1>2, <2>1
  <2>3. PlacedAt(buffers, Root, buffers[Root])
    BY <1>4, PathsAssumption DEF OpenHolds, PlacedAt, IsText
  <2>4. SitesHold(buffers, CollectText(graph, w, Root, buffers[Root]))
    <3> HIDE DEF w
    <3> QED
      BY <2>2, <2>3, TextIsPlaced DEF GraphFine
  <2> QED
    BY <1>4, <2>4, FinishedHolds DEF WorkspaceView
<1>5. CASE graph.rootFile = NoFile /\ ~(graph.problems = {} /\ graph.root /\ Root \in DOMAIN buffers)
  <2>1. WorkspaceView(buffers, graph) = Finished(graph, Nothing)
    BY <1>5 DEF WorkspaceView
  <2> QED
    BY <2>1, NothingHolds, FinishedHolds DEF Nothing
<1> QED
  BY <1>3, <1>4, <1>5

LEMMA ViewIsPlaced ==
  ASSUME NEW buffers, OpenHolds(buffers), NEW graph, GraphFine(graph), NEW path \in DOMAIN buffers
  PROVE  SitesHold(buffers, View(buffers, graph, path))
<1> DEFINE lines == buffers[path]
           parts == [k \in DOMAIN lines |->
                       IF lines[k].says = "entry"
                       THEN Collected(TRUE, DeclarationsOf(path, k, lines[k]), ReferencesOf(path, k, lines[k]))
                       ELSE Nothing]
<1>1. CASE Includes(graph, path) \/ (graph.root /\ path = Root)
  BY <1>1, WorkspaceViewIsPlaced DEF View
<1>2. CASE ~(Includes(graph, path) \/ (graph.root /\ path = Root))
  <2>1. PlacedAt(buffers, path, lines)
    BY PathsAssumption DEF OpenHolds, PlacedAt, IsText
  <2>2. IsSeq(parts)
    <3>1. Len(lines) \in Nat /\ DOMAIN lines = 1 .. Len(lines)
      BY <2>1, TextHas, IsSeqHas DEF PlacedAt
    <3>2. DOMAIN parts = 1 .. Len(lines) /\ parts = [k \in 1 .. Len(lines) |-> parts[k]]
      BY <3>1
    <3> HIDE DEF parts
    <3> QED
      BY <3>1, <3>2, MadeIsSeq
  <2>3. ASSUME NEW k \in DOMAIN parts PROVE SitesHold(buffers, parts[k])
    <3>1. CASE lines[k].says = "entry"
      BY <2>1, <3>1, EntryIsPlaced
    <3>2. CASE lines[k].says # "entry"
      BY <3>2, NothingHolds DEF Nothing
    <3> QED
      BY <3>1, <3>2
  <2> DEFINE own == CollectLines(parts)
  <2>4. View(buffers, graph, path) =
           [ready |-> Ready(graph), declarations |-> own.declarations, references |-> own.references]
    BY <1>2 DEF View
  <2>5. SitesHold(buffers, own)
    <3> HIDE DEF parts
    <3> QED
      BY <2>2, <2>3, CollectedHolds
  <2> HIDE DEF own
  <2> QED
    BY <2>4, <2>5 DEF SitesHold
<1> QED
  BY <1>1, <1>2

-----------------------------------------------------------------------------
(***************************************************************************)
(* What requests answer.                                                   *)
(***************************************************************************)

\* A site at a place of a document is on its line, and says what the line says.
LEMMA SitesSay ==
  ASSUME NEW buffers, NEW view, SitesHold(buffers, view), NEW path \in DOMAIN buffers
  PROVE  /\ \A s \in ToSet(view.declarations) :
              s.at[1] = path => DeclaredIn(s, path, buffers[path])
         /\ \A s \in ToSet(view.references) :
              s.at[1] = path => ReferredIn(s, path, buffers[path])
<1>1. ASSUME NEW s \in ToSet(view.declarations), s.at[1] = path PROVE DeclaredIn(s, path, buffers[path])
  BY <1>1 DEF SitesHold, PlacedAt
<1>2. ASSUME NEW s \in ToSet(view.references), s.at[1] = path PROVE ReferredIn(s, path, buffers[path])
  BY <1>2 DEF SitesHold, PlacedAt
<1> QED
  BY <1>1, <1>2

LEMMA DeclarationSays ==
  ASSUME NEW s, NEW at, NEW lines, IsSeq(lines), DeclaredIn(s, at, lines)
  PROVE  /\ s.at = <<at, s.at[2], 0>> /\ s.at[2] \in DOMAIN lines /\ s.at[3] = 0
         /\ lines[s.at[2]].says = "entry" /\ Declares(lines[s.at[2]])
         /\ s.name = lines[s.at[2]].name /\ s.command = lines[s.at[2]].command
BY DEF DeclaredIn, ConfigSite

LEMMA ReferenceSays ==
  ASSUME NEW s, NEW at, NEW lines, IsText(lines), ReferredIn(s, at, lines)
  PROVE  /\ s.at = <<at, s.at[2], s.at[3]>> /\ s.at[2] \in DOMAIN lines
         /\ s.at[3] \in DOMAIN lines[s.at[2]].options /\ s.at[3] \in Nat \ {0}
         /\ lines[s.at[2]].says = "entry" /\ AcceptsConfig(lines[s.at[2]].command)
         /\ s.name = Referenced(lines[s.at[2]], s.at[3]) /\ s.name # NoName
         /\ s.command = lines[s.at[2]].command
<1>1. PICK k \in DOMAIN lines : \E j \in DOMAIN lines[k].options :
         /\ lines[k].says = "entry" /\ AcceptsConfig(lines[k].command) /\ Referenced(lines[k], j) # NoName
         /\ s = ConfigSite(Referenced(lines[k], j), lines[k].command, <<at, k, j>>, lines[k].name)
  BY DEF ReferredIn
<1>2. PICK j \in DOMAIN lines[k].options :
         /\ lines[k].says = "entry" /\ AcceptsConfig(lines[k].command) /\ Referenced(lines[k], j) # NoName
         /\ s = ConfigSite(Referenced(lines[k], j), lines[k].command, <<at, k, j>>, lines[k].name)
  BY <1>1
<1>3. IsSeq(lines[k].options)
  BY TextHas
<1>4. j \in Nat \ {0}
  BY <1>3, IsSeqHas
<1>5. s.at = <<at, k, j>> /\ s.name = Referenced(lines[k], j) /\ s.command = lines[k].command
  BY <1>2 DEF ConfigSite
<1>6. s.at[1] = at /\ s.at[2] = k /\ s.at[3] = j
  BY <1>5
<1> QED
  BY <1>2, <1>4, <1>5, <1>6

LEMMA OpenIsText ==
  ASSUME NEW buffers, OpenHolds(buffers), NEW path \in DOMAIN buffers
  PROVE  IsText(buffers[path])
BY PathsAssumption DEF OpenHolds, IsText

\* What there is at a reference of a document: one name, that its line refers to.
LEMMA AtReference ==
  ASSUME NEW buffers, OpenHolds(buffers), NEW view, SitesHold(buffers, view), NEW path \in DOMAIN buffers,
         NEW place \in SitesIn(view, path), place[3] > 0
  PROVE  LET line == buffers[path][place[2]]
             name == Referenced(line, place[3])
         IN  /\ place[1] = path /\ place[2] \in DOMAIN buffers[path] /\ place[3] \in DOMAIN line.options
             /\ place = <<path, place[2], place[3]>>
             /\ line.says = "entry" /\ AcceptsConfig(line.command) /\ name # NoName
             /\ OccurrenceAt(view, place) = {name}
             /\ \E s \in ToSet(view.references) : s.at = place
             /\ \A s \in ToSet(view.declarations \o view.references) :
                  s.at = place => s.name = name /\ s.command = line.command
             /\ \A s \in ToSet(view.references) : s.at = place => s.name = name
<1> DEFINE lines == buffers[path]
           line == lines[place[2]]
           name == Referenced(line, place[3])
<1>1. IsText(lines)
  BY OpenIsText
<1>2. IsSeq(lines) /\ IsSeq(view.declarations) /\ IsSeq(view.references)
  BY <1>1, TextHas DEF SitesHold
<1>3. ToSet(view.declarations \o view.references) = ToSet(view.declarations) \cup ToSet(view.references)
  BY <1>2, ConcatIsSeq
<1>4. ASSUME NEW s \in ToSet(view.declarations), s.at[1] = path PROVE s.at[3] = 0
  BY <1>2, <1>4, SitesSay, DeclarationSays
<1>5. PICK s \in ToSet(view.declarations) \cup ToSet(view.references) : s.at = place /\ s.at[1] = path
  BY <1>3 DEF SitesIn
<1>6. s \in ToSet(view.references)
  BY <1>4, <1>5
<1>7. ASSUME NEW r \in ToSet(view.references), r.at = place
      PROVE  /\ place = <<path, place[2], place[3]>> /\ place[2] \in DOMAIN lines
             /\ place[3] \in DOMAIN line.options
             /\ line.says = "entry" /\ AcceptsConfig(line.command)
             /\ r.name = name /\ name # NoName /\ r.command = line.command
  <2>1. ReferredIn(r, path, lines)
    BY <1>5, <1>7, SitesSay
  <2> HIDE DEF lines
  <2> QED
    BY <1>1, <1>7, <2>1, ReferenceSays
<1>8. ASSUME NEW r \in ToSet(view.declarations \o view.references), r.at = place
      PROVE  r \in ToSet(view.references)
  BY <1>3, <1>4, <1>5, <1>8
<1>9. OccurrenceAt(view, place) = {name}
  <2>1. ASSUME NEW n \in OccurrenceAt(view, place) PROVE n = name
    <3>1. PICK r \in ToSet(view.declarations \o view.references) : r.at = place /\ r.name = n
      BY <1>3, <2>1 DEF OccurrenceAt, ToSet
    <3> QED
      BY <1>7, <1>8, <3>1
  <2>2. name \in OccurrenceAt(view, place)
    <3>1. PICK i \in DOMAIN view.references : view.references[i] = s
      BY <1>6 DEF ToSet
    <3>2. s.name = name
      BY <1>5, <1>6, <1>7
    <3> HIDE DEF name
    <3> QED
      BY <1>5, <3>1, <3>2 DEF OccurrenceAt
  <2> HIDE DEF name
  <2> QED
    BY <2>1, <2>2
<1>10. place[1] = path
  BY <1>5
<1> HIDE DEF name
<1> QED
  BY <1>5, <1>6, <1>7, <1>8, <1>9, <1>10 DEF name

\* Whether a reference is called undeclared, and where it is declared.
LEMMA UndeclaredFindings ==
  ASSUME NEW buffers, NEW graph, NEW flags, NEW path,
         NEW d \in Diagnostics(buffers, graph, flags, path), d.what = "undeclared"
  PROVE  \E k \in DOMAIN buffers[path] :
            d \in Undeclared(View(buffers, graph, path), path, k, buffers[path][k])
<1> DEFINE lines == buffers[path]
           view == View(buffers, graph, path)
<1>1. CASE d \in SyntaxDiagnostics(path, lines)
  <2>1. d.what = "syntax"
    BY <1>1 DEF SyntaxDiagnostics, Finding
  <2> QED
    BY <2>1
<1>2. CASE d \in ExpansionFindings(view, path)
  <2>1. PICK f \in Findings(view) : d = Finding(f.at, IF f.kind = "cycle" THEN "error" ELSE "warning", f.kind)
    BY <1>2 DEF ExpansionFindings
  <2>2. f.kind \in {"cycle", "repeated", "deep"}
    BY <2>1 DEF Findings
  <2> QED
    BY <2>1, <2>2, FindingHas
<1>7. CASE d \in GraphProblems(buffers, graph, path)
  <2>1. d.what = "import"
    BY <1>7 DEF GraphProblems, Finding
  <2> QED
    BY <2>1
<1>3. CASE \E k \in {j \in DOMAIN lines : lines[j].says = "entry"} :
             d \in EntryDiagnostics(view, flags, path, k, lines[k])
  <2>1. PICK k \in DOMAIN lines : d \in EntryDiagnostics(view, flags, path, k, lines[k])
    BY <1>3
  <2> DEFINE line == lines[k]
  <2> HIDE DEF lines, view
  <2>2. CASE d \in Undeclared(view, path, k, line)
    BY <2>2 DEF lines, view
  <2>3. CASE d \in SplitInBody(path, k, line)
    <3>1. PICK j : d = Finding(<<path, k, j>>, "error", "split config")
      <4> HIDE DEF line
      <4> QED
        BY <2>3, Zenon DEF SplitInBody
    <3>2. d.what = "split config"
      BY <3>1 DEF Finding
    <3> QED
      BY <3>2
  <2>4. CASE d \in FlagFindings(flags, path, k, line)
    <3>1. PICK use \in Uses(flags[1], line) : \E w \in UseFindings(flags[1], line, use) :
            d = Finding(<<path, k, use.option>>, FlagSeverity(w), w)
      BY <2>4 DEF FlagFindings
    <3>3. PICK w \in UseFindings(flags[1], line, use) :
            d = Finding(<<path, k, use.option>>, FlagSeverity(w), w)
      BY <3>1
    <3>2. w # "undeclared"
      <4>1. UseFindings(flags[1], line, use) \subseteq {"unrecognized", "scope", "negative value",
               "no value", "bad value", "old", "deprecated", "status"}
        BY DEF UseFindings
      <4> QED
        BY <4>1
    <3> QED
      BY <3>2, <3>3, FindingHas
  <2>5. CASE d = Finding(<<path, k, 0>>, "warning", "command") \/ d = Finding(<<path, k, 0>>, "warning", "section")
    BY <2>5, FindingHas
  <2> QED
    BY <2>1, <2>2, <2>3, <2>4, <2>5 DEF EntryDiagnostics
<1> DEFINE each == UNION {EntryDiagnostics(view, flags, path, k, lines[k]) :
                            k \in {j \in DOMAIN lines : lines[j].says = "entry"}}
<1>4. Diagnostics(buffers, graph, flags, path)
        = SyntaxDiagnostics(path, lines) \cup GraphProblems(buffers, graph, path)
             \cup ExpansionFindings(view, path) \cup each
  BY DEF Diagnostics
<1>5. d \in each => \E k \in {j \in DOMAIN lines : lines[j].says = "entry"} :
                         d \in EntryDiagnostics(view, flags, path, k, lines[k])
  <2> HIDE DEF lines, view
  <2> QED
    OBVIOUS
<1>8. CASE d \in each
  BY <1>3, <1>5, <1>8
<1> HIDE DEF lines, view, each
<1>6. d \in SyntaxDiagnostics(path, lines) \/ d \in GraphProblems(buffers, graph, path)
        \/ d \in each \/ d \in ExpansionFindings(view, path)
  BY <1>4
<1> QED
  BY <1>1, <1>2, <1>6, <1>7, <1>8 DEF lines, view

LEMMA UndeclaredShown ==
  ASSUME NEW buffers, NEW graph, NEW flags, NEW path, NEW k \in DOMAIN buffers[path],
         buffers[path][k].says = "entry", AcceptsConfig(buffers[path][k].command),
         NEW d \in Undeclared(View(buffers, graph, path), path, k, buffers[path][k])
  PROVE  d \in Diagnostics(buffers, graph, flags, path)
<1> DEFINE lines == buffers[path]
           view == View(buffers, graph, path)
           each == UNION {EntryDiagnostics(view, flags, path, j, lines[j]) :
                            j \in {i \in DOMAIN lines : lines[i].says = "entry"}}
<1>1. d \in EntryDiagnostics(view, flags, path, k, lines[k])
  <2> HIDE DEF lines, view
  <2> QED
    BY DEF EntryDiagnostics, AcceptsConfig, lines, view
<1>2. d \in each
  <2> HIDE DEF lines, view
  <2> QED
    BY <1>1 DEF lines
<1>3. Diagnostics(buffers, graph, flags, path)
        = SyntaxDiagnostics(path, lines) \cup GraphProblems(buffers, graph, path)
             \cup ExpansionFindings(view, path) \cup each
  BY DEF Diagnostics
<1> HIDE DEF each
<1> QED
  BY <1>2, <1>3

LEMMA PlacesAre ==
  ASSUME NEW sites, NEW name, NEW at
  PROVE  at \in PlacesOf(sites, name) <=> \E s \in ToSet(sites) : s.name = name /\ s.at = at
BY DEF PlacesOf

\* The links of a document lead where they say, and are loaded.
LEMMA LinksLead ==
  ASSUME NEW buffers, OpenHolds(buffers), NEW graph, NEW flags, NEW path \in DOMAIN buffers,
         NEW view, SitesHold(buffers, view), NEW l \in DocumentLinks(graph, buffers[path])
  PROVE  /\ Definitions(view, graph, buffers[path], <<path, l[1], 0>>) = {<<l[2], 1, 0>>}
         /\ \A c \in Hover(view, graph, flags, buffers[path], <<path, l[1], 0>>) : c.card = "loaded"
<1> DEFINE lines == buffers[path]
           place == <<path, l[1], 0>>
           line == lines[l[1]]
<1>1. l[1] \in DOMAIN lines /\ l[2] = Imported(graph, line) /\ Imported(graph, line) # NoFile
  BY DEF DocumentLinks
<1>2. place[1] = path /\ place[2] = l[1] /\ place[3] = 0
  OBVIOUS
<1>3. IsImport(line) /\ LoadedImport(graph, line.path) # NoFile /\ line.says # "entry"
  BY <1>1 DEF Imported, IsImport
<1> HIDE DEF place
<1>4. Definitions(view, graph, lines, place) = {<<l[2], 1, 0>>}
  <2> HIDE DEF lines
  <2> QED
    BY <1>1, <1>2 DEF Definitions
<1>5. ASSUME NEW s \in ToSet(view.declarations \o view.references), s.at = place PROVE FALSE
  <2>1. IsSeq(view.declarations) /\ IsSeq(view.references)
    BY DEF SitesHold
  <2>2. s \in ToSet(view.declarations) \cup ToSet(view.references)
    BY <2>1, ConcatIsSeq
  <2>3. DeclaredIn(s, path, lines) \/ ReferredIn(s, path, lines)
    BY <1>2, <1>5, <2>2, SitesSay
  <2>4. IsText(lines) /\ IsSeq(lines)
    BY OpenIsText, TextHas
  <2> HIDE DEF lines
  <2>5. lines[s.at[2]].says = "entry"
    BY <2>3, <2>4, DeclarationSays, ReferenceSays
  <2> QED
    BY <1>2, <1>3, <1>5, <2>5
<1>6. ConfigCards(view, place) = {}
  BY <1>5 DEF ConfigCards
<1>7. Hover(view, graph, flags, lines, place) = OtherCards(graph, flags, lines, place)
  BY <1>6 DEF Hover
<1>8. OtherCards(graph, flags, lines, place) = {Card("loaded", {line.path})}
  <2> HIDE DEF lines
  <2> QED
    BY <1>2, <1>3 DEF OtherCards, PublishedState
<1>9. \A c \in Hover(view, graph, flags, lines, place) : c.card = "loaded"
  <2> HIDE DEF lines
  <2> QED
    BY <1>7, <1>8 DEF Card
<1> QED
  BY <1>4, <1>9 DEF place

\* What the workspace lists of a document, the document lists.
LEMMA SymbolsAgree ==
  ASSUME NEW buffers, OpenHolds(buffers), NEW graph, GraphFine(graph), NEW path \in DOMAIN buffers,
         NEW at \in {s.at : s \in WorkspaceSymbols(buffers, graph)}, at \in SitesIn(View(buffers, graph, path), path)
  PROVE  at \in DocumentSymbols(View(buffers, graph, path), path)
<1> DEFINE view == View(buffers, graph, path)
           whole == WorkspaceView(buffers, graph)
           lines == buffers[path]
<1>1. SitesHold(buffers, view) /\ SitesHold(buffers, whole) /\ IsText(lines) /\ IsSeq(lines)
  BY ViewIsPlaced, WorkspaceViewIsPlaced, OpenIsText, TextHas
<1>2. PICK d \in ToSet(whole.declarations) : d.at = at
  BY DEF WorkspaceSymbols
<1> HIDE DEF view, whole, lines
<1>3. ToSet(view.declarations \o view.references) = ToSet(view.declarations) \cup ToSet(view.references)
  BY <1>1, ConcatIsSeq DEF SitesHold
<1>4. PICK s \in ToSet(view.declarations) \cup ToSet(view.references) : s.at = at /\ s.at[1] = path
  BY <1>3 DEF SitesIn, view
<1>5. at[3] = 0
  <2>1. DeclaredIn(d, path, lines)
    BY <1>1, <1>2, <1>4, SitesSay DEF lines
  <2> QED
    BY <1>1, <1>2, <2>1, DeclarationSays
<1>6. s \in ToSet(view.declarations)
  <2> SUFFICES ASSUME s \in ToSet(view.references) PROVE FALSE
    BY <1>4
  <2>1. ReferredIn(s, path, lines)
    BY <1>1, <1>4, SitesSay DEF lines
  <2>2. s.at[3] \in Nat \ {0}
    BY <1>1, <2>1, ReferenceSays
  <2> QED
    BY <1>4, <1>5, <2>2
<1> QED
  BY <1>4, <1>6 DEF DocumentSymbols, view

\* What the requests say of one reference.
LEMMA ReferenceAgrees ==
  ASSUME NEW buffers, OpenHolds(buffers), NEW graph, GraphFine(graph), NEW flags, NEW path \in DOMAIN buffers,
         NEW place \in SitesIn(View(buffers, graph, path), path), place[3] > 0
  PROVE  LET view    == View(buffers, graph, path)
             targets == Definitions(view, graph, buffers[path], place)
             all     == References(view, place, TRUE)
             cards   == Hover(view, graph, flags, buffers[path], place)
             edits   == Rename(view, place, Fresh)
             absent  == Finding(place, "warning", "undeclared") \in Diagnostics(buffers, graph, flags, path)
         IN  /\ targets = {} <=> \A c \in cards : c.declared = {}
             /\ absent => targets = {}
             /\ targets = {} => absent \/ ~view.ready
             /\ targets \subseteq all /\ place \in all
             /\ Highlights(view, path, place) \subseteq all
             /\ edits \subseteq all
             /\ Prepare(view, place) # {} => edits = all
<1> DEFINE view    == View(buffers, graph, path)
           lines   == buffers[path]
           line    == lines[place[2]]
           name    == Referenced(line, place[3])
           targets == Definitions(view, graph, lines, place)
           all     == References(view, place, TRUE)
           cards   == Hover(view, graph, flags, lines, place)
           edits   == Rename(view, place, Fresh)
           absent  == Finding(place, "warning", "undeclared") \in Diagnostics(buffers, graph, flags, path)
           applies == Applicable(view, line.command, name)
<1>0. place \in SitesIn(view, path)
  OBVIOUS
<1>1. SitesHold(buffers, view) /\ IsText(lines)
  BY ViewIsPlaced, OpenIsText
<1> HIDE DEF view
<1>2. /\ place[1] = path /\ place[2] \in DOMAIN lines /\ place[3] \in DOMAIN line.options
      /\ place = <<path, place[2], place[3]>>
      /\ line.says = "entry" /\ AcceptsConfig(line.command) /\ name # NoName
      /\ OccurrenceAt(view, place) = {name}
      /\ \E s \in ToSet(view.references) : s.at = place
      /\ \A s \in ToSet(view.declarations \o view.references) :
            s.at = place => s.name = name /\ s.command = line.command
      /\ \A s \in ToSet(view.references) : s.at = place => s.name = name
  BY <1>0, <1>1, AtReference
<1>3. IsSeq(view.declarations) /\ IsSeq(view.references)
      /\ ToSet(view.declarations \o view.references) = ToSet(view.declarations) \cup ToSet(view.references)
      /\ IsSeq(line.options)
  BY <1>1, <1>2, ConcatIsSeq, TextHas DEF SitesHold
<1> HIDE DEF name, line
<1>4. targets = {view.declarations[i].at : i \in applies}
  <2>1. ~IsImport(line) /\ place[3] # 0
    BY <1>2 DEF IsImport
  <2> HIDE DEF lines
  <2> QED
    BY <1>2, <2>1 DEF Definitions, line, name
<1>5. applies \subseteq DOMAIN view.declarations
      /\ \A i \in applies : view.declarations[i].name = name /\ view.declarations[i] \in ToSet(view.declarations)
  BY DEF Applicable, Named, ToSet
<1> HIDE DEF applies
<1>6. targets = {} <=> applies = {}
  BY <1>4
<1>7. cards # {} /\ \A c \in cards : c.declared = {view.declarations[i].command : i \in applies}
  <2>1. PICK s \in ToSet(view.declarations \o view.references) : s.at = place
    BY <1>2, <1>3
  <2>2. ASSUME NEW c \in ConfigCards(view, place)
        PROVE  c.declared = {view.declarations[i].command : i \in applies}
    <3>1. PICK site \in ToSet(view.declarations \o view.references) :
            /\ site.at = place
            /\ c.declared = {view.declarations[i].command : i \in Applicable(view, site.command, site.name)}
      BY DEF ConfigCards
    <3>2. site.name = name /\ site.command = line.command
      BY <1>2, <3>1
    <3> QED
      BY <3>1, <3>2 DEF applies
  <2>3. ConfigCards(view, place) # {}
    BY <2>1 DEF ConfigCards
  <2>4. cards = ConfigCards(view, place)
    BY <2>3 DEF Hover
  <2> HIDE DEF cards
  <2> QED
    BY <2>2, <2>3, <2>4
<1>8. targets = {} <=> \A c \in cards : c.declared = {}
  <2> HIDE DEF targets, cards
  <2>1. CASE applies = {}
    BY <1>6, <1>7, <2>1
  <2>2. CASE applies # {}
    <3>1. {view.declarations[i].command : i \in applies} # {}
      BY <2>2
    <3> QED
      BY <1>6, <1>7, <2>2, <3>1
  <2> QED
    BY <2>1, <2>2
<1>9. absent => targets = {}
  <2> SUFFICES ASSUME absent PROVE applies = {}
    BY <1>6
  <2> DEFINE d == Finding(place, "warning", "undeclared")
  <2>1. d.what = "undeclared" /\ d.at = place
    BY FindingHas
  <2>2. PICK k \in DOMAIN lines : d \in Undeclared(View(buffers, graph, path), path, k, lines[k])
    <3> HIDE DEF d
    <3> QED
      BY <2>1, UndeclaredFindings DEF d
  <2>3. PICK r \in ToSet(ReferencesOf(path, k, lines[k])) :
           d = Finding(r.at, "warning", "undeclared") /\ Applicable(view, lines[k].command, r.name) = {}
    BY <2>2 DEF Undeclared, view
  <2>4. r.at = place
    BY <2>1, <2>3, FindingHas
  <2>5. IsSeq(lines[k].options)
    BY <1>1, TextHas
  <2>6. PICK j \in DOMAIN lines[k].options :
           r = ConfigSite(Referenced(lines[k], j), lines[k].command, <<path, k, j>>, lines[k].name)
    BY <2>3, <2>5, ReferencesAre
  <2>7. <<path, k, j>> = place /\ r.name = Referenced(lines[k], j)
    BY <2>4, <2>6 DEF ConfigSite
  <2>8. k = place[2] /\ j = place[3]
    BY <2>7
  <2> QED
    BY <2>3, <2>7, <2>8 DEF applies, name, line
<1>10. targets = {} => absent \/ ~view.ready
  <2> SUFFICES ASSUME applies = {}, view.ready PROVE absent
    BY <1>6
  <2> DEFINE r == ConfigSite(name, line.command, place, line.name)
             d == Finding(place, "warning", "undeclared")
  <2>1. r \in ToSet(ReferencesOf(path, place[2], line))
    BY <1>2, <1>3, ReferencesAre DEF name
  <2>2. r.at = place /\ r.name = name
    BY DEF ConfigSite
  <2>3. d \in Undeclared(view, path, place[2], line)
    <3> HIDE DEF r
    <3> QED
      BY <2>1, <2>2 DEF Undeclared, applies
  <2> HIDE DEF d
  <2>4. d \in Diagnostics(buffers, graph, flags, path)
    BY <1>2, <2>3, UndeclaredShown DEF line, view
  <2> QED
    BY <2>4 DEF d
<1>11. all = PlacesOf(view.references, name) \cup PlacesOf(view.declarations, name)
  BY <1>2 DEF References
<1>12. targets \subseteq all
  <2> SUFFICES ASSUME NEW i \in applies PROVE view.declarations[i].at \in PlacesOf(view.declarations, name)
    <3> HIDE DEF targets, all
    <3> QED
      BY <1>4, <1>11
  <2> QED
    BY <1>5, PlacesAre
<1>13. place \in all
  <2>1. place \in PlacesOf(view.references, name)
    BY <1>2, PlacesAre
  <2> HIDE DEF all
  <2> QED
    BY <1>11, <2>1
<1>14. Highlights(view, path, place) \subseteq all
  BY DEF Highlights
<1>15. \A s \in ToSet(view.declarations) : s.name # Fresh
  <2> SUFFICES ASSUME NEW s \in ToSet(view.declarations) PROVE s.name # Fresh
    OBVIOUS
  <2>1. PICK texts : IsText(texts) /\ DeclaredIn(s, s.at[1], texts)
    BY <1>1 DEF SitesHold, PlacedAt
  <2>2. IsSeq(texts) /\ \A k \in DOMAIN texts : texts[k].name # Fresh
    BY <2>1, TextHas
  <2> QED
    BY <2>1, <2>2 DEF DeclaredIn, ConfigSite
<1>16. Named(view.declarations, Fresh) = {}
  BY <1>15 DEF Named, ToSet
<1>17. edits = UNION {PlacesOf(view.declarations, n) \cup PlacesOf(view.references, n) : n \in Prepare(view, place)}
  BY <1>16 DEF Rename
<1>18. Prepare(view, place) \subseteq {name}
  BY <1>2 DEF Prepare
<1>19. edits \subseteq all
  <2> HIDE DEF edits, all
  <2> QED
    BY <1>11, <1>17, <1>18
<1>20. Prepare(view, place) # {} => edits = all
  <2> SUFFICES ASSUME Prepare(view, place) # {} PROVE edits = all
    OBVIOUS
  <2>1. Prepare(view, place) = {name}
    BY <1>18
  <2> HIDE DEF edits, all
  <2> QED
    BY <1>11, <1>17, <2>1
<1> HIDE DEF targets, all, cards, edits, absent
<1>21. /\ targets = {} <=> \A c \in cards : c.declared = {}
       /\ absent => targets = {}
       /\ targets = {} => absent \/ ~view.ready
       /\ targets \subseteq all /\ place \in all
       /\ Highlights(view, path, place) \subseteq all
       /\ edits \subseteq all
       /\ Prepare(view, place) # {} => edits = all
  BY <1>8, <1>9, <1>10, <1>12, <1>13, <1>14, <1>19, <1>20
<1> QED
  BY <1>21 DEF view, lines, targets, all, cards, edits, absent

LEMMA TheAnswersAgree ==
  ASSUME WorkspaceHolds(saved, open, snapshot, catalog)
  PROVE  AnswersAgree
<1>1. OpenHolds(open) /\ GraphFine(snapshot)
  BY GraphsAreFine DEF WorkspaceHolds
<1> SUFFICES ASSUME NEW p \in DOMAIN open
             PROVE  LET view == View(open, snapshot, p)
                    IN  /\ \A l \in DocumentLinks(snapshot, open[p]) :
                              /\ Definitions(view, snapshot, open[p], <<p, l[1], 0>>) = {<<l[2], 1, 0>>}
                              /\ \A c \in Hover(view, snapshot, catalog, open[p], <<p, l[1], 0>>) : c.card = "loaded"
                        /\ {s.at : s \in WorkspaceSymbols(open, snapshot)} \cap SitesIn(view, p)
                              \subseteq DocumentSymbols(view, p)
                        /\ \A place \in {s \in SitesIn(view, p) : s[3] > 0} :
                              LET targets == Definitions(view, snapshot, open[p], place)
                                  all     == References(view, place, TRUE)
                                  cards   == Hover(view, snapshot, catalog, open[p], place)
                                  edits   == Rename(view, place, Fresh)
                                  absent  == Finding(place, "warning", "undeclared") \in
                                                 Diagnostics(open, snapshot, catalog, p)
                              IN  /\ targets = {} <=> \A c \in cards : c.declared = {}
                                  /\ absent => targets = {}
                                  /\ targets = {} => absent \/ ~view.ready
                                  /\ targets \subseteq all /\ place \in all
                                  /\ Highlights(view, p, place) \subseteq all
                                  /\ edits \subseteq all
                                  /\ Prepare(view, place) # {} => edits = all
  BY DEF AnswersAgree
<1> DEFINE view == View(open, snapshot, p)
<1>2. SitesHold(open, view)
  BY <1>1, ViewIsPlaced
<1>3. \A l \in DocumentLinks(snapshot, open[p]) :
         /\ Definitions(view, snapshot, open[p], <<p, l[1], 0>>) = {<<l[2], 1, 0>>}
         /\ \A c \in Hover(view, snapshot, catalog, open[p], <<p, l[1], 0>>) : c.card = "loaded"
  <2> HIDE DEF view
  <2> QED
    BY <1>1, <1>2, LinksLead
<1>4. {s.at : s \in WorkspaceSymbols(open, snapshot)} \cap SitesIn(view, p) \subseteq DocumentSymbols(view, p)
  BY <1>1, SymbolsAgree
<1> QED
  BY <1>1, <1>3, <1>4, ReferenceAgrees

\* Definition, hover, highlight, references, rename and diagnostics always agree
\* on a reference, links on an import, and the lists of symbols on a document.
THEOREM AnswersAlwaysAgree == Spec => []AnswersAgree
<1>1. WorkspaceHolds(saved, open, snapshot, catalog) => AnswersAgree
  BY TheAnswersAgree
<1> QED
  BY <1>1, WorkspaceStaysGood, PTL

-----------------------------------------------------------------------------
(***************************************************************************)
(* A view and a build, in step: visits of the same files find the same     *)
(* sites, at the documents that are open and in the files.                 *)
(***************************************************************************)

\* A site at the file its path leads to.
OnFile(site) == [site EXCEPT !.at = <<Link[site.at[1]], site.at[2], site.at[3]>>]

LEMMA OnFilesAre ==
  ASSUME NEW sites
  PROVE  OnFiles(sites) = [i \in DOMAIN sites |-> OnFile(sites[i])]
BY DEF OnFiles, OnFile

LEMMA OnFilesOfFlatten ==
  ASSUME NEW n \in Nat, NEW parts, NEW images,
         \A k \in 1 .. n : IsSeq(parts[k]) /\ images[k] = OnFiles(parts[k])
  PROVE  OnFiles(FlattenSeq([k \in 1 .. n |-> parts[k]])) = FlattenSeq([k \in 1 .. n |-> images[k]])
<1> DEFINE p == [k \in 1 .. n |-> parts[k]]
           q == [k \in 1 .. n |-> images[k]]
           X == ToSet(FlattenSeq(p))
           h == [s \in X |-> OnFile(s)]
<1>1. IsSeq(p) /\ Len(p) = n /\ DOMAIN p = 1 .. n /\ IsSeq(q) /\ Len(q) = n /\ DOMAIN q = 1 .. n
  BY OverIsSeq
<1>2. \A k \in 1 .. n : IsSeq(p[k]) /\ q[k] = OnFiles(p[k])
  OBVIOUS
<1> HIDE DEF p, q
<1>3. IsSeq(FlattenSeq(p)) /\ X = UNION {ToSet(p[k]) : k \in 1 .. n}
  BY <1>1, <1>2, FlattenIsSeq
<1>4. \A s \in X : h[s] = OnFile(s)
  OBVIOUS
<1> HIDE DEF X, h
<1>5. \A k \in 1 .. n : q[k] = Image(h, p[k])
  <2> SUFFICES ASSUME NEW k \in 1 .. n PROVE q[k] = Image(h, p[k])
    OBVIOUS
  <2>1. \A i \in DOMAIN p[k] : h[p[k][i]] = OnFile(p[k][i])
    <3>1. \A i \in DOMAIN p[k] : p[k][i] \in X
      BY <1>3 DEF ToSet
    <3> QED
      BY <1>4, <3>1
  <2>2. q[k] = [i \in DOMAIN p[k] |-> OnFile(p[k][i])]
    BY <1>2, OnFilesAre
  <2> QED
    BY <2>1, <2>2 DEF Image
<1>6. Image(h, FlattenSeq(p)) = FlattenSeq(q)
  BY <1>1, <1>2, <1>5, ImageOfFlatten
<1>7. OnFiles(FlattenSeq(p)) = Image(h, FlattenSeq(p))
  <2>1. \A i \in DOMAIN FlattenSeq(p) : h[FlattenSeq(p)[i]] = OnFile(FlattenSeq(p)[i])
    <3>1. \A i \in DOMAIN FlattenSeq(p) : FlattenSeq(p)[i] \in X
      BY DEF ToSet, X
    <3> QED
      BY <1>4, <3>1
  <2>2. OnFiles(FlattenSeq(p)) = [i \in DOMAIN FlattenSeq(p) |-> OnFile(FlattenSeq(p)[i])]
    BY OnFilesAre
  <2> QED
    BY <2>1, <2>2 DEF Image
<1> QED
  BY <1>6, <1>7 DEF p, q

LEMMA OnFilesOfNone == OnFiles(<<>>) = <<>>
BY DEF OnFiles

LEMMA OnFileOf ==
  ASSUME NEW name, NEW command, NEW at, NEW k, NEW j, NEW owner, NEW file, file = Link[at]
  PROVE  OnFile(ConfigSite(name, command, <<at, k, j>>, owner)) = ConfigSite(name, command, <<file, k, j>>, owner)
BY DEF OnFile, ConfigSite

LEMMA OnFilesOfEntry ==
  ASSUME NEW at, NEW file, file = Link[at], NEW k, NEW line, IsSeq(line.options)
  PROVE  /\ OnFiles(DeclarationsOf(at, k, line)) = DeclarationsOf(file, k, line)
         /\ OnFiles(ReferencesOf(at, k, line)) = ReferencesOf(file, k, line)
<1>1. OnFiles(DeclarationsOf(at, k, line)) = DeclarationsOf(file, k, line)
  <2>1. CASE ~Declares(line)
    BY <2>1, OnFilesOfNone DEF DeclarationsOf
  <2>2. CASE Declares(line)
    <3> DEFINE s == ConfigSite(line.name, line.command, <<at, k, 0>>, NoName)
               t == ConfigSite(line.name, line.command, <<file, k, 0>>, NoName)
    <3>1. OnFile(s) = t
      BY OnFileOf
    <3>2. DeclarationsOf(at, k, line) = <<s>> /\ DeclarationsOf(file, k, line) = <<t>>
      BY <2>2 DEF DeclarationsOf
    <3> HIDE DEF s, t
    <3>3. OnFiles(<<s>>) = <<t>>
      BY <3>1, OnFilesAre
    <3> QED
      BY <3>2, <3>3
  <2> QED
    BY <2>1, <2>2
<1>2. OnFiles(ReferencesOf(at, k, line)) = ReferencesOf(file, k, line)
  <2> DEFINE n == Len(line.options)
             none(j) == ~AcceptsConfig(line.command) \/ Referenced(line, j) = NoName
             s(j) == ConfigSite(Referenced(line, j), line.command, <<at, k, j>>, line.name)
             t(j) == ConfigSite(Referenced(line, j), line.command, <<file, k, j>>, line.name)
             a == [j \in 1 .. n |-> IF none(j) THEN <<>> ELSE <<s(j)>>]
             b == [j \in 1 .. n |-> IF none(j) THEN <<>> ELSE <<t(j)>>]
  <2>1. n \in Nat /\ DOMAIN line.options = 1 .. n
    BY IsSeqHas
  <2>2. ReferencesOf(at, k, line) = FlattenSeq(a) /\ ReferencesOf(file, k, line) = FlattenSeq(b)
    BY <2>1 DEF ReferencesOf
  <2>3. ASSUME NEW j \in 1 .. n PROVE IsSeq(a[j]) /\ b[j] = OnFiles(a[j])
    <3>1. a[j] = (IF none(j) THEN <<>> ELSE <<s(j)>>) /\ b[j] = (IF none(j) THEN <<>> ELSE <<t(j)>>)
      OBVIOUS
    <3>2. OnFile(s(j)) = t(j)
      BY OnFileOf
    <3> HIDE DEF a, b, none, s, t
    <3>3. OnFiles(<<s(j)>>) = <<t(j)>>
      BY <3>2, OnFilesAre
    <3> QED
      BY <3>1, <3>3, OnFilesOfNone, ShortIsSeq
  <2>4. a = [j \in 1 .. n |-> a[j]] /\ b = [j \in 1 .. n |-> b[j]]
    OBVIOUS
  <2> HIDE DEF a, b, n
  <2>5. OnFiles(FlattenSeq([j \in 1 .. n |-> a[j]])) = FlattenSeq([j \in 1 .. n |-> b[j]])
    BY <2>1, <2>3, OnFilesOfFlatten
  <2> QED
    BY <2>2, <2>4, <2>5
<1> QED
  BY <1>1, <1>2

\* The graph has followed the imports that a build would follow.
Follows(graph, would) ==
  \A site \in ToSet(would.imports) : site.active => LoadedImport(graph, site.target) = site.loaded

\* What was read, and imported, is part of what a build publishes.
PartOf(would, reads, imports) ==
  /\ ToSet(imports) \subseteq ToSet(would.imports)
  /\ \A x \in ToSet(reads) : x.file \in DOMAIN would.files

\* The documents and files that a view collects from.
At(site, places) == site.at[1] \in places

\* What a view collects is what a visit adds.
SameSites(c, r, places) ==
  /\ \A s \in ToSet(c.declarations) : At(s, places)
  /\ \A s \in ToSet(c.references) : At(s, places)
  /\ c.valid /\ IsSeq(c.declarations) /\ IsSeq(c.references)
  /\ OnFiles(c.declarations) = r.declarations /\ OnFiles(c.references) = r.references

\* A visit that was declined adds no sites.
Bare(r) == r.declarations = <<>> /\ r.references = <<>>

LEMMA DeclinedIsBare ==
  ASSUME NEW disk, NEW visits, IsVisits(visits, disk),
         NEW active \in SUBSET DOMAIN disk.lines, NEW path \in DOMAIN disk.canonical,
         visits[active][path].outcome = "declined"
  PROVE  Bare(visits[active][path])
<1> DEFINE file == disk.canonical[path]
           v == visits[active \cup {file}]
           r == visits[active][path]
<1>1. r = VisitFile(disk, v, active, file)
  BY DEF IsVisits, VisitRow
<1> HIDE DEF v, file, r
<1>2. CASE r = Added("declined", NoFile) \/ r = Added("failed", NoFile) \/ r = Added("failed", file)
  BY <1>2, NothingAdded DEF Bare, r
<1>3. CASE \E parts : r = ByLines(parts, file)
  BY <1>3 DEF ByLines, r
<1> QED
  BY <1>1, <1>2, <1>3 DEF VisitFile, r

LEMMA NothingIsBare ==
  ASSUME NEW r, Bare(r), NEW places
  PROVE  SameSites(Nothing, r, places)
BY OnFilesOfNone, ShortIsSeq DEF Bare, SameSites, Nothing, Collected

\* What a visit of a path adds, a view collects from the file.
AgreesAt(graph, would, r, w, places) ==
  (/\ r.outcome = "loaded" /\ PartOf(would, r.reads, r.imports)
   /\ r.file \in Loaded(graph) /\ r.file \in DOMAIN would.files)
     => SameSites(w[r.file], r, places)

\* What visits of the files that a line may import are known to collect.
VisitsAgree(disk, graph, would, active, v, w, places) ==
  /\ \A p \in DOMAIN disk.canonical : VisitHolds(disk, active, p, v[p])
  /\ \A p \in DOMAIN disk.canonical : v[p].outcome = "declined" => Bare(v[p])
  /\ \A p \in DOMAIN disk.canonical : AgreesAt(graph, would, v[p], w, places)

LEMMA ImportAgrees ==
  ASSUME NEW disk, GoodDisk(disk), NEW graph, graph.root, IsSeq(graph.imports),
         NEW would, Follows(graph, would), NEW active, NEW v, NEW w, NEW places,
         VisitsAgree(disk, graph, would, active, v, w, places),
         NEW file, NEW k, NEW at, NEW line,
         IsImport(line), line.says # "entry", Active(line), line.path \in DOMAIN disk.canonical,
         NEW r, r = ByImport(line, <<file, k, 0>>, v[line.path]), r.outcome # "failed",
         PartOf(would, r.reads, r.imports)
  PROVE  SameSites(CollectLine(graph, w, at, k, line), r, places)
<1> DEFINE inner == v[line.path]
           site == [at |-> <<file, k, 0>>, target |-> line.path, active |-> Active(line),
                    loaded |-> IF inner.outcome = "loaded" THEN inner.file ELSE NoFile]
           there == IF inner.file = NoFile THEN <<>> ELSE <<[at |-> <<file, k, 0>>, file |-> inner.file]>>
           c == CollectLine(graph, w, at, k, line)
<1>1. /\ r.outcome = IF Fails(line, inner.outcome) THEN "failed" ELSE "loaded"
      /\ r.reads = there \o inner.reads /\ r.imports = Append(inner.imports, site)
      /\ r.declarations = inner.declarations /\ r.references = inner.references
  BY DEF ByImport
<1>2. VisitHolds(disk, active, line.path, inner)
  BY DEF VisitsAgree
<1>3. /\ site.active /\ site.target = line.path
      /\ site.loaded = IF inner.outcome = "loaded" THEN inner.file ELSE NoFile
  OBVIOUS
<1>4. c = IF LoadedImport(graph, line.path) # NoFile THEN w[LoadedImport(graph, line.path)] ELSE Nothing
  BY DEF CollectLine
<1>5. IsSeq(there) /\ (inner.file # NoFile => \E x \in ToSet(there) : x.file = inner.file)
  BY ShortIsSeq
<1>6. inner.outcome = "declined" => Bare(inner)
  BY DEF VisitsAgree
<1>7. AgreesAt(graph, would, inner, w, places)
  BY DEF VisitsAgree
<1> HIDE DEF site, there, c, inner
<1>8. IsSeq(inner.reads) /\ IsSeq(inner.imports) /\ inner.outcome \in {"declined", "failed", "loaded"}
  BY <1>2 DEF VisitHolds, Sequenced
<1>9. ToSet(r.reads) = ToSet(there) \cup ToSet(inner.reads) /\ ToSet(r.imports) = ToSet(inner.imports) \cup {site}
  BY <1>1, <1>5, <1>8, ConcatIsSeq, AppendIsSeq, ZenonT(60)
<1>10. PartOf(would, inner.reads, inner.imports) /\ site \in ToSet(would.imports)
  BY <1>9 DEF PartOf
<1>11. LoadedImport(graph, line.path) = site.loaded
  BY <1>3, <1>10 DEF Follows
<1>12. CASE inner.outcome = "declined"
  <2>1. c = Nothing
    BY <1>3, <1>4, <1>11, <1>12
  <2>2. Bare(r)
    BY <1>1, <1>6, <1>12 DEF Bare
  <2> QED
    BY <2>1, <2>2, NothingIsBare DEF c
<1>13. CASE inner.outcome = "loaded"
  <2>1. site.loaded = inner.file /\ inner.file # NoFile
    BY <1>2, <1>3, <1>13 DEF VisitHolds, GoodDisk, IsDisk
  <2>2. inner.file \in Loaded(graph) /\ inner.file \in DOMAIN would.files
    BY <1>5, <1>9, <1>11, <2>1, ImportIsLoaded DEF PartOf
  <2>3. c = w[inner.file]
    BY <1>4, <1>11, <2>1
  <2>4. SameSites(w[inner.file], inner, places)
    BY <1>7, <1>10, <1>13, <2>2 DEF AgreesAt
  <2> QED
    BY <1>1, <2>3, <2>4 DEF SameSites, c
<1>14. inner.outcome # "failed"
  BY <1>1 DEF Fails
<1> QED
  BY <1>8, <1>12, <1>13, <1>14

LEMMA LineAgrees ==
  ASSUME NEW disk, GoodDisk(disk), NEW graph, graph.root, IsSeq(graph.imports),
         NEW would, Follows(graph, would), NEW active, NEW v, NEW w, NEW places,
         VisitsAgree(disk, graph, would, active, v, w, places),
         NEW file, NEW k, NEW at \in places, file = Link[at], NEW line,
         IsSeq(line.options), IsImport(line) => line.path \in DOMAIN disk.canonical,
         NEW r, r = ByLine(v, file, k, line), r.outcome # "failed",
         PartOf(would, r.reads, r.imports)
  PROVE  SameSites(CollectLine(graph, w, at, k, line), r, places)
<1> DEFINE c == CollectLine(graph, w, at, k, line)
<1>1. CASE line.says = "entry"
  <2>1. r.declarations = DeclarationsOf(file, k, line) /\ r.references = ReferencesOf(file, k, line)
    BY <1>1 DEF ByLine, ByEntry, Added
  <2>2. c = Collected(TRUE, DeclarationsOf(at, k, line), ReferencesOf(at, k, line))
    BY <1>1 DEF CollectLine
  <2>3. c.valid /\ c.declarations = DeclarationsOf(at, k, line) /\ c.references = ReferencesOf(at, k, line)
    BY <2>2 DEF Collected
  <2> HIDE DEF c
  <2>4. \A s \in ToSet(c.declarations) : At(s, places)
    BY <2>3, ShortIsSeq DEF DeclarationsOf, ConfigSite, At
  <2>5. \A s \in ToSet(c.references) : At(s, places)
    BY <2>3, ReferencesAre DEF ConfigSite, At
  <2>6. SameSites(c, r, places)
    BY <2>1, <2>3, <2>4, <2>5, OnFilesOfEntry, SitesOfEntries DEF SameSites
  <2> QED
    BY <2>6 DEF c
<1>2. CASE line.says # "entry" /\ IsImport(line) /\ Active(line)
  <2>1. r = ByImport(line, <<file, k, 0>>, v[line.path])
    BY <1>2 DEF ByLine
  <2> QED
    BY <1>2, <2>1, ImportAgrees
<1>3. CASE line.says # "entry" /\ ~(IsImport(line) /\ Active(line))
  <2>1. c = Nothing
    BY <1>3 DEF CollectLine
  <2>2. Bare(r)
    <3>1. CASE IsImport(line)
      <4>1. r = ByImport(line, <<file, k, 0>>, Added("skipped", NoFile))
        BY <1>3, <3>1 DEF ByLine
      <4> QED
        BY <4>1, NothingAdded DEF ByImport, Bare
    <3>2. CASE ~IsImport(line)
      BY <1>3, <3>2, NothingAdded DEF ByLine, Bare
    <3> QED
      BY <3>1, <3>2
  <2> QED
    BY <2>1, <2>2, NothingIsBare
<1> QED
  BY <1>1, <1>2, <1>3

\* What the lines of a file add.
PartsOf(v, file, lines) == [k \in DOMAIN lines |-> ByLine(v, file, k, lines[k])]

LEMMA TextAgrees ==
  ASSUME NEW disk, GoodDisk(disk), NEW graph, graph.root, IsSeq(graph.imports),
         NEW would, Follows(graph, would), NEW file \in DOMAIN disk.lines, NEW active, NEW v, NEW w, NEW places,
         VisitsAgree(disk, graph, would, active \cup {file}, v, w, places),
         NEW at \in places, file = Link[at], ~Malformed(disk.lines[file]),
         NEW r, r = ByLines(PartsOf(v, file, disk.lines[file]), file),
         r.outcome = "loaded", PartOf(would, r.reads, r.imports)
  PROVE  SameSites(CollectText(graph, w, at, disk.lines[file]), r, places)
<1> DEFINE lines == disk.lines[file]
           n == Len(lines)
           parts == [k \in DOMAIN lines |-> ByLine(v, file, k, lines[k])]
           seen == [k \in DOMAIN lines |-> CollectLine(graph, w, at, k, lines[k])]
           c == CollectText(graph, w, at, lines)
<1>1. /\ IsSeq(lines) /\ n \in Nat /\ DOMAIN lines = 1 .. n
      /\ \A k \in 1 .. n : /\ IsSeq(lines[k].options)
                           /\ IsImport(lines[k]) => lines[k].path \in DOMAIN disk.canonical
  BY IsSeqHas DEF GoodDisk
<1>2. c = CollectLines(seen)
  BY DEF CollectText
<1>3. /\ DOMAIN parts = 1 .. n /\ DOMAIN seen = 1 .. n
      /\ \A k \in 1 .. n : parts[k] = ByLine(v, file, k, lines[k])
      /\ \A k \in 1 .. n : seen[k] = CollectLine(graph, w, at, k, lines[k])
  BY <1>1
<1>4. r = ByLines(parts, file)
  BY DEF PartsOf
<1>5. IsSeq(parts) /\ Len(parts) = n /\ IsSeq(seen)
  <2>1. parts = [k \in 1 .. n |-> parts[k]] /\ seen = [k \in 1 .. n |-> seen[k]]
    BY <1>1
  <2> HIDE DEF parts, seen, n
  <2> QED
    BY <1>1, <1>3, <2>1, MadeIsSeq
<1>6. ASSUME NEW k \in 1 .. n PROVE Sequenced(parts[k])
  <2>1. \A p \in DOMAIN disk.canonical : VisitHolds(disk, active \cup {file}, p, v[p])
    BY DEF VisitsAgree
  <2>2. LineHolds(disk, active \cup {file}, file, k, parts[k])
    BY <1>1, <1>3, <2>1, EachLineHolds
  <2> QED
    BY <2>2 DEF LineHolds
<1> HIDE DEF parts, seen, n, lines
<1>7. Joins(r, file, parts, 1 .. LinesDone(parts))
  BY <1>3, <1>4, <1>5, <1>6, LinesJoin
<1>8. 1 .. LinesDone(parts) = DOMAIN parts /\ \A k \in DOMAIN parts : parts[k].outcome # "failed"
  BY <1>7 DEF Joins
<1>9. ASSUME NEW k \in 1 .. n PROVE PartOf(would, parts[k].reads, parts[k].imports)
  <2>1. ToSet(parts[k].reads) \subseteq ToSet(r.reads) /\ ToSet(parts[k].imports) \subseteq ToSet(r.imports)
    BY <1>3, <1>7, <1>8 DEF Joins
  <2> QED
    BY <2>1 DEF PartOf
<1>10. ASSUME NEW k \in 1 .. n PROVE SameSites(seen[k], parts[k], places)
  BY <1>1, <1>3, <1>8, <1>9, LineAgrees
<1>11. /\ r.declarations = FlattenSeq([k \in 1 .. n |-> parts[k].declarations])
       /\ r.references = FlattenSeq([k \in 1 .. n |-> parts[k].references])
  <2> DEFINE failed == {k \in DOMAIN parts : parts[k].outcome = "failed"}
  <2>1. failed = {}
    BY <1>8
  <2>2. (IF failed = {} THEN DOMAIN parts ELSE 1 .. Min(failed)) = 1 .. n
    <3> HIDE DEF failed
    <3> QED
      BY <1>3, <2>1
  <2>3. /\ ByLines(parts, file).declarations = FlattenSeq([k \in 1 .. n |-> parts[k].declarations])
        /\ ByLines(parts, file).references = FlattenSeq([k \in 1 .. n |-> parts[k].references])
    BY <2>2 DEF ByLines
  <2> QED
    BY <1>4, <2>3
<1>12. \A k \in DOMAIN seen : IsSeq(seen[k].declarations) /\ IsSeq(seen[k].references)
  BY <1>3, <1>10 DEF SameSites
<1>13. /\ IsSeq(c.declarations) /\ IsSeq(c.references)
       /\ c.valid = \A k \in DOMAIN seen : seen[k].valid
       /\ c.declarations = FlattenSeq([k \in DOMAIN seen |-> seen[k].declarations])
       /\ c.references = FlattenSeq([k \in DOMAIN seen |-> seen[k].references])
       /\ \A s \in ToSet(c.declarations) : \E k \in DOMAIN seen : s \in ToSet(seen[k].declarations)
       /\ \A s \in ToSet(c.references) : \E k \in DOMAIN seen : s \in ToSet(seen[k].references)
  BY <1>2, <1>5, <1>12, CollectedJoin
<1> HIDE DEF c
<1>14. c.valid
  BY <1>3, <1>10, <1>13 DEF SameSites
<1>15. OnFiles(c.declarations) = r.declarations
  <2> DEFINE f == [k \in 1 .. n |-> seen[k].declarations]
             g == [k \in 1 .. n |-> parts[k].declarations]
  <2>1. \A k \in 1 .. n : IsSeq(f[k]) /\ g[k] = OnFiles(f[k])
    BY <1>10 DEF SameSites
  <2>2. f = [k \in 1 .. n |-> f[k]] /\ g = [k \in 1 .. n |-> g[k]]
    OBVIOUS
  <2>3. c.declarations = FlattenSeq(f) /\ r.declarations = FlattenSeq(g)
    BY <1>3, <1>11, <1>13
  <2> HIDE DEF f, g
  <2>4. OnFiles(FlattenSeq([k \in 1 .. n |-> f[k]])) = FlattenSeq([k \in 1 .. n |-> g[k]])
    BY <1>1, <2>1, OnFilesOfFlatten
  <2> QED
    BY <2>2, <2>3, <2>4
<1>16. OnFiles(c.references) = r.references
  <2> DEFINE f == [k \in 1 .. n |-> seen[k].references]
             g == [k \in 1 .. n |-> parts[k].references]
  <2>1. \A k \in 1 .. n : IsSeq(f[k]) /\ g[k] = OnFiles(f[k])
    BY <1>10 DEF SameSites
  <2>2. f = [k \in 1 .. n |-> f[k]] /\ g = [k \in 1 .. n |-> g[k]]
    OBVIOUS
  <2>3. c.references = FlattenSeq(f) /\ r.references = FlattenSeq(g)
    BY <1>3, <1>11, <1>13
  <2> HIDE DEF f, g
  <2>4. OnFiles(FlattenSeq([k \in 1 .. n |-> f[k]])) = FlattenSeq([k \in 1 .. n |-> g[k]])
    BY <1>1, <2>1, OnFilesOfFlatten
  <2> QED
    BY <2>2, <2>3, <2>4
<1>18. /\ \A s \in ToSet(c.declarations) : At(s, places)
       /\ \A s \in ToSet(c.references) : At(s, places)
  BY <1>3, <1>10, <1>13 DEF SameSites
<1>17. SameSites(c, r, places)
  BY <1>18, <1>13, <1>14, <1>15, <1>16 DEF SameSites
<1> QED
  BY <1>17 DEF c, lines

\* What saving the buffers would leave on disk.
LEMMA OverlaidHolds ==
  ASSUME WorkspaceHolds(saved, open, snapshot, catalog)
  PROVE  SavedHolds(Overlaid(open)) /\ DOMAIN Overlaid(open) = DOMAIN saved
<1> DEFINE known(f) == {p \in DOMAIN open : Identity(snapshot, p) = f /\ Link[p] = f}
           s == Overlaid(open)
<1>1. /\ DOMAIN s = DOMAIN saved
      /\ \A f \in DOMAIN saved : s[f] = IF known(f) = {} THEN saved[f] ELSE open[CHOOSE p \in known(f) : TRUE]
  BY DEF Overlaid
<1> HIDE DEF s
<1>2. SavedHolds(saved) /\ OpenHolds(open)
  BY DEF WorkspaceHolds
<1>3. ASSUME NEW f \in DOMAIN saved PROVE s[f] \in Contents[f]
  <2>1. CASE known(f) = {}
    BY <1>1, <1>2, <2>1 DEF SavedHolds
  <2>2. CASE known(f) # {}
    <3>1. PICK p \in known(f) : s[f] = open[p]
      <4> HIDE DEF known
      <4> QED
        BY <1>1, <2>2
    <3> QED
      BY <1>2, <3>1 DEF OpenHolds
  <2> QED
    BY <2>1, <2>2
<1>4. SavedHolds(s)
  BY <1>1, <1>2, <1>3 DEF SavedHolds
<1> QED
  BY <1>1, <1>4 DEF s

\* Where the texts of the files are: in the documents that are open at them, or in themselves.
TextPlaces == {at \in Paths : at = SourceOf(open, snapshot, Link[at])}

\* The text of a file that a view is collected from is what saving would leave.
LEMMA TextIsKnown ==
  ASSUME WorkspaceHolds(saved, open, snapshot, catalog),
         NEW would, Knows(would), NEW f \in DOMAIN would.files, f \in DOMAIN saved,
         NEW active, f \notin active
  PROVE  /\ Link[SourceOf(open, snapshot, f)] = f /\ SourceOf(open, snapshot, f) \in TextPlaces
         /\ \A w : CollectFile(open, snapshot, w, active, f)
                     = CollectText(snapshot, w, SourceOf(open, snapshot, f), Overlaid(open)[f])
<1> DEFINE known == {p \in DOMAIN open : Identity(snapshot, p) = f /\ Link[p] = f}
           at == SourceOf(open, snapshot, f)
           s == Overlaid(open)
<1>1. s[f] = IF known = {} THEN saved[f] ELSE open[CHOOSE p \in known : TRUE]
  BY DEF Overlaid
<1>2. f \in Files /\ f # NoFile /\ Link[f] = f /\ DOMAIN open \subseteq Paths
  BY PathsAssumption, ContentsAssumption DEF WorkspaceHolds, SavedHolds, OpenHolds
<1>3. PICK s0 : SavedHolds(s0) /\ snapshot = Build(Disk(s0))
  <2>1. snapshot.rootFile # NoFile
    BY DEF Knows
  <2>2. snapshot # Unbuilt
    BY <2>1 DEF Unbuilt
  <2> QED
    BY <2>2 DEF WorkspaceHolds
<1>4. OpenAt(open, snapshot, f) = known
  <2>1. ASSUME NEW p \in DOMAIN open, Identity(snapshot, p) = f PROVE Link[p] = f
    BY <1>2, <1>3, <2>1, IdentityLeads
  <2> QED
    BY <2>1 DEF OpenAt
<1> HIDE DEF s, known
<1>5. CASE known # {}
  <2>1. at = (CHOOSE p \in known : TRUE) /\ s[f] = open[at]
    BY <1>1, <1>4, <1>5 DEF SourceOf
  <2>2. Link[at] = f /\ at \in Paths
    <3>1. at \in known
      BY <1>5, <2>1
    <3> QED
      BY <1>2, <3>1 DEF known
  <2>3. \A w : CollectFile(open, snapshot, w, active, f) = CollectText(snapshot, w, at, open[at])
    BY <1>4, <1>5 DEF CollectFile
  <2> HIDE DEF at
  <2>4. \A w : CollectFile(open, snapshot, w, active, f) = CollectText(snapshot, w, at, s[f])
    BY <2>1, <2>3
  <2> QED
    BY <2>2, <2>4 DEF at, s, TextPlaces
<1>6. CASE known = {}
  <2>1. at = f /\ s[f] = saved[f]
    BY <1>1, <1>4, <1>6 DEF SourceOf
  <2>2. f \in DOMAIN snapshot.files /\ snapshot.files[f] = saved[f]
    BY <1>4, <1>6 DEF Knows, OpenAt
  <2>3. \A w : CollectFile(open, snapshot, w, active, f) = CollectText(snapshot, w, f, snapshot.files[f])
    BY <1>4, <1>6, <2>1, <2>2 DEF CollectFile
  <2>4. \A w : CollectFile(open, snapshot, w, active, f) = CollectText(snapshot, w, at, s[f])
    <3> HIDE DEF at
    <3> QED
      BY <2>1, <2>2, <2>3
  <2> QED
    BY <1>2, <2>1, <2>4, PathsAssumption DEF s, TextPlaces
<1> QED
  BY <1>5, <1>6

LEMMA FileAgrees ==
  ASSUME WorkspaceHolds(saved, open, snapshot, catalog),
         NEW disk, GoodDisk(disk), disk.lines = Overlaid(open), DOMAIN disk.lines = DOMAIN saved,
         snapshot.root, IsSeq(snapshot.imports),
         NEW would, Knows(would), Follows(snapshot, would),
         NEW active, NEW file, NEW v, NEW w,
         file \in DOMAIN disk.lines /\ file \notin active
           => VisitsAgree(disk, snapshot, would, active \cup {file}, v, w, TextPlaces),
         NEW r, r = VisitFile(disk, v, active, file), r.file = file, file \in DOMAIN disk.lines,
         r.outcome = "loaded", PartOf(would, r.reads, r.imports), file \in DOMAIN would.files
  PROVE  SameSites(CollectFile(open, snapshot, w, active, file), r, TextPlaces)
<1> DEFINE at == SourceOf(open, snapshot, file)
<1>1. /\ file # NoFile /\ file \notin active /\ ~Malformed(disk.lines[file])
      /\ r = ByLines(PartsOf(v, file, disk.lines[file]), file)
  <2>1. r # Added("declined", NoFile) /\ r # Added("failed", NoFile) /\ r # Added("failed", file)
    BY NothingAdded
  <2> QED
    BY <2>1 DEF VisitFile, PartsOf
<1>2. VisitsAgree(disk, snapshot, would, active \cup {file}, v, w, TextPlaces)
  BY <1>1
<1>3. /\ Link[at] = file /\ at \in TextPlaces
      /\ CollectFile(open, snapshot, w, active, file) = CollectText(snapshot, w, at, disk.lines[file])
  BY <1>1, TextIsKnown
<1> HIDE DEF at
<1>4. SameSites(CollectText(snapshot, w, at, disk.lines[file]), r, TextPlaces)
  BY <1>1, <1>2, <1>3, TextAgrees
<1> QED
  BY <1>3, <1>4

\* Visits by the view and by a build agree, whatever is being visited.
LEMMA VisitsAlwaysAgree ==
  ASSUME WorkspaceHolds(saved, open, snapshot, catalog),
         NEW disk, disk = Disk(Overlaid(open)), NEW would, would = Build(disk), Knows(would),
         NEW visits, IsVisits(visits, disk), NEW seen, IsCollects(seen, open, snapshot)
  PROVE  \A active \in SUBSET DOMAIN disk.lines : \A path \in DOMAIN disk.canonical :
           active \subseteq Loaded(snapshot)
             => AgreesAt(snapshot, would, visits[active][path], seen[active], TextPlaces)
<1> DEFINE D == DOMAIN disk.lines
           T == {A \in SUBSET D : A \subseteq Loaded(snapshot) =>
                   \A path \in DOMAIN disk.canonical : AgreesAt(snapshot, would, visits[A][path], seen[A], TextPlaces)}
<1>1. /\ GoodDisk(disk) /\ disk.lines = Overlaid(open) /\ DOMAIN disk.lines = DOMAIN saved
      /\ DOMAIN disk.canonical = Paths
  BY OverlaidHolds, DiskIsGood
<1>2. snapshot.root /\ IsSeq(snapshot.imports)
  <2>1. PICK s0 : SavedHolds(s0) /\ snapshot = Build(Disk(s0))
    <3>1. snapshot # Unbuilt
      BY DEF Knows, Unbuilt
    <3> QED
      BY <3>1 DEF WorkspaceHolds
  <2>2. GraphHolds(snapshot, Disk(s0), Visits(Disk(s0))[Root])
    BY <2>1, DiskIsGood, BuildHolds, PathsAssumption
  <2> QED
    BY <2>2 DEF GraphHolds
<1>3. Follows(snapshot, would)
  BY DEF Follows, Knows, ToSet
<1>4. \A A \in SUBSET D : \A p \in DOMAIN disk.canonical :
         VisitHolds(disk, A, p, visits[A][p]) /\ (visits[A][p].outcome = "declined" => Bare(visits[A][p]))
  BY <1>1, VisitsHold, DeclinedIsBare
<1>5. ASSUME NEW A \in SUBSET D, \A x \in D \ A : A \cup {x} \in T, A \subseteq Loaded(snapshot),
             NEW path \in DOMAIN disk.canonical, NEW r, r = visits[A][path],
             r.outcome = "loaded", PartOf(would, r.reads, r.imports),
             r.file \in Loaded(snapshot), r.file \in DOMAIN would.files
      PROVE  SameSites(seen[A][r.file], r, TextPlaces)
  <2>1. PICK file : file = disk.canonical[path]
    OBVIOUS
  <2>2. PICK v : v = visits[A \cup {file}]
    OBVIOUS
  <2>3. PICK w : w = seen[A \cup {file}]
    OBVIOUS
  <2>4. r = VisitFile(disk, v, A, file)
    BY <1>5, <2>1, <2>2, ZenonT(60) DEF IsVisits, VisitRow
  <2>5. r.file = file /\ file \in D
    BY <1>4, <1>5, <2>1 DEF VisitHolds
  <2>6. A \in SUBSET Loaded(snapshot) /\ file \in Loaded(snapshot)
    BY <1>5, <2>5
  <2>7. seen[A][file] = CollectFile(open, snapshot, w, A, file)
    BY <2>3, <2>6 DEF IsCollects, CollectRow
  <2>8. file \notin A => VisitsAgree(disk, snapshot, would, A \cup {file}, v, w, TextPlaces)
    <3> SUFFICES ASSUME file \notin A PROVE VisitsAgree(disk, snapshot, would, A \cup {file}, v, w, TextPlaces)
      OBVIOUS
    <3>1. A \cup {file} \in SUBSET D /\ A \cup {file} \in T /\ A \cup {file} \subseteq Loaded(snapshot)
      BY <1>5, <2>5, <2>6
    <3> QED
      BY <1>4, <2>2, <2>3, <3>1 DEF VisitsAgree
  <2>9. SameSites(CollectFile(open, snapshot, w, A, file), r, TextPlaces)
    <3> HIDE DEF D, T
    <3>1. file \in DOMAIN disk.lines /\ file \in DOMAIN would.files
      BY <1>5, <2>5 DEF D
    <3>2. file \in DOMAIN disk.lines /\ file \notin A => VisitsAgree(disk, snapshot, would, A \cup {file}, v, w, TextPlaces)
      BY <2>8
    <3> QED
      BY <1>1, <1>2, <1>3, <1>5, <2>4, <2>5, <3>1, <3>2, FileAgrees
  <2> QED
    BY <2>5, <2>7, <2>9
<1>6. ASSUME NEW A \in SUBSET D, \A x \in D \ A : A \cup {x} \in T PROVE A \in T
  <2> SUFFICES ASSUME A \subseteq Loaded(snapshot), NEW path \in DOMAIN disk.canonical
               PROVE  AgreesAt(snapshot, would, visits[A][path], seen[A], TextPlaces)
    OBVIOUS
  <2>1. PICK r : r = visits[A][path]
    OBVIOUS
  <2> HIDE DEF T
  <2>2. AgreesAt(snapshot, would, r, seen[A], TextPlaces)
    BY <1>5, <1>6, <2>1 DEF AgreesAt
  <2> QED
    BY <2>1, <2>2
<1>7. SUBSET D \subseteq T
  <2>1. IsFiniteSet(D)
    BY <1>1 DEF GoodDisk, IsDisk
  <2> HIDE DEF D, T
  <2> QED
    BY <1>6, <2>1, DownInduction
<1> QED
  BY <1>7

\* What a view has when the loop knows what saving would load.
LEMMA TheViewFollows ==
  ASSUME WorkspaceHolds(saved, open, snapshot, catalog), Knows(Build(Disk(Overlaid(open))))
  PROVE  LET would == Build(Disk(Overlaid(open)))
             view  == WorkspaceView(open, snapshot)
         IN  /\ view.ready
             /\ OnFiles(view.declarations) = would.declarations
             /\ OnFiles(view.references) = would.references
             /\ IsSeq(view.declarations) /\ IsSeq(view.references)
             /\ \A s \in ToSet(view.declarations) : At(s, TextPlaces)
             /\ \A s \in ToSet(view.references) : At(s, TextPlaces)
<1> DEFINE disk == Disk(Overlaid(open))
           would == Build(disk)
           root == Visits(disk)[Root]
           view == WorkspaceView(open, snapshot)
<1>1. /\ SavedHolds(Overlaid(open)) /\ GoodDisk(disk) /\ Root \in DOMAIN disk.canonical
      /\ DOMAIN disk.canonical = Paths /\ disk.lines = Overlaid(open) /\ DOMAIN disk.lines = DOMAIN saved
      /\ \A p \in Paths : disk.canonical[p] = IF Link[p] \in DOMAIN disk.lines THEN Link[p] ELSE NoFile
  BY OverlaidHolds, DiskIsGood, PathsAssumption
<1>2. VisitHolds(disk, {}, Root, root) /\ GraphHolds(would, disk, root)
  <2> HIDE DEF disk
  <2> QED
    BY <1>1, BuildHolds
<1>3. would.rootFile # NoFile /\ snapshot.rootFile # NoFile
  BY DEF Knows
<1>4. /\ would.imports = root.imports
      /\ root.outcome = "loaded" => would.declarations = root.declarations /\ would.references = root.references
  <2> HIDE DEF disk, root
  <2> QED
    BY DEF Build, Published, root
<1>5. root.outcome = "loaded" /\ root.file = Link[Root] /\ root.file \in DOMAIN would.files
  <2> HIDE DEF root, would, disk
  <2> QED
    BY <1>1, <1>2, <1>3, PathsAssumption DEF GraphHolds, VisitHolds
<1>6. snapshot.root /\ snapshot.rootFile = Link[Root]
  <2>1. PICK s0 : SavedHolds(s0) /\ snapshot = Build(Disk(s0))
    <3>1. snapshot # Unbuilt
      BY <1>3 DEF Unbuilt
    <3> QED
      BY <3>1 DEF WorkspaceHolds
  <2>2. /\ GraphHolds(snapshot, Disk(s0), Visits(Disk(s0))[Root])
        /\ \A p \in Paths : Disk(s0).canonical[p] = IF Link[p] \in DOMAIN s0 THEN Link[p] ELSE NoFile
    BY <2>1, DiskIsGood, BuildHolds, PathsAssumption
  <2> QED
    BY <1>3, <2>2, PathsAssumption DEF GraphHolds
<1>7. PartOf(would, root.reads, root.imports)
  <2> HIDE DEF would, root, disk
  <2> QED
    BY <1>2, <1>4 DEF PartOf, GraphHolds, VisitHolds, ReadsHold, IsRead
<1>8. PICK visits : IsVisits(visits, disk) /\ Visits(disk) = visits[{}]
  BY <1>1, VisitsUnfold DEF GoodDisk
<1>9. PICK seen : /\ IsCollects(seen, open, snapshot)
                  /\ \A active \in SUBSET Loaded(snapshot) : Visiting(open, snapshot, active) = seen[active]
  <2>1. GraphFine(snapshot)
    BY GraphsAreFine DEF WorkspaceHolds
  <2> QED
    BY <2>1, CollectsUnfold DEF GraphFine
<1>10. root = visits[{}][Root] /\ Visiting(open, snapshot, {}) = seen[{}] /\ root.file \in Loaded(snapshot)
  <2> HIDE DEF disk
  <2> QED
    BY <1>5, <1>6, <1>8, <1>9 DEF Loaded
<1>11. SameSites(seen[{}][root.file], root, TextPlaces)
  <2> HIDE DEF would, root
  <2>1. {} \in SUBSET DOMAIN disk.lines /\ {} \subseteq Loaded(snapshot)
    OBVIOUS
  <2> HIDE DEF disk
  <2>2. AgreesAt(snapshot, would, visits[{}][Root], seen[{}], TextPlaces)
    BY <1>1, <1>8, <1>9, <2>1, VisitsAlwaysAgree DEF would, disk
  <2> QED
    BY <1>5, <1>7, <1>10, <2>2 DEF AgreesAt
<1>12. view = Finished(snapshot, seen[{}][root.file])
  BY <1>3, <1>5, <1>6, <1>10 DEF WorkspaceView
<1> HIDE DEF view, would, root
<1>13. Ready(snapshot)
  BY <1>3, <1>6 DEF Ready
<1>14. view.ready /\ view.declarations = seen[{}][root.file].declarations
      /\ view.references = seen[{}][root.file].references
  BY <1>11, <1>12, <1>13 DEF Finished, SameSites
<1>15. /\ view.ready
       /\ OnFiles(view.declarations) = would.declarations
       /\ OnFiles(view.references) = would.references
       /\ IsSeq(view.declarations) /\ IsSeq(view.references)
       /\ \A s \in ToSet(view.declarations) : At(s, TextPlaces)
       /\ \A s \in ToSet(view.references) : At(s, TextPlaces)
  BY <1>4, <1>5, <1>11, <1>14 DEF SameSites
<1> QED
  BY <1>15 DEF view, would, disk

LEMMA TheViewIsWhatSavingWouldPublish ==
  ASSUME WorkspaceHolds(saved, open, snapshot, catalog)
  PROVE  ViewIsWhatSavingWouldPublish
BY TheViewFollows DEF ViewIsWhatSavingWouldPublish

\* Requests see what Bazel would were the buffers saved: however many files there
\* are, open or not, and however they import one another, the view of the open
\* buffers over the saved graph has the sites of a build of those texts, in its
\* order (view.rs, Collector::visit; index.rs, Builder::visit).
THEOREM ViewIsAlwaysWhatSavingWouldPublish == Spec => []ViewIsWhatSavingWouldPublish
<1>1. WorkspaceHolds(saved, open, snapshot, catalog) => ViewIsWhatSavingWouldPublish
  BY TheViewIsWhatSavingWouldPublish
<1> QED
  BY <1>1, WorkspaceStaysGood, PTL

-----------------------------------------------------------------------------
(***************************************************************************)
(* Renaming: a build of the files before and one of the files after, in    *)
(* step.                                                                   *)
(***************************************************************************)

\* The sites of a visit are on the lines of the disk.
SitesOn(disk, r) ==
  /\ \A s \in ToSet(r.declarations) :
       s.at[1] \in DOMAIN disk.lines /\ DeclaredIn(s, s.at[1], disk.lines[s.at[1]])
  /\ \A s \in ToSet(r.references) :
       s.at[1] \in DOMAIN disk.lines /\ ReferredIn(s, s.at[1], disk.lines[s.at[1]])

LEMMA BareOn ==
  ASSUME NEW disk, NEW r, Bare(r)
  PROVE  SitesOn(disk, r)
BY ShortIsSeq DEF Bare, SitesOn

LEMMA IsReferred ==
  ASSUME NEW lines, NEW k \in DOMAIN lines, NEW j \in DOMAIN lines[k].options, NEW at, NEW s,
         lines[k].says = "entry", AcceptsConfig(lines[k].command), Referenced(lines[k], j) # NoName,
         s = ConfigSite(Referenced(lines[k], j), lines[k].command, <<at, k, j>>, lines[k].name)
  PROVE  ReferredIn(s, at, lines)
BY DEF ReferredIn

LEMMA EachLineOn ==
  ASSUME NEW disk, GoodDisk(disk), NEW file \in DOMAIN disk.lines, NEW k \in DOMAIN disk.lines[file],
         NEW v, \A p \in DOMAIN disk.canonical : SitesOn(disk, v[p])
  PROVE  SitesOn(disk, ByLine(v, file, k, disk.lines[file][k]))
<1>0. PICK line : line = disk.lines[file][k]
  OBVIOUS
<1>1. IsSeq(line.options) /\ (IsImport(line) => line.path \in DOMAIN disk.canonical)
  BY <1>0 DEF GoodDisk
<1>2. PICK r : r = ByLine(v, file, k, line)
  OBVIOUS
<1>3. CASE line.says = "entry"
  <2>1. r.declarations = DeclarationsOf(file, k, line) /\ r.references = ReferencesOf(file, k, line)
    BY <1>2, <1>3 DEF ByLine, ByEntry, Added
  <2>2. ASSUME NEW s \in ToSet(r.declarations)
        PROVE  s.at[1] = file /\ DeclaredIn(s, file, disk.lines[file])
    <3>1. Declares(line) /\ s = ConfigSite(line.name, line.command, <<file, k, 0>>, NoName)
      BY <2>1, ShortIsSeq DEF DeclarationsOf
    <3> QED
      BY <1>0, <1>3, <3>1 DEF DeclaredIn, ConfigSite
  <2>3. ASSUME NEW s \in ToSet(r.references)
        PROVE  s.at[1] = file /\ ReferredIn(s, file, disk.lines[file])
    <3>1. PICK j \in DOMAIN line.options :
             /\ AcceptsConfig(line.command) /\ Referenced(line, j) # NoName
             /\ s = ConfigSite(Referenced(line, j), line.command, <<file, k, j>>, line.name)
      BY <1>1, <2>1, ReferencesAre
    <3>2. s.at[1] = file
      BY <3>1 DEF ConfigSite
    <3> QED
      BY <1>0, <1>3, <3>1, <3>2, IsReferred
  <2>4. SitesOn(disk, r)
    BY <2>2, <2>3 DEF SitesOn
  <2> QED
    BY <1>0, <1>2, <2>4
<1>4. CASE line.says # "entry" /\ IsImport(line) /\ Active(line)
  <2>1. r = ByImport(line, <<file, k, 0>>, v[line.path])
    BY <1>2, <1>4 DEF ByLine
  <2>2. r.declarations = v[line.path].declarations /\ r.references = v[line.path].references
    BY <2>1 DEF ByImport
  <2>3. SitesOn(disk, v[line.path])
    BY <1>1, <1>4
  <2>4. SitesOn(disk, r)
    BY <2>2, <2>3 DEF SitesOn
  <2> QED
    BY <1>0, <1>2, <2>4
<1>5. CASE line.says # "entry" /\ ~(IsImport(line) /\ Active(line))
  <2>1. Bare(r)
    <3>1. CASE IsImport(line)
      <4>1. r = ByImport(line, <<file, k, 0>>, Added("skipped", NoFile))
        BY <1>2, <1>5, <3>1 DEF ByLine
      <4> QED
        BY <4>1, NothingAdded DEF ByImport, Bare
    <3>2. CASE ~IsImport(line)
      BY <1>2, <1>5, <3>2, NothingAdded DEF ByLine, Bare
    <3> QED
      BY <3>1, <3>2
  <2> QED
    BY <1>0, <1>2, <2>1, BareOn
<1> QED
  BY <1>3, <1>4, <1>5

LEMMA VisitsOn ==
  ASSUME NEW disk, GoodDisk(disk), NEW visits, IsVisits(visits, disk)
  PROVE  \A active \in SUBSET DOMAIN disk.lines : \A path \in DOMAIN disk.canonical :
            SitesOn(disk, visits[active][path])
<1> DEFINE D == DOMAIN disk.lines
           T == {A \in SUBSET D : \A path \in DOMAIN disk.canonical : SitesOn(disk, visits[A][path])}
<1>1. ASSUME NEW A \in SUBSET D, \A x \in D \ A : A \cup {x} \in T,
             NEW path \in DOMAIN disk.canonical
      PROVE  SitesOn(disk, visits[A][path])
  <2>1. PICK file : file = disk.canonical[path]
    OBVIOUS
  <2>2. PICK v : v = visits[A \cup {file}]
    OBVIOUS
  <2>3. PICK r : r = visits[A][path]
    OBVIOUS
  <2>4. r = VisitFile(disk, v, A, file)
    BY <2>1, <2>2, <2>3 DEF IsVisits, VisitRow
  <2>5. file \in D \cup {NoFile}
    BY <2>1 DEF GoodDisk, IsDisk
  <2>6. CASE file = NoFile \/ file \in A \/ ~Readable(disk.lines[file]) \/ Malformed(disk.lines[file])
    <3>1. r = Added("declined", NoFile) \/ r = Added("failed", NoFile) \/ r = Added("failed", file)
      BY <2>4, <2>6 DEF VisitFile
    <3>2. Bare(r)
      BY <3>1, NothingAdded DEF Bare
    <3> QED
      BY <2>3, <3>2, BareOn
  <2>7. CASE ~(file = NoFile \/ file \in A \/ ~Readable(disk.lines[file]) \/ Malformed(disk.lines[file]))
    <3> DEFINE lines == disk.lines[file]
               parts == PartsOf(v, file, lines)
    <3>1. r = ByLines(parts, file)
      BY <2>4, <2>7 DEF VisitFile, PartsOf
    <3>2. A \cup {file} \in SUBSET D /\ A \cup {file} \in T
      BY <1>1, <2>5, <2>7
    <3>3. \A p \in DOMAIN disk.canonical : SitesOn(disk, v[p]) /\ VisitHolds(disk, A \cup {file}, p, v[p])
      BY <2>2, <3>2, VisitsHold
    <3>4. IsSeq(lines) /\ Len(lines) \in Nat /\ DOMAIN lines = 1 .. Len(lines)
      BY <2>5, <2>7, IsSeqHas DEF GoodDisk
    <3>5. DOMAIN parts = DOMAIN lines /\ \A k \in DOMAIN lines : parts[k] = ByLine(v, file, k, lines[k])
      BY DEF PartsOf
    <3>6. IsSeq(parts)
      <4>1. parts = [k \in 1 .. Len(lines) |-> parts[k]]
        BY <3>4 DEF PartsOf
      <4> HIDE DEF parts
      <4> QED
        BY <3>4, <3>5, <4>1, MadeIsSeq
    <3> HIDE DEF parts
    <3>7. ASSUME NEW k \in DOMAIN parts PROVE SitesOn(disk, parts[k]) /\ Sequenced(parts[k])
      <4>1. SitesOn(disk, parts[k])
        BY <2>5, <2>7, <3>3, <3>5, EachLineOn
      <4>2. LineHolds(disk, A \cup {file}, file, k, parts[k])
        BY <2>5, <2>7, <3>3, <3>5, EachLineHolds
      <4> QED
        BY <4>1, <4>2 DEF LineHolds
    <3>8. Joins(r, file, parts, 1 .. LinesDone(parts))
      BY <3>1, <3>6, <3>7, LinesJoin
    <3>9. /\ \A s \in ToSet(r.declarations) : \E k \in DOMAIN parts : s \in ToSet(parts[k].declarations)
          /\ \A s \in ToSet(r.references) : \E k \in DOMAIN parts : s \in ToSet(parts[k].references)
      BY <3>8 DEF Joins
    <3>10. SitesOn(disk, r)
      BY <3>7, <3>9 DEF SitesOn
    <3> QED
      BY <2>3, <3>10
  <2> QED
    BY <2>6, <2>7
<1>2. \A A \in SUBSET D : (\A x \in D \ A : A \cup {x} \in T) => A \in T
  BY <1>1
<1>3. SUBSET D \subseteq T
  <2>1. IsFiniteSet(D)
    BY DEF GoodDisk, IsDisk
  <2> HIDE DEF D, T
  <2> QED
    BY <1>2, <2>1, DownInduction
<1> QED
  BY <1>3

\* The sites that a build publishes are on the lines of the disk.
LEMMA BuildOn ==
  ASSUME NEW disk, GoodDisk(disk), Root \in DOMAIN disk.canonical
  PROVE  SitesOn(disk, Build(disk))
<1> DEFINE root == Visits(disk)[Root]
<1>1. PICK visits : IsVisits(visits, disk) /\ Visits(disk) = visits[{}]
  BY VisitsUnfold DEF GoodDisk
<1>2. SitesOn(disk, root)
  BY <1>1, VisitsOn
<1> HIDE DEF root
<1>3. /\ Build(disk).declarations = IF root.outcome = "loaded" THEN root.declarations ELSE <<>>
      /\ Build(disk).references = IF root.outcome = "loaded" THEN root.references ELSE <<>>
  BY DEF Build, Published, root
<1> QED
  BY <1>2, <1>3, ShortIsSeq DEF SitesOn

\* A site with a name of it made new.
RenamedSite(site, name) ==
  [site EXCEPT !.name = IF @ = name THEN Fresh ELSE @, !.owner = IF @ = name THEN Fresh ELSE @]

RenamedSites(sites, name) == [i \in DOMAIN sites |-> RenamedSite(sites[i], name)]

LEMMA RenamedOfFlatten ==
  ASSUME NEW name, NEW n \in Nat, NEW parts, NEW images,
         \A k \in 1 .. n : IsSeq(parts[k]) /\ images[k] = RenamedSites(parts[k], name)
  PROVE  RenamedSites(FlattenSeq([k \in 1 .. n |-> parts[k]]), name) = FlattenSeq([k \in 1 .. n |-> images[k]])
<1> DEFINE p == [k \in 1 .. n |-> parts[k]]
           q == [k \in 1 .. n |-> images[k]]
           X == ToSet(FlattenSeq(p))
           h == [s \in X |-> RenamedSite(s, name)]
<1>1. IsSeq(p) /\ Len(p) = n /\ DOMAIN p = 1 .. n /\ IsSeq(q) /\ Len(q) = n /\ DOMAIN q = 1 .. n
  BY OverIsSeq
<1>2. \A k \in 1 .. n : IsSeq(p[k]) /\ q[k] = RenamedSites(p[k], name)
  OBVIOUS
<1> HIDE DEF p, q
<1>3. IsSeq(FlattenSeq(p)) /\ X = UNION {ToSet(p[k]) : k \in 1 .. n}
  BY <1>1, <1>2, FlattenIsSeq
<1>4. \A s \in X : h[s] = RenamedSite(s, name)
  OBVIOUS
<1> HIDE DEF X, h
<1>5. \A k \in 1 .. n : q[k] = Image(h, p[k])
  <2> SUFFICES ASSUME NEW k \in 1 .. n PROVE q[k] = Image(h, p[k])
    OBVIOUS
  <2>1. \A i \in DOMAIN p[k] : h[p[k][i]] = RenamedSite(p[k][i], name)
    <3>1. \A i \in DOMAIN p[k] : p[k][i] \in X
      BY <1>3 DEF ToSet
    <3> QED
      BY <1>4, <3>1
  <2>2. q[k] = [i \in DOMAIN p[k] |-> RenamedSite(p[k][i], name)]
    BY <1>2 DEF RenamedSites
  <2> QED
    BY <2>1, <2>2 DEF Image
<1>6. Image(h, FlattenSeq(p)) = FlattenSeq(q)
  BY <1>1, <1>2, <1>5, ImageOfFlatten
<1>7. RenamedSites(FlattenSeq(p), name) = Image(h, FlattenSeq(p))
  <2>1. \A i \in DOMAIN FlattenSeq(p) : h[FlattenSeq(p)[i]] = RenamedSite(FlattenSeq(p)[i], name)
    <3>1. \A i \in DOMAIN FlattenSeq(p) : FlattenSeq(p)[i] \in X
      BY DEF ToSet, X
    <3> QED
      BY <1>4, <3>1
  <2> QED
    BY <2>1 DEF Image, RenamedSites
<1> QED
  BY <1>6, <1>7 DEF p, q

LEMMA RenamedOfNone ==
  ASSUME NEW name
  PROVE  RenamedSites(<<>>, name) = <<>>
BY DEF RenamedSites

LEMMA RenamedSiteOf ==
  ASSUME NEW name, NEW n, NEW command, NEW at, NEW owner
  PROVE  RenamedSite(ConfigSite(n, command, at, owner), name)
           = ConfigSite(IF n = name THEN Fresh ELSE n, command, at, IF owner = name THEN Fresh ELSE owner)
<1> DEFINE s == ConfigSite(n, command, at, owner)
<1>1. s = [name |-> n, command |-> command, at |-> at, owner |-> owner]
  BY DEF ConfigSite
<1>2. RenamedSite(s, name) = [s EXCEPT !.name = IF @ = name THEN Fresh ELSE @, !.owner = IF @ = name THEN Fresh ELSE @]
  BY DEF RenamedSite
<1> HIDE DEF s
<1> QED
  BY <1>1, <1>2 DEF ConfigSite, s

\* A line of a text.
LineIsGood(line) ==
  /\ {"says", "command", "name", "options", "path", "condition"} \subseteq DOMAIN line
  /\ IsSeq(line.options) /\ line.name \notin {Fresh, AnOption}
  /\ \A j \in DOMAIN line.options :
        /\ {"dashes", "name", "value"} \subseteq DOMAIN line.options[j]
        /\ line.options[j].dashes = "" => line.options[j].value = NoValue

LEMMA LinesAreGood ==
  ASSUME NEW lines, IsText(lines), NEW k \in DOMAIN lines
  PROVE  LineIsGood(lines[k])
<1>1. PICK f \in Files : lines \in Contents[f]
  BY DEF IsText
<1>2. /\ {"says", "command", "name", "options", "path", "condition"} \subseteq DOMAIN lines[k]
      /\ lines[k].options \in Seq(ToSet(lines[k].options)) /\ lines[k].name \notin {Fresh, AnOption}
      /\ \A option \in ToSet(lines[k].options) :
            /\ {"dashes", "name", "value"} \subseteq DOMAIN option
            /\ option.dashes = "" => option.value = NoValue
  BY <1>1, ContentsAssumption
<1>3. \A j \in DOMAIN lines[k].options : lines[k].options[j] \in ToSet(lines[k].options)
  BY DEF ToSet
<1> QED
  BY <1>2, <1>3 DEF LineIsGood, IsSeq

\* The slots of an entry where a name is.
SlotsFit(line, slots, name) ==
  line.says = "entry" =>
    /\ 0 \in slots <=> Declares(line) /\ line.name = name
    /\ \A j \in DOMAIN line.options :
         j \in slots <=> AcceptsConfig(line.command) /\ Referenced(line, j) = name

LEMMA RenamedSays ==
  ASSUME NEW line, LineIsGood(line), NEW slots
  PROVE  LET new == Renamed(line, slots)
         IN  /\ new.says = line.says /\ new.command = line.command
             /\ new.path = line.path /\ new.condition = line.condition
             /\ new.name = IF 0 \in slots THEN Fresh ELSE line.name
             /\ DOMAIN new.options = DOMAIN line.options /\ IsSeq(new.options) /\ Len(new.options) = Len(line.options)
             /\ \A j \in DOMAIN line.options :
                  new.options[j] = IF j \in slots THEN RenamedOption(line.options[j]) ELSE line.options[j]
<1> DEFINE options == [j \in DOMAIN line.options |-> IF j \in slots THEN RenamedOption(line.options[j]) ELSE line.options[j]]
           n == IF 0 \in slots THEN Fresh ELSE line.name
           new == Renamed(line, slots)
<1>1. new = [line EXCEPT !.name = n, !.options = options]
  BY DEF Renamed
<1>2. DOMAIN options = DOMAIN line.options /\ IsSeq(options) /\ Len(options) = Len(line.options)
  <2>1. Len(line.options) \in Nat /\ DOMAIN line.options = 1 .. Len(line.options)
    BY IsSeqHas DEF LineIsGood
  <2>2. options = [j \in 1 .. Len(line.options) |-> options[j]] /\ DOMAIN options = 1 .. Len(line.options)
    BY <2>1
  <2> HIDE DEF options
  <2> QED
    BY <2>1, <2>2, MadeIsSeq
<1>3. \A j \in DOMAIN line.options :
         options[j] = IF j \in slots THEN RenamedOption(line.options[j]) ELSE line.options[j]
  OBVIOUS
<1> HIDE DEF options, n, new
<1>4. new.name = n /\ new.options = options
  BY <1>1 DEF LineIsGood
<1>5. new.says = line.says /\ new.command = line.command /\ new.path = line.path /\ new.condition = line.condition
  BY <1>1 DEF LineIsGood
<1> QED
  BY <1>2, <1>3, <1>4, <1>5 DEF n, new

LEMMA RenamedOptionHas ==
  ASSUME NEW option, {"dashes", "name", "value"} \subseteq DOMAIN option
  PROVE  LET new == RenamedOption(option)
         IN  /\ new.dashes = option.dashes
             /\ option.value # NoValue => new.name = option.name /\ new.value = Fresh
             /\ option.value = NoValue => new.name = <<Fresh>> /\ new.value = option.value
BY DEF RenamedOption

LEMMA RenamedRefers ==
  ASSUME NEW line, LineIsGood(line), line.says = "entry", AcceptsConfig(line.command),
         NEW slots, NEW name, name # NoName, name # AnOption, SlotsFit(line, slots, name)
  PROVE  \A j \in DOMAIN line.options :
           Referenced(Renamed(line, slots), j)
             = IF Referenced(line, j) = name THEN Fresh ELSE Referenced(line, j)
<1>1. PICK new : new = Renamed(line, slots)
  OBVIOUS
<1>2. /\ new.says = line.says /\ new.command = line.command
      /\ new.name = IF 0 \in slots THEN Fresh ELSE line.name
      /\ DOMAIN new.options = DOMAIN line.options
      /\ \A j \in DOMAIN line.options :
           new.options[j] = IF j \in slots THEN RenamedOption(line.options[j]) ELSE line.options[j]
  BY <1>1, RenamedSays
<1>3. ASSUME NEW j \in DOMAIN line.options, j \in slots, line.options[j].value = NoValue
      PROVE  /\ Taken(SplitConfigs(line))[j] /\ line.options[j].dashes = ""
             /\ Head(line.options[j].name) = name
  <2>1. Referenced(line, j) = name
    BY <1>3 DEF SlotsFit
  <2>2. Taken(SplitConfigs(line))[j] /\ Word(line.options[j]) = name
    BY <1>3, <2>1 DEF Referenced, JoinsConfig
  <2> QED
    BY <2>2 DEF Word
<1>4. new.name = NoName <=> line.name = NoName
  BY <1>2 DEF SlotsFit, Declares, Fresh, NoName
<1>5. ASSUME NEW j \in DOMAIN line.options
      PROVE  IsConfig(new.options[j]) /\ new.options[j].value = NoValue
               <=> IsConfig(line.options[j]) /\ line.options[j].value = NoValue
  <2> DEFINE o == line.options[j]
             r == new.options[j]
  <2>1. CASE j \notin slots
    BY <1>2, <2>1
  <2>2. CASE j \in slots
    <3>1. r = RenamedOption(o) /\ {"dashes", "name", "value"} \subseteq DOMAIN o
      BY <1>2, <2>2 DEF LineIsGood
    <3>2. /\ r.dashes = o.dashes
          /\ o.value # NoValue => r.value = Fresh
      BY <3>1, RenamedOptionHas
    <3>3. o.value = NoValue => o.dashes = ""
      BY <1>3, <2>2
    <3> HIDE DEF o, r
    <3>4. o.value = NoValue => ~IsConfig(o) /\ ~IsConfig(r)
      BY <3>2, <3>3 DEF IsConfig
    <3>5. o.value # NoValue => r.value # NoValue
      BY <3>2 DEF Fresh, NoValue
    <3>6. (IsConfig(r) /\ r.value = NoValue) <=> (IsConfig(o) /\ o.value = NoValue)
      BY <3>4, <3>5
    <3> QED
      BY <3>6 DEF o, r
  <2> QED
    BY <2>1, <2>2
<1>6. SplitConfigs(new) = SplitConfigs(line)
  <2> DEFINE a(i) == line.name = NoName /\ IsConfig(line.options[i]) /\ line.options[i].value = NoValue
             b(i) == new.name = NoName /\ IsConfig(new.options[i]) /\ new.options[i].value = NoValue
  <2>1. \A i \in DOMAIN line.options : b(i) = a(i)
    BY <1>4, <1>5
  <2>2. SplitConfigs(new) = [i \in DOMAIN line.options |-> b(i)]
    BY <1>2 DEF SplitConfigs
  <2>3. SplitConfigs(line) = [i \in DOMAIN line.options |-> a(i)]
    BY DEF SplitConfigs
  <2> HIDE DEF a, b
  <2> QED
    BY <2>1, <2>2, <2>3
<1>7. ASSUME NEW j \in DOMAIN line.options
      PROVE  Referenced(new, j) = IF Referenced(line, j) = name THEN Fresh ELSE Referenced(line, j)
  <2> DEFINE o == line.options[j]
             r == new.options[j]
  <2>1. PICK taken : taken = Taken(SplitConfigs(line))[j]
    OBVIOUS
  <2>2. /\ Referenced(line, j) = IF taken THEN Word(o)
                                 ELSE IF JoinsConfig(line, o) THEN o.value ELSE NoName
        /\ Referenced(new, j) = IF taken THEN Word(r)
                                ELSE IF JoinsConfig(new, r) THEN r.value ELSE NoName
    BY <1>6, <2>1 DEF Referenced
  <2>3. j \in slots <=> Referenced(line, j) = name
    BY DEF SlotsFit
  <2>4. CASE j \notin slots
    <3>1. r = o
      BY <1>2, <2>4
    <3> QED
      BY <1>4, <2>2, <2>3, <2>4, <3>1 DEF JoinsConfig
  <2>5. CASE j \in slots /\ o.value = NoValue
    <3>1. taken /\ o.dashes = "" /\ Head(o.name) = name
      BY <1>3, <2>1, <2>5
    <3>2. r = RenamedOption(o) /\ {"dashes", "name", "value"} \subseteq DOMAIN o
      BY <1>2, <2>5 DEF LineIsGood
    <3>3. r.dashes = "" /\ r.name = <<Fresh>>
      BY <2>5, <3>1, <3>2, RenamedOptionHas
    <3> HIDE DEF o, r
    <3>5. \A x : Head(<<x>>) = x
      OBVIOUS
    <3>4. Word(r) = Fresh
      BY <3>3, <3>5 DEF Word
    <3> QED
      BY <2>2, <2>3, <2>5, <3>1, <3>4
  <2>6. CASE j \in slots /\ o.value # NoValue
    <3>1. r = RenamedOption(o) /\ {"dashes", "name", "value"} \subseteq DOMAIN o
      BY <1>2, <2>6 DEF LineIsGood
    <3>2. r.dashes = o.dashes /\ r.name = o.name /\ r.value = Fresh
      BY <2>6, <3>1, RenamedOptionHas
    <3>3. o.dashes # ""
      BY <2>6 DEF LineIsGood
    <3> HIDE DEF o, r
    <3>4. ~taken
      <4>1. taken => Referenced(line, j) = AnOption
        BY <2>2, <3>3 DEF Word
      <4> QED
        BY <2>3, <2>6, <4>1
    <3>6. r.value # NoValue
      BY <3>2 DEF Fresh, NoValue
    <3>5. JoinsConfig(line, o) /\ JoinsConfig(new, r)
      <4>1. JoinsConfig(line, o)
        BY <2>2, <2>3, <2>6, <3>4
      <4> QED
        BY <1>4, <3>2, <3>6, <4>1 DEF JoinsConfig, IsConfig, StartsConfig
    <3> QED
      BY <2>2, <2>3, <2>6, <3>2, <3>4, <3>5, <3>6
  <2> QED
    BY <2>4, <2>5, <2>6
<1> QED
  BY <1>1, <1>7

\* An entry with a new name has the sites it had, with the new name.
LEMMA RenamedEntry ==
  ASSUME NEW line, LineIsGood(line), line.says = "entry",
         NEW slots, NEW name, name # NoName, name # AnOption, SlotsFit(line, slots, name),
         NEW file, NEW k
  PROVE  /\ DeclarationsOf(file, k, Renamed(line, slots)) = RenamedSites(DeclarationsOf(file, k, line), name)
         /\ ReferencesOf(file, k, Renamed(line, slots)) = RenamedSites(ReferencesOf(file, k, line), name)
<1>1. PICK new : new = Renamed(line, slots)
  OBVIOUS
<1>2. /\ new.command = line.command
      /\ new.name = IF 0 \in slots THEN Fresh ELSE line.name
      /\ DOMAIN new.options = DOMAIN line.options /\ Len(new.options) = Len(line.options)
  BY <1>1, RenamedSays
<1>3. AcceptsConfig(line.command) => new.name = IF line.name = name THEN Fresh ELSE line.name
  BY <1>2 DEF SlotsFit, Declares
<1>4. DeclarationsOf(file, k, new) = RenamedSites(DeclarationsOf(file, k, line), name)
  <2>1. Declares(new) <=> Declares(line)
    BY <1>2, <1>3 DEF Declares, Fresh, NoName
  <2>2. CASE ~Declares(line)
    BY <2>1, <2>2, RenamedOfNone DEF DeclarationsOf
  <2>3. CASE Declares(line)
    <3> DEFINE s == ConfigSite(line.name, line.command, <<file, k, 0>>, NoName)
               t == ConfigSite(new.name, new.command, <<file, k, 0>>, NoName)
    <3>1. DeclarationsOf(file, k, line) = <<s>> /\ DeclarationsOf(file, k, new) = <<t>>
      BY <2>1, <2>3 DEF DeclarationsOf
    <3>2. RenamedSite(s, name) = ConfigSite(IF line.name = name THEN Fresh ELSE line.name, line.command, <<file, k, 0>>,
                                            IF NoName = name THEN Fresh ELSE NoName)
      BY RenamedSiteOf
    <3>3. RenamedSite(s, name) = t
      <4>1. new.name = (IF line.name = name THEN Fresh ELSE line.name) /\ NoName = (IF NoName = name THEN Fresh ELSE NoName)
        BY <1>3, <2>3 DEF Declares
      <4> HIDE DEF s
      <4> QED
        BY <1>2, <3>2, <4>1
    <3> HIDE DEF s, t
    <3>4. RenamedSites(<<s>>, name) = <<t>>
      BY <3>3 DEF RenamedSites
    <3> QED
      BY <3>1, <3>4
  <2> QED
    BY <2>2, <2>3
<1>5. ReferencesOf(file, k, new) = RenamedSites(ReferencesOf(file, k, line), name)
  <2> DEFINE n == Len(line.options)
             none(l, j) == ~AcceptsConfig(l.command) \/ Referenced(l, j) = NoName
             s(l, j) == ConfigSite(Referenced(l, j), l.command, <<file, k, j>>, l.name)
             a == [j \in 1 .. n |-> IF none(line, j) THEN <<>> ELSE <<s(line, j)>>]
             b == [j \in 1 .. n |-> IF none(new, j) THEN <<>> ELSE <<s(new, j)>>]
  <2>1. n \in Nat /\ DOMAIN line.options = 1 .. n /\ DOMAIN new.options = 1 .. n
    BY <1>2, IsSeqHas DEF LineIsGood
  <2>2. ReferencesOf(file, k, line) = FlattenSeq(a) /\ ReferencesOf(file, k, new) = FlattenSeq(b)
    BY <2>1 DEF ReferencesOf
  <2>3. ASSUME NEW j \in 1 .. n PROVE IsSeq(a[j]) /\ b[j] = RenamedSites(a[j], name)
    <3>1. a[j] = (IF none(line, j) THEN <<>> ELSE <<s(line, j)>>) /\ b[j] = (IF none(new, j) THEN <<>> ELSE <<s(new, j)>>)
      OBVIOUS
    <3>2. AcceptsConfig(line.command) =>
            Referenced(new, j) = IF Referenced(line, j) = name THEN Fresh ELSE Referenced(line, j)
      BY <1>1, <2>1, RenamedRefers
    <3>3. none(new, j) <=> none(line, j)
      BY <1>2, <3>2 DEF Fresh, NoName
    <3>4. CASE none(line, j)
      <4> HIDE DEF a, b, none
      <4> QED
        BY <3>1, <3>3, <3>4, RenamedOfNone, ShortIsSeq
    <3>5. CASE ~none(line, j)
      <4>1. AcceptsConfig(line.command)
        BY <3>5
      <4>2. RenamedSite(s(line, j), name)
              = ConfigSite(IF Referenced(line, j) = name THEN Fresh ELSE Referenced(line, j), line.command,
                           <<file, k, j>>, IF line.name = name THEN Fresh ELSE line.name)
        BY RenamedSiteOf
      <4>3. s(new, j) = ConfigSite(Referenced(new, j), new.command, <<file, k, j>>, new.name)
        OBVIOUS
      <4> HIDE DEF s, a, b, none
      <4>4. RenamedSite(s(line, j), name) = s(new, j)
        BY <1>2, <1>3, <3>2, <4>1, <4>2, <4>3
      <4>5. RenamedSites(<<s(line, j)>>, name) = <<s(new, j)>>
        BY <4>4 DEF RenamedSites
      <4> QED
        BY <3>1, <3>3, <3>5, <4>5, ShortIsSeq
    <3> QED
      BY <3>4, <3>5
  <2>4. a = [j \in 1 .. n |-> a[j]] /\ b = [j \in 1 .. n |-> b[j]]
    OBVIOUS
  <2> HIDE DEF a, b, n
  <2>6. \A j \in 1 .. n : IsSeq(a[j]) /\ b[j] = RenamedSites(a[j], name)
    BY <2>3
  <2>7. n \in Nat
    BY <2>1
  <2>5. RenamedSites(FlattenSeq([j \in 1 .. n |-> a[j]]), name) = FlattenSeq([j \in 1 .. n |-> b[j]])
    BY <2>6, <2>7, RenamedOfFlatten
  <2> QED
    BY <2>2, <2>4, <2>5
<1> QED
  BY <1>1, <1>4, <1>5

\* A disk with a new name in some slots of its lines.
IsRenamed(disk, new, slots) ==
  /\ IsDisk(new) /\ new.canonical = disk.canonical /\ DOMAIN new.lines = DOMAIN disk.lines
  /\ \A f \in DOMAIN disk.lines :
       /\ DOMAIN new.lines[f] = DOMAIN disk.lines[f]
       /\ \A k \in DOMAIN disk.lines[f] :
            LineIsGood(disk.lines[f][k]) /\ new.lines[f][k] = Renamed(disk.lines[f][k], slots[f][k])

\* The sites of a visit are among those that a build publishes.
InWhole(would, r) ==
  ToSet(r.declarations) \subseteq ToSet(would.declarations) /\ ToSet(r.references) \subseteq ToSet(would.references)

\* The slots of a line whose sites are published are those of a name.
SlotsKnown(would, disk, slots, name) ==
  \A f \in DOMAIN disk.lines : \A k \in DOMAIN disk.lines[f] :
    LET line == disk.lines[f][k]
    IN  (/\ line.says = "entry"
         /\ ToSet(DeclarationsOf(f, k, line)) \subseteq ToSet(would.declarations)
         /\ ToSet(ReferencesOf(f, k, line)) \subseteq ToSet(would.references))
          => SlotsFit(line, slots[f][k], name)

\* A visit adds what it did, with the new name.
SameRenamed(r, new, name) ==
  /\ new.outcome = r.outcome
  /\ new.declarations = RenamedSites(r.declarations, name)
  /\ new.references = RenamedSites(r.references, name)

RenamedAt(would, r, new, name) ==
  (r.outcome # "failed" /\ InWhole(would, r)) => SameRenamed(r, new, name)

LEMMA BareIsRenamed ==
  ASSUME NEW r, NEW new, Bare(r), Bare(new), new.outcome = r.outcome, NEW name
  PROVE  SameRenamed(r, new, name)
BY RenamedOfNone DEF SameRenamed, Bare

LEMMA RenamedLineAgrees ==
  ASSUME NEW disk, GoodDisk(disk), NEW new, NEW slots, IsRenamed(disk, new, slots),
         NEW would, NEW name, name # NoName, name # AnOption, SlotsKnown(would, disk, slots, name),
         NEW v, NEW w, \A p \in DOMAIN disk.canonical : RenamedAt(would, v[p], w[p], name),
         NEW file \in DOMAIN disk.lines, NEW k \in DOMAIN disk.lines[file],
         NEW r, r = ByLine(v, file, k, disk.lines[file][k]), r.outcome # "failed", InWhole(would, r)
  PROVE  SameRenamed(r, ByLine(w, file, k, new.lines[file][k]), name)
<1> DEFINE line == disk.lines[file][k]
<1>1. PICK next : next = new.lines[file][k]
  OBVIOUS
<1>2. PICK s : s = ByLine(w, file, k, next)
  OBVIOUS
<1>3. LineIsGood(line) /\ next = Renamed(line, slots[file][k])
  BY <1>1 DEF IsRenamed
<1>4. next.says = line.says /\ next.path = line.path /\ next.condition = line.condition
  BY <1>3, RenamedSays
<1>5. (IsImport(next) <=> IsImport(line)) /\ (Active(next) <=> Active(line))
  BY <1>4 DEF IsImport, Active
<1>6. \A outcome : Fails(next, outcome) <=> Fails(line, outcome)
  BY <1>4 DEF Fails
<1>7. IsImport(line) => line.path \in DOMAIN disk.canonical
  BY DEF GoodDisk
<1>8. CASE line.says = "entry"
  <2>1. /\ r.outcome = "loaded" /\ r.declarations = DeclarationsOf(file, k, line)
        /\ r.references = ReferencesOf(file, k, line)
    BY <1>8 DEF ByLine, ByEntry, Added
  <2>2. /\ s.outcome = "loaded" /\ s.declarations = DeclarationsOf(file, k, next)
        /\ s.references = ReferencesOf(file, k, next)
    BY <1>2, <1>4, <1>8 DEF ByLine, ByEntry, Added
  <2>3. SlotsFit(line, slots[file][k], name)
    BY <1>8, <2>1 DEF InWhole, SlotsKnown
  <2> HIDE DEF line
  <2>4. /\ DeclarationsOf(file, k, next) = RenamedSites(DeclarationsOf(file, k, line), name)
        /\ ReferencesOf(file, k, next) = RenamedSites(ReferencesOf(file, k, line), name)
    BY <1>3, <1>8, <2>3, RenamedEntry
  <2>5. SameRenamed(r, s, name)
    BY <2>1, <2>2, <2>4 DEF SameRenamed
  <2> QED
    BY <1>1, <1>2, <2>5
<1>9. CASE line.says # "entry" /\ IsImport(line) /\ Active(line)
  <2>1. PICK p \in DOMAIN disk.canonical : p = line.path
    BY <1>7, <1>9
  <2>2. r = ByImport(line, <<file, k, 0>>, v[p]) /\ s = ByImport(next, <<file, k, 0>>, w[p])
    BY <1>2, <1>4, <1>5, <1>9, <2>1 DEF ByLine
  <2> HIDE DEF line
  <2>3. /\ r.outcome = (IF Fails(line, v[p].outcome) THEN "failed" ELSE "loaded")
        /\ s.outcome = (IF Fails(next, w[p].outcome) THEN "failed" ELSE "loaded")
        /\ r.declarations = v[p].declarations /\ r.references = v[p].references
        /\ s.declarations = w[p].declarations /\ s.references = w[p].references
    BY <2>2 DEF ByImport
  <2>4. v[p].outcome # "failed" /\ InWhole(would, v[p])
    BY <2>3 DEF InWhole, Fails
  <2>5. SameRenamed(v[p], w[p], name)
    BY <2>4 DEF RenamedAt
  <2>6. SameRenamed(r, s, name)
    BY <1>6, <2>3, <2>5 DEF SameRenamed
  <2> QED
    BY <1>1, <1>2, <2>6
<1>10. CASE line.says # "entry" /\ ~(IsImport(line) /\ Active(line))
  <2>1. CASE IsImport(line)
    <3> DEFINE none == Added("skipped", NoFile)
    <3>1. r = ByImport(line, <<file, k, 0>>, none) /\ s = ByImport(next, <<file, k, 0>>, none)
      BY <1>2, <1>4, <1>5, <1>10, <2>1 DEF ByLine
    <3>2. Bare(none) /\ none.outcome = "skipped"
      BY NothingAdded DEF Bare
    <3> HIDE DEF none, line
    <3>3. /\ Bare(r) /\ Bare(s) /\ r.outcome = (IF Fails(line, none.outcome) THEN "failed" ELSE "loaded")
          /\ s.outcome = (IF Fails(next, none.outcome) THEN "failed" ELSE "loaded")
      BY <3>1, <3>2 DEF ByImport, Bare
    <3>4. s.outcome = r.outcome
      BY <1>6, <3>3
    <3> QED
      BY <1>1, <1>2, <3>3, <3>4, BareIsRenamed
  <2>2. CASE ~IsImport(line)
    <3>1. r = Added("loaded", NoFile) /\ s = Added("loaded", NoFile)
      BY <1>2, <1>4, <1>5, <1>10, <2>2 DEF ByLine
    <3>2. Bare(r) /\ Bare(s)
      BY <3>1, NothingAdded DEF Bare
    <3> QED
      BY <1>1, <1>2, <3>1, <3>2, BareIsRenamed
  <2> QED
    BY <2>1, <2>2
<1> QED
  BY <1>8, <1>9, <1>10

LEMMA RenamedTextAgrees ==
  ASSUME NEW disk, GoodDisk(disk), NEW new, NEW slots, IsRenamed(disk, new, slots),
         NEW would, NEW name, name # NoName, name # AnOption, SlotsKnown(would, disk, slots, name),
         NEW file \in DOMAIN disk.lines, NEW active,
         NEW v, NEW w, \A p \in DOMAIN disk.canonical : RenamedAt(would, v[p], w[p], name),
         \A p \in DOMAIN disk.canonical : VisitHolds(disk, active \cup {file}, p, v[p]),
         NEW r, r = ByLines(PartsOf(v, file, disk.lines[file]), file), r.outcome # "failed", InWhole(would, r)
  PROVE  SameRenamed(r, ByLines(PartsOf(w, file, new.lines[file]), file), name)
<1> DEFINE lines == disk.lines[file]
           n == Len(lines)
<1>1. PICK parts : parts = PartsOf(v, file, lines)
  OBVIOUS
<1>2. PICK images : images = PartsOf(w, file, new.lines[file])
  OBVIOUS
<1>3. PICK s : s = ByLines(images, file)
  OBVIOUS
<1>4. IsSeq(lines) /\ n \in Nat /\ DOMAIN lines = 1 .. n /\ DOMAIN new.lines[file] = 1 .. n
  BY IsSeqHas DEF GoodDisk, IsRenamed
<1>5. /\ DOMAIN parts = 1 .. n /\ DOMAIN images = 1 .. n
      /\ \A k \in 1 .. n : parts[k] = ByLine(v, file, k, lines[k])
      /\ \A k \in 1 .. n : images[k] = ByLine(w, file, k, new.lines[file][k])
      /\ parts = [k \in 1 .. n |-> parts[k]]
  BY <1>1, <1>2, <1>4 DEF PartsOf
<1>6. IsSeq(parts) /\ Len(parts) = n
  <2> HIDE DEF n
  <2> QED
    BY <1>4, <1>5, MadeIsSeq
<1>7. ASSUME NEW k \in 1 .. n PROVE Sequenced(parts[k])
  <2>1. k \in DOMAIN disk.lines[file] /\ parts[k] = ByLine(v, file, k, disk.lines[file][k])
    BY <1>4, <1>5
  <2> HIDE DEF n, lines
  <2>2. LineHolds(disk, active \cup {file}, file, k, parts[k])
    BY <2>1, EachLineHolds
  <2> QED
    BY <2>2 DEF LineHolds
<1>8. Joins(r, file, parts, 1 .. LinesDone(parts))
  <2>1. r = ByLines(parts, file)
    BY <1>1
  <2> HIDE DEF n, lines
  <2> QED
    BY <1>5, <1>6, <1>7, <2>1, LinesJoin
<1>9. 1 .. LinesDone(parts) = DOMAIN parts /\ r.outcome = "loaded" /\ \A k \in DOMAIN parts : parts[k].outcome # "failed"
  BY <1>8 DEF Joins
<1>10. ASSUME NEW k \in 1 .. n PROVE InWhole(would, parts[k])
  <2>1. ToSet(parts[k].declarations) \subseteq ToSet(r.declarations) /\ ToSet(parts[k].references) \subseteq ToSet(r.references)
    BY <1>5, <1>8, <1>9 DEF Joins
  <2> QED
    BY <2>1 DEF InWhole
<1>11. ASSUME NEW k \in 1 .. n PROVE SameRenamed(parts[k], images[k], name)
  <2>1. parts[k].outcome # "failed" /\ parts[k] = ByLine(v, file, k, disk.lines[file][k]) /\ k \in DOMAIN disk.lines[file]
    BY <1>4, <1>5, <1>9
  <2>2. SameRenamed(parts[k], ByLine(w, file, k, new.lines[file][k]), name)
    BY <1>10, <2>1, RenamedLineAgrees
  <2> QED
    BY <1>5, <2>2
<1> HIDE DEF n, lines
<1>12. ASSUME NEW p, DOMAIN p = 1 .. n, \A k \in 1 .. n : p[k].outcome # "failed"
       PROVE  /\ ByLines(p, file).outcome = "loaded"
              /\ ByLines(p, file).declarations = FlattenSeq([k \in 1 .. n |-> p[k].declarations])
              /\ ByLines(p, file).references = FlattenSeq([k \in 1 .. n |-> p[k].references])
  <2> DEFINE failed == {k \in DOMAIN p : p[k].outcome = "failed"}
  <2>1. failed = {}
    BY <1>12
  <2>2. (IF failed = {} THEN DOMAIN p ELSE 1 .. Min(failed)) = 1 .. n
    <3> HIDE DEF failed
    <3> QED
      BY <1>12, <2>1
  <2> QED
    BY <2>1, <2>2 DEF ByLines
<1>13. /\ r.declarations = FlattenSeq([k \in 1 .. n |-> parts[k].declarations])
       /\ r.references = FlattenSeq([k \in 1 .. n |-> parts[k].references])
  BY <1>1, <1>5, <1>9, <1>12 DEF lines
<1>14. /\ s.outcome = "loaded"
       /\ s.declarations = FlattenSeq([k \in 1 .. n |-> images[k].declarations])
       /\ s.references = FlattenSeq([k \in 1 .. n |-> images[k].references])
  <2>1. \A k \in 1 .. n : images[k].outcome # "failed"
    BY <1>5, <1>9, <1>11 DEF SameRenamed
  <2> QED
    BY <1>3, <1>5, <1>12, <2>1
<1>15. s.declarations = RenamedSites(r.declarations, name)
  <2> DEFINE f == [k \in 1 .. n |-> parts[k].declarations]
             g == [k \in 1 .. n |-> images[k].declarations]
  <2>1. \A k \in 1 .. n : IsSeq(f[k]) /\ g[k] = RenamedSites(f[k], name)
    BY <1>7, <1>11 DEF SameRenamed, Sequenced
  <2>2. f = [k \in 1 .. n |-> f[k]] /\ g = [k \in 1 .. n |-> g[k]]
    OBVIOUS
  <2>3. r.declarations = FlattenSeq(f) /\ s.declarations = FlattenSeq(g)
    BY <1>13, <1>14
  <2> HIDE DEF f, g
  <2>4. n \in Nat
    BY <1>4
  <2>5. RenamedSites(FlattenSeq([k \in 1 .. n |-> f[k]]), name) = FlattenSeq([k \in 1 .. n |-> g[k]])
    BY <2>1, <2>4, RenamedOfFlatten, SMTT(30)
  <2> QED
    BY <2>2, <2>3, <2>5
<1>16. s.references = RenamedSites(r.references, name)
  <2> DEFINE f == [k \in 1 .. n |-> parts[k].references]
             g == [k \in 1 .. n |-> images[k].references]
  <2>1. \A k \in 1 .. n : IsSeq(f[k]) /\ g[k] = RenamedSites(f[k], name)
    BY <1>7, <1>11 DEF SameRenamed, Sequenced
  <2>2. f = [k \in 1 .. n |-> f[k]] /\ g = [k \in 1 .. n |-> g[k]]
    OBVIOUS
  <2>3. r.references = FlattenSeq(f) /\ s.references = FlattenSeq(g)
    BY <1>13, <1>14
  <2> HIDE DEF f, g
  <2>4. n \in Nat
    BY <1>4
  <2>5. RenamedSites(FlattenSeq([k \in 1 .. n |-> f[k]]), name) = FlattenSeq([k \in 1 .. n |-> g[k]])
    BY <2>1, <2>4, RenamedOfFlatten, SMTT(30)
  <2> QED
    BY <2>2, <2>3, <2>5
<1>17. SameRenamed(r, s, name)
  BY <1>9, <1>14, <1>15, <1>16 DEF SameRenamed
<1> QED
  BY <1>2, <1>3, <1>17

LEMMA RenamedVisits ==
  ASSUME NEW disk, GoodDisk(disk), NEW new, NEW slots, IsRenamed(disk, new, slots),
         NEW would, NEW name, name # NoName, name # AnOption, SlotsKnown(would, disk, slots, name),
         NEW visits, IsVisits(visits, disk), NEW after, IsVisits(after, new)
  PROVE  \A active \in SUBSET DOMAIN disk.lines : \A path \in DOMAIN disk.canonical :
           RenamedAt(would, visits[active][path], after[active][path], name)
<1> DEFINE D == DOMAIN disk.lines
           T == {A \in SUBSET D : \A path \in DOMAIN disk.canonical :
                   RenamedAt(would, visits[A][path], after[A][path], name)}
<1>1. ASSUME NEW A \in SUBSET D, \A x \in D \ A : A \cup {x} \in T,
             NEW path \in DOMAIN disk.canonical, NEW r, r = visits[A][path],
             r.outcome # "failed", InWhole(would, r)
      PROVE  SameRenamed(r, after[A][path], name)
  <2>1. PICK file : file = disk.canonical[path]
    OBVIOUS
  <2>2. PICK v : v = visits[A \cup {file}]
    OBVIOUS
  <2>3. PICK w : w = after[A \cup {file}]
    OBVIOUS
  <2>4. r = VisitFile(disk, v, A, file)
    BY <1>1, <2>1, <2>2 DEF IsVisits, VisitRow
  <2>5. PICK s : s = after[A][path]
    OBVIOUS
  <2>6. s = VisitFile(new, w, A, file)
    <3>1. new.canonical = disk.canonical /\ DOMAIN new.lines = D
      BY DEF IsRenamed
    <3>2. after[A] = VisitRow(new, after, A)
      BY <3>1 DEF IsVisits
    <3>3. after[A][path] = VisitFile(new, after[A \cup {new.canonical[path]}], A, new.canonical[path])
      BY <3>1, <3>2 DEF VisitRow
    <3> QED
      BY <2>1, <2>3, <2>5, <3>1, <3>3
  <2>7. file \in D \cup {NoFile}
    BY <2>1 DEF GoodDisk, IsDisk
  <2>8. file \in D => /\ (Readable(new.lines[file]) <=> Readable(disk.lines[file]))
                      /\ (Malformed(new.lines[file]) <=> Malformed(disk.lines[file]))
    <3> SUFFICES ASSUME file \in D
                 PROVE  /\ (Readable(new.lines[file]) <=> Readable(disk.lines[file]))
                        /\ (Malformed(new.lines[file]) <=> Malformed(disk.lines[file]))
      OBVIOUS
    <3>1. /\ DOMAIN new.lines[file] = DOMAIN disk.lines[file]
          /\ \A k \in DOMAIN disk.lines[file] :
               LineIsGood(disk.lines[file][k]) /\ new.lines[file][k] = Renamed(disk.lines[file][k], slots[file][k])
      BY DEF IsRenamed
    <3>2. \A k \in DOMAIN disk.lines[file] : new.lines[file][k].says = disk.lines[file][k].says
      BY <3>1, RenamedSays
    <3> QED
      BY <3>1, <3>2 DEF Readable, Malformed
  <2>9. CASE file = NoFile \/ file \in A \/ ~Readable(disk.lines[file]) \/ Malformed(disk.lines[file])
    <3>1. r = s
      BY <2>4, <2>6, <2>7, <2>8, <2>9 DEF VisitFile
    <3>2. r = Added("declined", NoFile) \/ r = Added("failed", NoFile) \/ r = Added("failed", file)
      BY <2>4, <2>9 DEF VisitFile
    <3>3. Bare(r)
      BY <3>2, NothingAdded DEF Bare
    <3> QED
      BY <2>5, <3>1, <3>3, BareIsRenamed
  <2>10. CASE ~(file = NoFile \/ file \in A \/ ~Readable(disk.lines[file]) \/ Malformed(disk.lines[file]))
    <3>1. file \in D /\ r = ByLines(PartsOf(v, file, disk.lines[file]), file)
      BY <2>4, <2>7, <2>10 DEF VisitFile, PartsOf
    <3>2. s = ByLines(PartsOf(w, file, new.lines[file]), file)
      BY <2>6, <2>8, <2>10, <3>1 DEF VisitFile, PartsOf
    <3>3. A \cup {file} \in SUBSET D /\ A \cup {file} \in T
      BY <1>1, <2>10, <3>1
    <3>4. \A p \in DOMAIN disk.canonical : RenamedAt(would, v[p], w[p], name) /\ VisitHolds(disk, A \cup {file}, p, v[p])
      BY <2>2, <2>3, <3>3, VisitsHold
    <3> HIDE DEF D, T
    <3>5. SameRenamed(r, s, name)
      <4>1. file \in DOMAIN disk.lines
        BY <3>1 DEF D
      <4> QED
        BY <1>1, <3>1, <3>2, <3>4, <4>1, RenamedTextAgrees
    <3> QED
      BY <2>5, <3>5
  <2> QED
    BY <2>9, <2>10
<1>2. ASSUME NEW A \in SUBSET D, \A x \in D \ A : A \cup {x} \in T PROVE A \in T
  <2> SUFFICES ASSUME NEW path \in DOMAIN disk.canonical
               PROVE  RenamedAt(would, visits[A][path], after[A][path], name)
    OBVIOUS
  <2>1. PICK r : r = visits[A][path]
    OBVIOUS
  <2> HIDE DEF T
  <2>2. RenamedAt(would, r, after[A][path], name)
    BY <1>1, <1>2, <2>1 DEF RenamedAt
  <2> QED
    BY <2>1, <2>2
<1>3. SUBSET D \subseteq T
  <2>1. IsFiniteSet(D)
    BY DEF GoodDisk, IsDisk
  <2> HIDE DEF D, T
  <2> QED
    BY <1>2, <2>1, DownInduction
<1> QED
  BY <1>3

\* A name that is declared is none of those that stand for something else.
LEMMA DeclaredNames ==
  ASSUME NEW buffers, NEW view, SitesHold(buffers, view), NEW s \in ToSet(view.declarations)
  PROVE  s.name \notin {NoName, AnOption}
<1>1. PICK lines : PlacedAt(buffers, s.at[1], lines) /\ DeclaredIn(s, s.at[1], lines)
  BY DEF SitesHold
<1>2. IsText(lines) /\ IsSeq(lines)
  BY <1>1, TextHas DEF PlacedAt
<1>3. PICK k \in DOMAIN lines : Declares(lines[k]) /\ s.name = lines[k].name
  BY <1>1, <1>2, DeclarationSays
<1>4. LineIsGood(lines[k])
  BY <1>2, LinesAreGood
<1> QED
  BY <1>3, <1>4 DEF LineIsGood, Declares

\* There is one name at a place.
OneName(view, place) == \E name : OccurrenceAt(view, place) = {name}

\* Where a document has a site, it has a site of one name.
LEMMA OneNameAt ==
  ASSUME NEW buffers, OpenHolds(buffers), NEW view, SitesHold(buffers, view), NEW path \in DOMAIN buffers,
         NEW place \in SitesIn(view, path)
  PROVE  OneName(view, place)
<1>1. IsSeq(view.declarations) /\ IsSeq(view.references)
  BY DEF SitesHold
<1>2. PICK s \in ToSet(view.declarations) \cup ToSet(view.references) : s.at = place /\ s.at[1] = path
  BY <1>1, ConcatIsSeq DEF SitesIn
<1>3. IsText(buffers[path]) /\ IsSeq(buffers[path])
  BY OpenIsText, TextHas
<1>4. /\ \A d \in ToSet(view.declarations) : d.at = place => DeclaredIn(d, path, buffers[path])
      /\ \A d \in ToSet(view.references) : d.at = place => ReferredIn(d, path, buffers[path])
  BY <1>2, SitesSay
<1>5. ASSUME NEW d \in ToSet(view.declarations), d.at = place
      PROVE  place[3] = 0 /\ d.name = buffers[path][place[2]].name
  BY <1>3, <1>4, <1>5, DeclarationSays
<1>6. ASSUME NEW d \in ToSet(view.references), d.at = place PROVE place[3] \in Nat \ {0}
  BY <1>3, <1>4, <1>6, ReferenceSays
<1>7. CASE place[3] = 0
  <2>1. s \in ToSet(view.declarations)
    BY <1>2, <1>6, <1>7
  <2>2. \A i \in DOMAIN view.declarations : view.declarations[i] \in ToSet(view.declarations)
    BY DEF ToSet
  <2>3. \A i \in DOMAIN view.references : view.references[i].at # place
    <3>1. \A i \in DOMAIN view.references : view.references[i] \in ToSet(view.references)
      BY DEF ToSet
    <3> QED
      BY <1>6, <1>7, <3>1
  <2>4. PICK i \in DOMAIN view.declarations : view.declarations[i].at = place
    BY <1>2, <2>1 DEF ToSet
  <2>5. \A j \in DOMAIN view.declarations :
           view.declarations[j].at = place => view.declarations[j].name = buffers[path][place[2]].name
    BY <1>5, <2>2
  <2>6. OccurrenceAt(view, place) = {buffers[path][place[2]].name}
    BY <2>3, <2>4, <2>5 DEF OccurrenceAt
  <2> QED
    BY <2>6 DEF OneName
<1>8. CASE place[3] # 0
  <2>1. place[3] > 0
    BY <1>2, <1>5, <1>6, <1>8
  <2>2. OccurrenceAt(view, place) = {Referenced(buffers[path][place[2]], place[3])}
    BY <2>1, AtReference
  <2> QED
    BY <2>2 DEF OneName
<1> QED
  BY <1>7, <1>8

\* What a rename that is not refused writes to.
LEMMA EditsAre ==
  ASSUME NEW buffers, NEW view, SitesHold(buffers, view), NEW place, NEW name,
         OccurrenceAt(view, place) = {name}, Rename(view, place, Fresh) # {}
  PROVE  /\ name \notin {NoName, AnOption}
         /\ Rename(view, place, Fresh) = PlacesOf(view.declarations, name) \cup PlacesOf(view.references, name)
<1>1. Named(view.declarations, name) # {} /\ Prepare(view, place) = {name}
  BY DEF Rename, Prepare
<1>2. PICK i \in DOMAIN view.declarations : view.declarations[i].name = name
  BY <1>1 DEF Named
<1>3. view.declarations[i] \in ToSet(view.declarations)
  BY DEF ToSet
<1>4. name \notin {NoName, AnOption}
  BY <1>2, <1>3, DeclaredNames
<1>5. Rename(view, place, Fresh) = PlacesOf(view.declarations, name) \cup PlacesOf(view.references, name)
  BY <1>1 DEF Rename
<1> QED
  BY <1>4, <1>5

\* The slots of a line that some edits write to, and what is on disk once they are saved.
SlotsOf(edits, at, k) == {e[3] : e \in {d \in edits : d[1] = at /\ d[2] = k}}

LEMMA RenamedFiles ==
  ASSUME WorkspaceHolds(saved, open, snapshot, catalog), snapshot # Unbuilt, NEW edits, NEW f \in DOMAIN saved
  PROVE  LET at == SourceOf(open, snapshot, f)
         IN  /\ Link[at] = f
             /\ DOMAIN AfterRename(edits)[f] = DOMAIN Overlaid(open)[f]
             /\ \A k \in DOMAIN Overlaid(open)[f] :
                  AfterRename(edits)[f][k] = Renamed(Overlaid(open)[f][k], SlotsOf(edits, at, k))
<1> DEFINE known == {p \in DOMAIN open : Identity(snapshot, p) = f /\ Link[p] = f}
           files == [g \in DOMAIN saved |-> Rewritten(g, saved[g], edits)]
           buffers == [p \in DOMAIN open |-> Rewritten(p, open[p], edits)]
           s == Overlaid(open)[f]
           a == AfterRename(edits)[f]
<1>1. /\ s = IF known = {} THEN saved[f] ELSE open[CHOOSE p \in known : TRUE]
      /\ a = IF known = {} THEN files[f] ELSE buffers[CHOOSE p \in known : TRUE]
  BY DEF Overlaid, AfterRename
<1>2. /\ f \in Files /\ f # NoFile /\ Link[f] = f /\ DOMAIN open \subseteq Paths
  BY PathsAssumption, ContentsAssumption DEF WorkspaceHolds, SavedHolds, OpenHolds
<1>3. PICK s0 : SavedHolds(s0) /\ snapshot = Build(Disk(s0))
  BY DEF WorkspaceHolds
<1>4. OpenAt(open, snapshot, f) = known
  <2>1. ASSUME NEW p \in DOMAIN open, Identity(snapshot, p) = f PROVE Link[p] = f
    BY <1>2, <1>3, <2>1, IdentityLeads
  <2> QED
    BY <2>1 DEF OpenAt
<1>5. PICK at : at = SourceOf(open, snapshot, f)
  OBVIOUS
<1>6. PICK lines : lines = s
  OBVIOUS
<1>7. Link[at] = f /\ a = Rewritten(at, lines, edits)
  <2>1. CASE known = {}
    BY <1>1, <1>2, <1>4, <1>5, <1>6, <2>1 DEF SourceOf
  <2>2. CASE known # {}
    <3>1. PICK p \in known : p = CHOOSE q \in known : TRUE
      <4> HIDE DEF known
      <4> QED
        BY <2>2
    <3>2. at = p
      <4> HIDE DEF known
      <4> QED
        BY <1>4, <1>5, <2>2, <3>1 DEF SourceOf
    <3>3. s = open[p] /\ a = buffers[p]
      <4> HIDE DEF known, s, a
      <4> QED
        BY <1>1, <2>2, <3>1
    <3> QED
      BY <1>6, <3>2, <3>3
  <2> QED
    BY <2>1, <2>2
<1> HIDE DEF s, a
<1>8. DOMAIN a = DOMAIN lines /\ \A k \in DOMAIN lines : a[k] = Renamed(lines[k], SlotsOf(edits, at, k))
  BY <1>7 DEF Rewritten, SlotsOf
<1>9. Link[at] = f /\ DOMAIN a = DOMAIN s /\ \A k \in DOMAIN s : a[k] = Renamed(s[k], SlotsOf(edits, at, k))
  BY <1>6, <1>7, <1>8
<1> QED
  BY <1>5, <1>9 DEF a, s

\* A site of a view is at a place of a document, or of a file.
LEMMA ViewSitesAre ==
  ASSUME NEW buffers, NEW view, SitesHold(buffers, view)
  PROVE  /\ \A s \in ToSet(view.declarations) : \E k :
              s = ConfigSite(s.name, s.command, <<s.at[1], k, 0>>, NoName)
         /\ \A s \in ToSet(view.references) : \E k : \E j \in Nat \ {0} :
              s = ConfigSite(s.name, s.command, <<s.at[1], k, j>>, s.owner)
<1>1. ASSUME NEW s \in ToSet(view.declarations)
      PROVE  \E k : s = ConfigSite(s.name, s.command, <<s.at[1], k, 0>>, NoName)
  <2>1. PICK lines : DeclaredIn(s, s.at[1], lines)
    BY DEF SitesHold
  <2>2. PICK k : s = ConfigSite(lines[k].name, lines[k].command, <<s.at[1], k, 0>>, NoName)
    BY <2>1 DEF DeclaredIn
  <2>3. s.name = lines[k].name /\ s.command = lines[k].command
    BY <2>2 DEF ConfigSite
  <2> QED
    BY <2>2, <2>3
<1>2. ASSUME NEW s \in ToSet(view.references)
      PROVE  \E k : \E j \in Nat \ {0} : s = ConfigSite(s.name, s.command, <<s.at[1], k, j>>, s.owner)
  <2>1. PICK lines : PlacedAt(buffers, s.at[1], lines) /\ ReferredIn(s, s.at[1], lines)
    BY DEF SitesHold
  <2>2. PICK k \in DOMAIN lines : \E j \in DOMAIN lines[k].options :
           s = ConfigSite(Referenced(lines[k], j), lines[k].command, <<s.at[1], k, j>>, lines[k].name)
    BY <2>1 DEF ReferredIn
  <2>3. PICK j \in DOMAIN lines[k].options :
           s = ConfigSite(Referenced(lines[k], j), lines[k].command, <<s.at[1], k, j>>, lines[k].name)
    BY <2>2
  <2>4. s.name = Referenced(lines[k], j) /\ s.command = lines[k].command /\ s.owner = lines[k].name
    BY <2>3 DEF ConfigSite
  <2>5. j \in Nat \ {0}
    <3>1. IsSeq(lines[k].options)
      BY <2>1, TextHas DEF PlacedAt
    <3> QED
      BY <3>1, IsSeqHas
  <2> QED
    BY <2>3, <2>4, <2>5
<1> QED
  BY <1>1, <1>2

\* A site of the files is one of the view, where their texts are, and the other way round.
LEMMA SitesMeet ==
  ASSUME NEW sites, NEW whole, OnFiles(sites) = whole
  PROVE  /\ \A t \in ToSet(whole) : \E s \in ToSet(sites) : t = OnFile(s)
         /\ \A s \in ToSet(sites) : OnFile(s) \in ToSet(whole)
<1>1. DOMAIN whole = DOMAIN sites /\ \A i \in DOMAIN sites : whole[i] = OnFile(sites[i])
  BY OnFilesAre
<1> QED
  BY <1>1 DEF ToSet

LEMMA SlotsAreKnown ==
  ASSUME WorkspaceHolds(saved, open, snapshot, catalog),
         NEW disk, GoodDisk(disk), \A f \in DOMAIN disk.lines : IsText(disk.lines[f]),
         NEW would, SitesOn(disk, would),
         NEW view, SitesHold(open, view),
         OnFiles(view.declarations) = would.declarations, OnFiles(view.references) = would.references,
         \A s \in ToSet(view.declarations) : At(s, TextPlaces), \A s \in ToSet(view.references) : At(s, TextPlaces),
         NEW name, name # NoName,
         NEW edits, edits = PlacesOf(view.declarations, name) \cup PlacesOf(view.references, name),
         NEW f \in DOMAIN disk.lines, NEW at, at = SourceOf(open, snapshot, f), Link[at] = f,
         NEW k \in DOMAIN disk.lines[f], NEW line, line = disk.lines[f][k], line.says = "entry",
         ToSet(DeclarationsOf(f, k, line)) \subseteq ToSet(would.declarations),
         ToSet(ReferencesOf(f, k, line)) \subseteq ToSet(would.references)
  PROVE  SlotsFit(line, SlotsOf(edits, at, k), name)
<1>1. IsText(disk.lines[f]) /\ IsSeq(disk.lines[f]) /\ IsSeq(line.options)
  BY TextHas
<1>2. \A e : e \in edits <=> \/ \E s \in ToSet(view.declarations) : s.name = name /\ s.at = e
                             \/ \E s \in ToSet(view.references) : s.name = name /\ s.at = e
  BY PlacesAre
<1>3. \A j : j \in SlotsOf(edits, at, k) <=> \E e \in edits : e[1] = at /\ e[2] = k /\ e[3] = j
  BY DEF SlotsOf
<1>4. ASSUME NEW e \in edits, e[1] = at, e[2] = k, e[3] = 0
      PROVE  Declares(line) /\ line.name = name
  <2>1. \A s \in ToSet(view.references) : s.at[3] \in Nat \ {0}
    BY ViewSitesAre DEF ConfigSite
  <2>2. PICK s \in ToSet(view.declarations) : s.name = name /\ s.at = e
    BY <1>2, <1>4, <2>1
  <2>3. s = ConfigSite(name, s.command, <<at, k, 0>>, NoName)
    <3>1. PICK h : s = ConfigSite(s.name, s.command, <<s.at[1], h, 0>>, NoName)
      BY ViewSitesAre
    <3>2. s.at[2] = h
      BY <3>1 DEF ConfigSite
    <3> QED
      BY <1>4, <2>2, <3>1, <3>2
  <2>4. PICK t \in ToSet(would.declarations) : t = ConfigSite(name, s.command, <<f, k, 0>>, NoName)
    <3>1. OnFile(s) \in ToSet(would.declarations)
      BY SitesMeet
    <3> QED
      BY <2>3, <3>1, OnFileOf
  <2>5. t.name = name /\ t.at[1] = f /\ t.at[2] = k
    BY <2>4 DEF ConfigSite
  <2>6. DeclaredIn(t, f, disk.lines[f])
    BY <2>5 DEF SitesOn
  <2> QED
    BY <1>1, <2>5, <2>6, DeclarationSays
<1>5. ASSUME Declares(line), line.name = name PROVE 0 \in SlotsOf(edits, at, k)
  <2>1. PICK t : t = ConfigSite(name, line.command, <<f, k, 0>>, NoName)
    OBVIOUS
  <2>2. t \in ToSet(would.declarations)
    BY <1>5, <2>1, ShortIsSeq DEF DeclarationsOf
  <2>3. PICK s \in ToSet(view.declarations) : t = OnFile(s)
    BY <2>2, SitesMeet
  <2>4. PICK h : s = ConfigSite(s.name, s.command, <<s.at[1], h, 0>>, NoName)
    BY ViewSitesAre
  <2>5. t = ConfigSite(s.name, s.command, <<Link[s.at[1]], h, 0>>, NoName)
    BY <2>3, <2>4, OnFileOf
  <2>6. s.name = name /\ Link[s.at[1]] = f /\ h = k
    BY <2>1, <2>5 DEF ConfigSite
  <2>7. s.at[1] = at /\ s.at[2] = k /\ s.at[3] = 0
    <3>1. s.at[1] \in TextPlaces
      BY DEF At
    <3>2. s.at[2] = h /\ s.at[3] = 0
      BY <2>4 DEF ConfigSite
    <3> QED
      BY <2>6, <3>1, <3>2 DEF TextPlaces
  <2> QED
    BY <1>2, <1>3, <2>6, <2>7
<1>6. ASSUME NEW j \in DOMAIN line.options, NEW e \in edits, e[1] = at, e[2] = k, e[3] = j
      PROVE  AcceptsConfig(line.command) /\ Referenced(line, j) = name
  <2>1. \A s \in ToSet(view.declarations) : s.at[3] = 0
    BY ViewSitesAre DEF ConfigSite
  <2>2. j # 0
    BY <1>1, IsSeqHas
  <2>3. PICK s \in ToSet(view.references) : s.name = name /\ s.at = e
    BY <1>2, <1>6, <2>1, <2>2
  <2>4. s = ConfigSite(name, s.command, <<at, k, j>>, s.owner)
    <3>1. PICK h : \E i \in Nat \ {0} : s = ConfigSite(s.name, s.command, <<s.at[1], h, i>>, s.owner)
      BY ViewSitesAre
    <3>2. PICK i \in Nat \ {0} : s = ConfigSite(s.name, s.command, <<s.at[1], h, i>>, s.owner)
      BY <3>1
    <3>3. s.at[2] = h /\ s.at[3] = i
      BY <3>2 DEF ConfigSite
    <3> QED
      BY <1>6, <2>3, <3>2, <3>3
  <2>5. PICK t \in ToSet(would.references) : t = ConfigSite(name, s.command, <<f, k, j>>, s.owner)
    <3>1. OnFile(s) \in ToSet(would.references)
      BY SitesMeet
    <3> QED
      BY <2>4, <3>1, OnFileOf
  <2>6. t.name = name /\ t.at[1] = f /\ t.at[2] = k /\ t.at[3] = j
    BY <2>5 DEF ConfigSite
  <2>7. ReferredIn(t, f, disk.lines[f])
    BY <2>6 DEF SitesOn
  <2> QED
    BY <1>1, <2>6, <2>7, ReferenceSays
<1>7. ASSUME NEW j \in DOMAIN line.options, AcceptsConfig(line.command), Referenced(line, j) = name
      PROVE  j \in SlotsOf(edits, at, k)
  <2>1. PICK t : t = ConfigSite(name, line.command, <<f, k, j>>, line.name)
    OBVIOUS
  <2>2. t \in ToSet(would.references)
    <3>1. t \in ToSet(ReferencesOf(f, k, line))
      BY <1>1, <1>7, <2>1, ReferencesAre
    <3> QED
      BY <3>1
  <2>3. PICK s \in ToSet(view.references) : t = OnFile(s)
    BY <2>2, SitesMeet
  <2>4. PICK h : \E i \in Nat \ {0} : s = ConfigSite(s.name, s.command, <<s.at[1], h, i>>, s.owner)
    BY ViewSitesAre
  <2>5. PICK i \in Nat \ {0} : s = ConfigSite(s.name, s.command, <<s.at[1], h, i>>, s.owner)
    BY <2>4
  <2>6. t = ConfigSite(s.name, s.command, <<Link[s.at[1]], h, i>>, s.owner)
    BY <2>3, <2>5, OnFileOf
  <2>7. s.name = name /\ Link[s.at[1]] = f /\ h = k /\ i = j
    BY <2>1, <2>6 DEF ConfigSite
  <2>8. s.at[1] = at /\ s.at[2] = k /\ s.at[3] = j
    <3>1. s.at[1] \in TextPlaces
      BY DEF At
    <3>2. s.at[2] = h /\ s.at[3] = i
      BY <2>5 DEF ConfigSite
    <3> QED
      BY <2>7, <3>1, <3>2 DEF TextPlaces
  <2> QED
    BY <1>2, <1>3, <2>7, <2>8
<1>8. 0 \in SlotsOf(edits, at, k) <=> Declares(line) /\ line.name = name
  BY <1>3, <1>4, <1>5
<1>9. \A j \in DOMAIN line.options :
        j \in SlotsOf(edits, at, k) <=> AcceptsConfig(line.command) /\ Referenced(line, j) = name
  BY <1>3, <1>6, <1>7
<1> QED
  BY <1>8, <1>9 DEF SlotsFit

\* What a build publishes of a root that was loaded.
LEMMA LoadedIsPublished ==
  ASSUME NEW disk, Visits(disk)[Root].outcome = "loaded"
  PROVE  /\ Build(disk).declarations = Visits(disk)[Root].declarations
         /\ Build(disk).references = Visits(disk)[Root].references
BY DEF Build, Published

\* A workspace with a new name written where a view has the old one.
LEMMA TheRenameKeeps ==
  ASSUME WorkspaceHolds(saved, open, snapshot, catalog), Knows(Build(Disk(Overlaid(open)))),
         NEW name, name \notin {NoName, AnOption},
         NEW edits, edits = PlacesOf(WorkspaceView(open, snapshot).declarations, name)
                              \cup PlacesOf(WorkspaceView(open, snapshot).references, name)
  PROVE  LET would == Build(Disk(Overlaid(open)))
             is    == Build(Disk(AfterRename(edits)))
         IN  /\ is.declarations = RenamedSites(would.declarations, name)
             /\ is.references = RenamedSites(would.references, name)
<1> DEFINE disk == Disk(Overlaid(open))
           new == Disk(AfterRename(edits))
           would == Build(disk)
           view == WorkspaceView(open, snapshot)
           root == Visits(disk)[Root]
           slots == [f \in DOMAIN saved |->
                       [k \in DOMAIN disk.lines[f] |-> SlotsOf(edits, SourceOf(open, snapshot, f), k)]]
<1>1. /\ SavedHolds(Overlaid(open)) /\ GoodDisk(disk) /\ Root \in DOMAIN disk.canonical
      /\ DOMAIN disk.canonical = Paths /\ disk.lines = Overlaid(open) /\ DOMAIN disk.lines = DOMAIN saved
      /\ \A p \in Paths : disk.canonical[p] = IF Link[p] \in DOMAIN disk.lines THEN Link[p] ELSE NoFile
  BY OverlaidHolds, DiskIsGood, PathsAssumption
<1>2. DOMAIN AfterRename(edits) = DOMAIN saved
  BY DEF AfterRename
<1>3. new.canonical = disk.canonical /\ new.lines = AfterRename(edits) /\ DOMAIN new.lines = DOMAIN disk.lines
  <2>1. DOMAIN AfterRename(edits) = DOMAIN Overlaid(open)
    BY <1>1, <1>2
  <2> QED
    BY <2>1 DEF Disk
<1>4. snapshot # Unbuilt
  BY DEF Knows, Unbuilt
<1>5. ASSUME NEW f \in DOMAIN saved
      PROVE  /\ Link[SourceOf(open, snapshot, f)] = f
             /\ DOMAIN new.lines[f] = DOMAIN disk.lines[f]
             /\ \A k \in DOMAIN disk.lines[f] :
                  new.lines[f][k] = Renamed(disk.lines[f][k], SlotsOf(edits, SourceOf(open, snapshot, f), k))
  <2>1. PICK at : at = SourceOf(open, snapshot, f)
    OBVIOUS
  <2>2. /\ Link[at] = f
        /\ DOMAIN AfterRename(edits)[f] = DOMAIN Overlaid(open)[f]
        /\ \A k \in DOMAIN Overlaid(open)[f] :
             AfterRename(edits)[f][k] = Renamed(Overlaid(open)[f][k], SlotsOf(edits, at, k))
    BY <1>4, <2>1, RenamedFiles
  <2>3. new.lines[f] = AfterRename(edits)[f] /\ disk.lines[f] = Overlaid(open)[f]
    BY <1>1, <1>3
  <2> HIDE DEF new, disk
  <2> QED
    BY <2>1, <2>2, <2>3
<1>6. \A f \in DOMAIN disk.lines : IsText(disk.lines[f])
  BY <1>1 DEF SavedHolds, IsText
<1>7. IsRenamed(disk, new, slots)
  <2>1. IsDisk(new)
    <3> HIDE DEF new, disk
    <3> QED
      BY <1>1, <1>3 DEF GoodDisk, IsDisk
  <2>2. ASSUME NEW f \in DOMAIN disk.lines
        PROVE  /\ DOMAIN new.lines[f] = DOMAIN disk.lines[f]
               /\ \A k \in DOMAIN disk.lines[f] :
                    LineIsGood(disk.lines[f][k]) /\ new.lines[f][k] = Renamed(disk.lines[f][k], slots[f][k])
    <3>1. \A k \in DOMAIN disk.lines[f] : slots[f][k] = SlotsOf(edits, SourceOf(open, snapshot, f), k)
      BY <1>1
    <3>2. /\ DOMAIN new.lines[f] = DOMAIN disk.lines[f]
          /\ \A k \in DOMAIN disk.lines[f] :
               new.lines[f][k] = Renamed(disk.lines[f][k], SlotsOf(edits, SourceOf(open, snapshot, f), k))
      BY <1>1, <1>5
    <3> HIDE DEF new, disk, slots
    <3>3. \A k \in DOMAIN disk.lines[f] : LineIsGood(disk.lines[f][k])
      BY <1>6, LinesAreGood
    <3> QED
      BY <3>1, <3>2, <3>3
  <2> HIDE DEF new, disk, slots
  <2> QED
    BY <1>3, <2>1, <2>2 DEF IsRenamed
<1>8. /\ OnFiles(view.declarations) = would.declarations /\ OnFiles(view.references) = would.references
      /\ \A s \in ToSet(view.declarations) : At(s, TextPlaces)
      /\ \A s \in ToSet(view.references) : At(s, TextPlaces)
  BY TheViewFollows
<1>9. SitesHold(open, view)
  <2>1. GraphFine(snapshot)
    BY GraphsAreFine DEF WorkspaceHolds
  <2> QED
    BY <2>1, WorkspaceViewIsPlaced DEF WorkspaceHolds
<1>10. SitesOn(disk, would)
  <2> HIDE DEF disk
  <2> QED
    BY <1>1, BuildOn
<1>11. SlotsKnown(would, disk, slots, name)
  <2> SUFFICES ASSUME NEW f \in DOMAIN disk.lines, NEW k \in DOMAIN disk.lines[f],
                      NEW line, line = disk.lines[f][k], line.says = "entry",
                      ToSet(DeclarationsOf(f, k, line)) \subseteq ToSet(would.declarations),
                      ToSet(ReferencesOf(f, k, line)) \subseteq ToSet(would.references)
               PROVE  SlotsFit(line, slots[f][k], name)
    BY DEF SlotsKnown
  <2>1. PICK at : at = SourceOf(open, snapshot, f)
    OBVIOUS
  <2>2. slots[f][k] = SlotsOf(edits, at, k) /\ Link[at] = f
    BY <1>1, <1>5, <2>1
  <2>3. edits = PlacesOf(view.declarations, name) \cup PlacesOf(view.references, name)
    OBVIOUS
  <2> HIDE DEF disk, slots, would, view
  <2>4. SlotsFit(line, SlotsOf(edits, at, k), name)
    BY <1>1, <1>6, <1>8, <1>9, <1>10, <2>1, <2>2, <2>3, SlotsAreKnown
  <2> QED
    BY <2>2, <2>4
<1>12. PICK visits : IsVisits(visits, disk) /\ Visits(disk) = visits[{}]
  BY <1>1, VisitsUnfold DEF GoodDisk
<1>13. PICK after : IsVisits(after, new) /\ Visits(new) = after[{}]
  BY <1>7, VisitsUnfold DEF IsRenamed
<1>14. root.outcome = "loaded"
  <2>1. VisitHolds(disk, {}, Root, root) /\ GraphHolds(would, disk, root) /\ would.rootFile # NoFile
    <3>1. would.rootFile # NoFile
      BY DEF Knows
    <3>2. VisitHolds(disk, {}, Root, root) /\ GraphHolds(would, disk, root)
      <4> HIDE DEF disk
      <4> QED
        BY <1>1, BuildHolds
    <3> QED
      BY <3>1, <3>2
  <2> HIDE DEF disk, root, would
  <2> QED
    BY <2>1 DEF GraphHolds
<1>15. would.declarations = root.declarations /\ would.references = root.references
  <2> HIDE DEF disk
  <2> QED
    BY <1>14, LoadedIsPublished
<1> HIDE DEF disk, new, would, view, slots
<1>16. \A path \in DOMAIN disk.canonical : RenamedAt(would, visits[{}][path], after[{}][path], name)
  <2>1. {} \in SUBSET DOMAIN disk.lines
    OBVIOUS
  <2> QED
    BY <1>1, <1>7, <1>11, <1>12, <1>13, <2>1, RenamedVisits
<1>17. SameRenamed(root, Visits(new)[Root], name)
  <2>1. InWhole(would, root)
    BY <1>15 DEF InWhole
  <2>2. RenamedAt(would, root, Visits(new)[Root], name)
    BY <1>1, <1>12, <1>13, <1>16
  <2> QED
    BY <1>14, <2>1, <2>2 DEF RenamedAt
<1>18. /\ Build(new).declarations = RenamedSites(would.declarations, name)
       /\ Build(new).references = RenamedSites(would.references, name)
  <2>1. Visits(new)[Root].outcome = "loaded"
    BY <1>14, <1>17 DEF SameRenamed
  <2> QED
    BY <1>15, <1>17, <2>1, LoadedIsPublished DEF SameRenamed
<1> QED
  BY <1>18 DEF would, new, disk

\* Sites with a new name for some names.
WithNew(sites, names) ==
  [i \in DOMAIN sites |-> [sites[i] EXCEPT !.name = IF @ \in names THEN Fresh ELSE @,
                                           !.owner = IF @ \in names THEN Fresh ELSE @]]

LEMMA TheExpansionsAreKept ==
  ASSUME WorkspaceHolds(saved, open, snapshot, catalog)
  PROVE  RenameKeepsExpansions
<1> SUFFICES ASSUME Knows(Build(Disk(Overlaid(open)))),
                    NEW p \in DOMAIN open, Includes(snapshot, p),
                    NEW place \in SitesIn(View(open, snapshot, p), p),
                    Rename(View(open, snapshot, p), place, Fresh) # {}
             PROVE  LET would == Build(Disk(Overlaid(open)))
                        view  == View(open, snapshot, p)
                        is    == Build(Disk(AfterRename(Rename(view, place, Fresh))))
                    IN  /\ is.declarations = WithNew(would.declarations, OccurrenceAt(view, place))
                        /\ is.references = WithNew(would.references, OccurrenceAt(view, place))
  BY DEF RenameKeepsExpansions, WithNew
<1>1. PICK view : view = View(open, snapshot, p) /\ view = WorkspaceView(open, snapshot)
  BY DEF View
<1>2. SitesHold(open, view) /\ OpenHolds(open)
  <2>1. GraphFine(snapshot)
    BY GraphsAreFine DEF WorkspaceHolds
  <2> QED
    BY <1>1, <2>1, WorkspaceViewIsPlaced DEF WorkspaceHolds
<1>3. PICK name : OccurrenceAt(view, place) = {name}
  <2>1. place \in SitesIn(view, p)
    BY <1>1
  <2>2. OneName(view, place)
    BY <1>2, <2>1, OneNameAt
  <2> QED
    BY <2>2 DEF OneName
<1>4. PICK edits : edits = Rename(view, place, Fresh)
  OBVIOUS
<1>5. /\ name \notin {NoName, AnOption}
      /\ edits = PlacesOf(view.declarations, name) \cup PlacesOf(view.references, name)
  BY <1>1, <1>2, <1>3, <1>4, EditsAre
<1>6. PICK would : would = Build(Disk(Overlaid(open)))
  OBVIOUS
<1>7. PICK is : is = Build(Disk(AfterRename(edits)))
  OBVIOUS
<1>8. /\ is.declarations = RenamedSites(would.declarations, name)
      /\ is.references = RenamedSites(would.references, name)
  BY <1>1, <1>5, <1>6, <1>7, TheRenameKeeps
<1>9. \A sites : RenamedSites(sites, name) = WithNew(sites, {name})
  BY DEF RenamedSites, RenamedSite, WithNew
<1>10. /\ is.declarations = WithNew(would.declarations, OccurrenceAt(view, place))
       /\ is.references = WithNew(would.references, OccurrenceAt(view, place))
  BY <1>3, <1>8, <1>9
<1> QED
  BY <1>1, <1>4, <1>6, <1>7, <1>10

\* A rename changes a name in what Bazel reads and nothing else: the files that
\* its edits leave, built again, declare and refer to what they did, in the order
\* they did, with the new name for the old one (rename.rs; bazelrc/syntax.rs,
\* config_references, which a renamed word or value must still be one for).
THEOREM RenameAlwaysKeepsExpansions == Spec => []RenameKeepsExpansions
<1>1. WorkspaceHolds(saved, open, snapshot, catalog) => RenameKeepsExpansions
  BY TheExpansionsAreKept
<1> QED
  BY <1>1, WorkspaceStaysGood, PTL

-----------------------------------------------------------------------------
(***************************************************************************)
(* Expansion.                                                              *)
(*                                                                         *)
(* A search of a graph of references never enters a configuration that it  *)
(* is in: what it finds is proved from the sets that hold all but a few of *)
(* the names down to the empty one.  Cycles are what reaches itself,       *)
(* repetitions what two chains end at, and a chain is deep when a walk from*)
(* its root runs into no cycle and has that many links.                    *)
(***************************************************************************)

\* What a graph of references is: a sequence of sites, and some of its indices.
IsGraph(graph) ==
  /\ Len(graph.sites) \in Nat /\ DOMAIN graph.sites = 1 .. Len(graph.sites)
  /\ graph.edges \subseteq DOMAIN graph.sites

LEMMA MetIsFinite ==
  ASSUME NEW graph, IsGraph(graph)
  PROVE  /\ IsFiniteSet(Met(graph))
         /\ \A i \in graph.edges : graph.sites[i].name \in Met(graph)
<1>1. IsFiniteSet(DOMAIN graph.sites)
  BY FS_Interval DEF IsGraph
<1> DEFINE name == [i \in DOMAIN graph.sites |-> graph.sites[i].name]
<1>2. IsFiniteSet(Met(graph))
  <2>1. name \in Surjection(DOMAIN graph.sites, Met(graph))
    BY DEF Surjection, Met
  <2> QED
    BY <1>1, <2>1, FS_Surjection
<1> QED
  BY <1>2 DEF Met, IsGraph

\* One reference followed, or passed by.
Followed(graph, edges, step, i, s) ==
  IF i \in edges /\ Leads(graph, i) THEN step[i][s] ELSE s

\* The states come to, one after the other.
Traces(h, graph, edges, step, start) ==
  /\ h[0] = start
  /\ \A i \in 1 .. Len(graph.sites) : h[i] = Followed(graph, edges, step, i, h[i - 1])
  /\ InTurn(graph, edges, step, start) = h[Len(graph.sites)]

LEMMA InTurnUnfolds ==
  ASSUME NEW graph, IsGraph(graph), NEW edges, NEW step, NEW start
  PROVE  \E h : Traces(h, graph, edges, step, start)
<1> DEFINE n == Len(graph.sites)
           Body(f) == [i \in 0 .. n |->
                         IF i = 0 THEN start
                         ELSE IF i \in edges /\ Leads(graph, i) THEN step[i][f[i - 1]] ELSE f[i - 1]]
           Fits(f, m) == \A i \in 0 .. n : i <= m =>
                           f[i] = IF i = 0 THEN start
                                  ELSE IF i \in edges /\ Leads(graph, i) THEN step[i][f[i - 1]] ELSE f[i - 1]
           T == {m \in Nat : \E f : Fits(f, m)}
<1>1. n \in Nat
  BY DEF IsGraph
<1>2. 0 \in T
  <2>1. Fits([i \in 0 .. n |-> start], 0)
    BY <1>1
  <2> HIDE DEF Fits
  <2> QED
    BY <2>1
<1>3. ASSUME NEW m \in Nat, m \in T PROVE m + 1 \in T
  <2>1. PICK f : Fits(f, m)
    BY <1>3
  <2>2. Fits(Body(f), m + 1)
    <3> SUFFICES ASSUME NEW i \in 0 .. n, i <= m + 1
                 PROVE  Body(f)[i] = IF i = 0 THEN start
                                     ELSE IF i \in edges /\ Leads(graph, i) THEN step[i][Body(f)[i - 1]]
                                     ELSE Body(f)[i - 1]
      OBVIOUS
    <3>1. CASE i = 0
      BY <3>1
    <3>2. CASE i # 0
      <4>1. i - 1 \in 0 .. n /\ i - 1 <= m
        BY <3>2
      <4>2. f[i - 1] = Body(f)[i - 1]
        BY <2>1, <4>1
      <4>3. Body(f)[i] = IF i \in edges /\ Leads(graph, i) THEN step[i][f[i - 1]] ELSE f[i - 1]
        BY <3>2
      <4> HIDE DEF Body
      <4> QED
        BY <3>2, <4>2, <4>3
    <3> QED
      BY <3>1, <3>2
  <2> HIDE DEF Fits, Body
  <2> QED
    BY <2>2
<1>4. n \in T
  <2> HIDE DEF T
  <2> QED
    BY <1>1, <1>2, <1>3, SetInduction
<1>5. PICK f : Fits(f, n)
  BY <1>4
<1>6. Body(f) = Body(Body(f))
  <2>1. \A i \in 0 .. n : Body(f)[i] = f[i]
    BY <1>5, <1>1
  <2>2. ASSUME NEW i \in 0 .. n
        PROVE  (IF i = 0 THEN start
                ELSE IF i \in edges /\ Leads(graph, i) THEN step[i][f[i - 1]] ELSE f[i - 1])
             = (IF i = 0 THEN start
                ELSE IF i \in edges /\ Leads(graph, i) THEN step[i][Body(f)[i - 1]] ELSE Body(f)[i - 1])
    <3>1. CASE i = 0
      BY <3>1
    <3>2. CASE i # 0
      <4>1. i - 1 \in 0 .. n
        BY <1>1, <3>2
      <4>2. Body(f)[i - 1] = f[i - 1]
        BY <2>1, <4>1
      <4> HIDE DEF Body
      <4> QED
        BY <3>2, <4>2
    <3> QED
      BY <3>1, <3>2
  <2> QED
    BY <2>2, Zenon
<1> DEFINE g == CHOOSE h : h = Body(h)
<1>7. g = Body(g)
  <2> HIDE DEF Body
  <2> QED
    BY <1>6
<1>8. \A i \in 0 .. n : g[i] = IF i = 0 THEN start
                               ELSE IF i \in edges /\ Leads(graph, i) THEN step[i][g[i - 1]] ELSE g[i - 1]
  <2> HIDE DEF g
  <2> QED
    BY <1>7
<1>9. InTurn(graph, edges, step, start) = g[n]
  BY DEF InTurn
<1> HIDE DEF g
<1>10. g[0] = start /\ \A i \in 1 .. n : g[i] = Followed(graph, edges, step, i, g[i - 1])
  <2>1. g[0] = start
    BY <1>1, <1>8
  <2>2. ASSUME NEW i \in 1 .. n PROVE g[i] = Followed(graph, edges, step, i, g[i - 1])
    <3>1. i \in 0 .. n /\ i # 0
      BY <1>1
    <3> QED
      BY <3>1, <1>8 DEF Followed
  <2> QED
    BY <2>1, <2>2
<1> QED
  BY <1>9, <1>10 DEF Traces

\* What each reference takes from one set of states to the next, the last state is in.
LEMMA InTurnKeeps ==
  ASSUME NEW graph, IsGraph(graph), NEW edges, NEW step, NEW start, NEW P,
         start \in P[0],
         \A i \in 1 .. Len(graph.sites) : \A s \in P[i - 1] :
            Followed(graph, edges, step, i, s) \in P[i]
  PROVE  InTurn(graph, edges, step, start) \in P[Len(graph.sites)]
<1> DEFINE n == Len(graph.sites)
<1>1. PICK h : Traces(h, graph, edges, step, start)
  BY InTurnUnfolds
<1> DEFINE T == {m \in Nat : m \in 0 .. n => h[m] \in P[m]}
<1>2. 0 \in T
  BY <1>1 DEF Traces
<1>3. ASSUME NEW m \in Nat, m \in T PROVE m + 1 \in T
  <2> SUFFICES ASSUME m + 1 \in 0 .. n PROVE h[m + 1] \in P[m + 1]
    OBVIOUS
  <2>1. m + 1 \in 1 .. n /\ m \in 0 .. n /\ (m + 1) - 1 = m
    BY DEF IsGraph
  <2> QED
    BY <1>1, <1>3, <2>1 DEF Traces
<1>4. n \in T
  <2> HIDE DEF T
  <2> QED
    BY <1>2, <1>3, SetInduction DEF IsGraph
<1> QED
  BY <1>1, <1>4 DEF IsGraph, Traces

\* References that are followed alike from the states they come to.
LEMMA InTurnAgrees ==
  ASSUME NEW graph, IsGraph(graph), NEW edges, NEW step, NEW other, NEW start, NEW P,
         start \in P,
         \A i \in 1 .. Len(graph.sites) : \A s \in P :
            /\ Followed(graph, edges, step, i, s) \in P
            /\ Followed(graph, edges, step, i, s) = Followed(graph, edges, other, i, s)
  PROVE  InTurn(graph, edges, step, start) = InTurn(graph, edges, other, start)
<1>1. PICK h : Traces(h, graph, edges, step, start)
  BY InTurnUnfolds
<1>2. PICK k : Traces(k, graph, edges, other, start)
  BY InTurnUnfolds
<1> DEFINE n == Len(graph.sites)
           T == {m \in Nat : m \in 0 .. n => h[m] \in P /\ h[m] = k[m]}
<1>3. 0 \in T
  BY <1>1, <1>2 DEF Traces
<1>4. ASSUME NEW m \in Nat, m \in T PROVE m + 1 \in T
  <2> SUFFICES ASSUME m + 1 \in 0 .. n PROVE h[m + 1] \in P /\ h[m + 1] = k[m + 1]
    OBVIOUS
  <2>1. m + 1 \in 1 .. n /\ m \in 0 .. n /\ (m + 1) - 1 = m
    BY DEF IsGraph
  <2> QED
    BY <1>1, <1>2, <1>4, <2>1 DEF Traces
<1>5. n \in T
  <2> HIDE DEF T
  <2> QED
    BY <1>3, <1>4, SetInduction DEF IsGraph
<1> QED
  BY <1>1, <1>2, <1>5 DEF IsGraph, Traces

Closed(graph, S) ==
  \A i \in graph.edges : graph.sites[i].owner \in S /\ Leads(graph, i) => graph.sites[i].name \in S

LEMMA ReachedIsLeast ==
  ASSUME NEW graph, IsGraph(graph), NEW start \in Met(graph)
  PROVE  /\ Reached(graph, start) \subseteq Met(graph) /\ start \in Reached(graph, start)
         /\ Closed(graph, Reached(graph, start))
         /\ \A S \in SUBSET Met(graph) : start \in S /\ Closed(graph, S) => Reached(graph, start) \subseteq S
<1>1. Reached(graph, start) = {n \in Met(graph) : \A S \in SUBSET Met(graph) :
                                  start \in S /\ Closed(graph, S) => n \in S}
  BY DEF Reached, Closed
<1>2. Closed(graph, Reached(graph, start))
  BY <1>1, MetIsFinite DEF Closed
<1> QED
  BY <1>1, <1>2

LEMMA ReachedOnward ==
  ASSUME NEW graph, IsGraph(graph), NEW start \in Met(graph), NEW m \in Reached(graph, start)
  PROVE  Reached(graph, m) \subseteq Reached(graph, start)
<1>1. m \in Met(graph)
  BY ReachedIsLeast
<1> QED
  BY <1>1, ReachedIsLeast

\* Induction over the subsets of a finite set, from those that have more.
LEMMA FewerInMore ==
  ASSUME NEW D, IsFiniteSet(D), NEW A \in SUBSET D, NEW B \in SUBSET D, A \subseteq B, A # B
  PROVE  /\ Cardinality(D \ A) \in Nat /\ Cardinality(D \ B) \in Nat
         /\ Cardinality(D \ B) < Cardinality(D \ A)
<1>1. D \ B \in SUBSET (D \ A) /\ D \ B # D \ A
  OBVIOUS
<1>2. IsFiniteSet(D \ A) /\ IsFiniteSet(D \ B)
  BY FS_Subset
<1>3. Cardinality(D \ A) \in Nat /\ Cardinality(D \ B) \in Nat
  BY <1>2, FS_CardinalityType
<1>4. Cardinality(D \ B) <= Cardinality(D \ A) /\ Cardinality(D \ B) # Cardinality(D \ A)
  BY <1>1, <1>2, FS_Subset
<1> QED
  BY <1>3, <1>4

LEMMA InductionFromMore ==
  ASSUME NEW D, IsFiniteSet(D), NEW T,
         \A A \in SUBSET D : (\A B \in SUBSET D : A \subseteq B /\ A # B => B \in T) => A \in T
  PROVE  SUBSET D \subseteq T
<1> DEFINE U == {n \in Nat : \A A \in SUBSET D : Cardinality(D \ A) < n => A \in T}
<1>1. \A A \in SUBSET D : Cardinality(D \ A) \in Nat
  BY FS_Subset, FS_CardinalityType
<1>a. \A c \in Nat : ~(c < 0) /\ c + 1 \in Nat /\ c < c + 1
  OBVIOUS
<1>2. 0 \in U
  BY <1>a, <1>1
<1>3. ASSUME NEW n \in Nat, n \in U PROVE n + 1 \in U
  <2> SUFFICES ASSUME NEW A \in SUBSET D, Cardinality(D \ A) < n + 1 PROVE A \in T
    OBVIOUS
  <2>1. ASSUME NEW B \in SUBSET D, A \subseteq B, A # B PROVE B \in T
    <3>1. /\ Cardinality(D \ A) \in Nat /\ Cardinality(D \ B) \in Nat
          /\ Cardinality(D \ B) < Cardinality(D \ A)
      BY <2>1, FewerInMore
    <3>2. Cardinality(D \ B) < n
      BY <3>1
    <3> QED
      BY <1>3, <3>2
  <2> QED
    BY <2>1
<1>4. Nat \subseteq U
  <2> HIDE DEF U
  <2> QED
    BY <1>2, <1>3, SetInduction
<1> SUFFICES ASSUME NEW A \in SUBSET D PROVE A \in T
  OBVIOUS
<1> HIDE DEF U
<1>5. Cardinality(D \ A) + 1 \in U /\ Cardinality(D \ A) < Cardinality(D \ A) + 1
  BY <1>a, <1>1, <1>4
<1> QED
  BY <1>5 DEF U

SearchStates(graph) == [visited : SUBSET Met(graph), found : BOOLEAN]

SearchStep(graph, v) ==
  [i \in graph.edges |-> [s \in SearchStates(graph) |->
      IF s.found THEN s ELSE v[s.visited][graph.sites[i].name]]]

SearchRow(graph, target, v, visited) ==
  [from \in Met(graph) |->
      IF from = target THEN [visited |-> visited, found |-> TRUE]
      ELSE IF from \in visited THEN [visited |-> visited, found |-> FALSE]
      ELSE InTurn(graph, EdgesOf(graph, from), SearchStep(graph, v),
                  [visited |-> visited \cup {from}, found |-> FALSE])]

\* A search adds to what is visited.
Grows(graph, v, A) ==
  \A from \in Met(graph) : v[A][from] \in SearchStates(graph) /\ A \subseteq v[A][from].visited

SearchBeyond(graph, v, A) == \A B \in SUBSET Met(graph) : A \subseteq B /\ A # B => Grows(graph, v, B)

LEMMA StepGrows ==
  ASSUME NEW graph, IsGraph(graph), NEW A \in SUBSET Met(graph), NEW v, SearchBeyond(graph, v, A),
         NEW from \in Met(graph), from \notin A,
         NEW s \in SearchStates(graph), A \cup {from} \subseteq s.visited, NEW i
  PROVE  /\ Followed(graph, EdgesOf(graph, from), SearchStep(graph, v), i, s) \in SearchStates(graph)
         /\ A \cup {from} \subseteq Followed(graph, EdgesOf(graph, from), SearchStep(graph, v), i, s).visited
<1>1. CASE ~(i \in EdgesOf(graph, from) /\ Leads(graph, i))
  BY <1>1 DEF Followed
<1>2. CASE i \in EdgesOf(graph, from) /\ Leads(graph, i)
  <2>1. i \in graph.edges /\ graph.sites[i].name \in Met(graph)
    BY <1>2, MetIsFinite DEF EdgesOf
  <2>2. Followed(graph, EdgesOf(graph, from), SearchStep(graph, v), i, s)
           = IF s.found THEN s ELSE v[s.visited][graph.sites[i].name]
    BY <1>2, <2>1 DEF Followed, SearchStep
  <2>3. s.visited \in SUBSET Met(graph) /\ A \subseteq s.visited /\ A # s.visited
    BY DEF SearchStates
  <2>4. Grows(graph, v, s.visited)
    BY <2>3 DEF SearchBeyond
  <2>5. /\ v[s.visited][graph.sites[i].name] \in SearchStates(graph)
        /\ s.visited \subseteq v[s.visited][graph.sites[i].name].visited
    BY <2>1, <2>4 DEF Grows
  <2> QED
    BY <2>2, <2>5
<1> QED
  BY <1>1, <1>2

LEMMA RowGrows ==
  ASSUME NEW graph, IsGraph(graph), NEW target, NEW A \in SUBSET Met(graph), NEW v, SearchBeyond(graph, v, A),
         NEW from \in Met(graph)
  PROVE  /\ SearchRow(graph, target, v, A)[from] \in SearchStates(graph)
         /\ A \subseteq SearchRow(graph, target, v, A)[from].visited
<1> DEFINE r == SearchRow(graph, target, v, A)[from]
           start == [visited |-> A \cup {from}, found |-> FALSE]
           turn == InTurn(graph, EdgesOf(graph, from), SearchStep(graph, v), start)
<1>1. r = IF from = target THEN [visited |-> A, found |-> TRUE]
          ELSE IF from \in A THEN [visited |-> A, found |-> FALSE] ELSE turn
  BY DEF SearchRow
<1>2. CASE from = target \/ from \in A
  BY <1>1, <1>2 DEF SearchStates
<1>3. CASE from # target /\ from \notin A
  <2> DEFINE K == {s \in SearchStates(graph) : A \cup {from} \subseteq s.visited}
             P == [i \in 0 .. Len(graph.sites) |-> K]
  <2>1. Len(graph.sites) \in Nat
    BY DEF IsGraph
  <2>2. start \in P[0]
    <3>1. 0 \in 0 .. Len(graph.sites)
      BY <2>1
    <3>2. start \in K
      BY DEF SearchStates
    <3> HIDE DEF K, start
    <3> QED
      BY <3>1, <3>2
  <2>3. ASSUME NEW i \in 1 .. Len(graph.sites), NEW s \in P[i - 1]
        PROVE  Followed(graph, EdgesOf(graph, from), SearchStep(graph, v), i, s) \in P[i]
    <3>1. i - 1 \in 0 .. Len(graph.sites) /\ i \in 0 .. Len(graph.sites)
      BY <2>1
    <3>2. s \in SearchStates(graph) /\ A \cup {from} \subseteq s.visited
      BY <3>1
    <3>3. Followed(graph, EdgesOf(graph, from), SearchStep(graph, v), i, s) \in K
      BY <1>3, <3>2, StepGrows
    <3> QED
      BY <3>1, <3>3
  <2>4. turn \in P[Len(graph.sites)]
    <3> HIDE DEF P, start
    <3> QED
      BY <2>2, <2>3, InTurnKeeps
  <2>5. turn \in K
    <3>1. Len(graph.sites) \in 0 .. Len(graph.sites)
      BY <2>1
    <3> HIDE DEF K, turn
    <3> QED
      BY <3>1, <2>4
  <2> HIDE DEF turn
  <2> QED
    BY <1>1, <1>3, <2>5
<1> QED
  BY <1>2, <1>3

LEMMA SearchRowsAgree ==
  ASSUME NEW graph, IsGraph(graph), NEW target, NEW A \in SUBSET Met(graph), NEW v, SearchBeyond(graph, v, A),
         NEW w, \A B \in SUBSET Met(graph) : A \subseteq B /\ A # B => v[B] = w[B]
  PROVE  SearchRow(graph, target, v, A) = SearchRow(graph, target, w, A)
<1>1. ASSUME NEW from \in Met(graph), from \notin A
      PROVE  InTurn(graph, EdgesOf(graph, from), SearchStep(graph, v), [visited |-> A \cup {from}, found |-> FALSE])
           = InTurn(graph, EdgesOf(graph, from), SearchStep(graph, w), [visited |-> A \cup {from}, found |-> FALSE])
  <2> DEFINE start == [visited |-> A \cup {from}, found |-> FALSE]
             K == {s \in SearchStates(graph) : A \cup {from} \subseteq s.visited}
  <2>1. start \in K
    BY DEF SearchStates
  <2>2. ASSUME NEW i \in 1 .. Len(graph.sites), NEW s \in K
        PROVE  /\ Followed(graph, EdgesOf(graph, from), SearchStep(graph, v), i, s) \in K
               /\ Followed(graph, EdgesOf(graph, from), SearchStep(graph, v), i, s)
                    = Followed(graph, EdgesOf(graph, from), SearchStep(graph, w), i, s)
    <3>1. Followed(graph, EdgesOf(graph, from), SearchStep(graph, v), i, s) \in K
      BY <1>1, StepGrows
    <3>2. v[s.visited] = w[s.visited]
      <4>1. s.visited \in SUBSET Met(graph) /\ A \subseteq s.visited /\ A # s.visited
        BY <1>1 DEF SearchStates
      <4> QED
        BY <4>1
    <3>3. CASE i \in EdgesOf(graph, from)
      <4>1. i \in graph.edges
        BY <3>3 DEF EdgesOf
      <4>2. SearchStep(graph, v)[i][s] = SearchStep(graph, w)[i][s]
        BY <3>2, <4>1 DEF SearchStep
      <4> QED
        BY <3>1, <4>2 DEF Followed
    <3>4. CASE i \notin EdgesOf(graph, from)
      BY <3>1, <3>4 DEF Followed
    <3> QED
      BY <3>3, <3>4
  <2> HIDE DEF start, K
  <2>3. InTurn(graph, EdgesOf(graph, from), SearchStep(graph, v), start)
           = InTurn(graph, EdgesOf(graph, from), SearchStep(graph, w), start)
    BY <2>1, <2>2, InTurnAgrees
  <2> QED
    BY <2>3 DEF start
<1> QED
  BY <1>1 DEF SearchRow

IsSearch(graph, target, v) ==
  \A A \in SUBSET Met(graph) : v[A] = SearchRow(graph, target, v, A) /\ Grows(graph, v, A)

LEMMA SearchUnfolds ==
  ASSUME NEW graph, IsGraph(graph), NEW target
  PROVE  \E v : IsSearch(graph, target, v) /\ Search(graph, target) = v[{}]
<1> DEFINE D == Met(graph)
           Following(v) == [A \in SUBSET D |-> SearchRow(graph, target, v, A)]
           Fits(v, n) == \A A \in SUBSET D : Cardinality(D \ A) < n =>
                            v[A] = SearchRow(graph, target, v, A) /\ Grows(graph, v, A)
           T == {n \in Nat : \E v : Fits(v, n)}
<1>0. IsFiniteSet(D) /\ \A A \in SUBSET D : Cardinality(D \ A) \in Nat
  BY MetIsFinite, FS_Subset, FS_CardinalityType
<1>1. \A v : \A A \in SUBSET D : Following(v)[A] = SearchRow(graph, target, v, A)
  OBVIOUS
<1>2. ASSUME NEW v, NEW A \in SUBSET D,
             \A B \in SUBSET D : A \subseteq B /\ A # B =>
                v[B] = SearchRow(graph, target, v, B) /\ Grows(graph, v, B)
      PROVE  Following(v)[A] = SearchRow(graph, target, Following(v), A) /\ Grows(graph, Following(v), A)
  <2>1. SearchBeyond(graph, v, A)
    BY <1>2 DEF SearchBeyond
  <2>2. \A B \in SUBSET D : A \subseteq B /\ A # B => v[B] = Following(v)[B]
    BY <1>2
  <2> HIDE DEF Following
  <2>3. SearchRow(graph, target, v, A) = SearchRow(graph, target, Following(v), A)
    BY <2>1, <2>2, SearchRowsAgree
  <2>4. Grows(graph, Following(v), A)
    BY <2>1, <1>1, RowGrows DEF Grows
  <2> QED
    BY <2>3, <2>4, <1>1
<1> HIDE DEF Following
<1>3. 0 \in T
  <2>1. Fits(<<>>, 0)
    <3>1. \A c \in Nat : ~(c < 0)
      OBVIOUS
    <3> QED
      BY <1>0, <3>1
  <2> HIDE DEF Fits
  <2> QED
    BY <2>1
<1>4. ASSUME NEW n \in Nat, n \in T PROVE n + 1 \in T
  <2>1. PICK v : Fits(v, n)
    BY <1>4
  <2>2. Fits(Following(v), n + 1)
    <3> SUFFICES ASSUME NEW A \in SUBSET D, Cardinality(D \ A) < n + 1
                 PROVE  Following(v)[A] = SearchRow(graph, target, Following(v), A) /\ Grows(graph, Following(v), A)
      OBVIOUS
    <3>1. ASSUME NEW B \in SUBSET D, A \subseteq B, A # B
          PROVE  v[B] = SearchRow(graph, target, v, B) /\ Grows(graph, v, B)
      <4>1. Cardinality(D \ B) < Cardinality(D \ A)
        <5> HIDE DEF D
        <5> QED
          BY <3>1, <1>0, FewerInMore
      <4>2. Cardinality(D \ B) < n
        <5> HIDE DEF D
        <5> QED
          BY <4>1, <1>0
      <4> QED
        BY <2>1, <4>2
    <3> QED
      BY <3>1, <1>2
  <2>3. \E u : Fits(u, n + 1)
    <3> HIDE DEF Fits
    <3> QED
      BY <2>2
  <2>4. n + 1 \in Nat
    OBVIOUS
  <2> HIDE DEF Fits
  <2> QED
    BY <2>3, <2>4
<1>5. Cardinality(D) + 1 \in T
  <2> HIDE DEF T
  <2>1. Nat \subseteq T
    BY <1>3, <1>4, SetInduction
  <2> QED
    BY <2>1, <1>0, FS_CardinalityType
<1>6. PICK v : Fits(v, Cardinality(D) + 1)
  BY <1>5
<1>7. \A A \in SUBSET D : v[A] = SearchRow(graph, target, v, A) /\ Grows(graph, v, A)
  <2> SUFFICES ASSUME NEW A \in SUBSET D
               PROVE  v[A] = SearchRow(graph, target, v, A) /\ Grows(graph, v, A)
    OBVIOUS
  <2>1. Cardinality(D \ A) <= Cardinality(D) /\ Cardinality(D) \in Nat /\ Cardinality(D \ A) \in Nat
    BY <1>0, FS_Subset, FS_CardinalityType
  <2>2. Cardinality(D \ A) < Cardinality(D) + 1
    <3> HIDE DEF D
    <3> QED
      BY <2>1
  <2> QED
    BY <1>6, <2>2
<1> DEFINE w == Following(v)
<1>8. \A A \in SUBSET D : w[A] = SearchRow(graph, target, w, A) /\ Grows(graph, w, A)
  BY <1>2, <1>7
<1>9. w = [A \in SUBSET D |-> SearchRow(graph, target, w, A)]
  <2>1. \A A \in SUBSET D : SearchRow(graph, target, v, A) = SearchRow(graph, target, w, A)
    <3> HIDE DEF D
    <3> QED
      BY <1>1, <1>8
  <2> QED
    BY <2>1 DEF Following
<1> DEFINE c == CHOOSE u : u = [A \in SUBSET D |-> SearchRow(graph, target, u, A)]
<1>10. c = [A \in SUBSET D |-> SearchRow(graph, target, c, A)]
  <2> HIDE DEF w
  <2> QED
    BY <1>9
<1>11. Search(graph, target) = c[{}]
  BY DEF Search, SearchRow, SearchStep, SearchStates
<1>12. \A A \in SUBSET D : c[A] = SearchRow(graph, target, c, A)
  <2> HIDE DEF c
  <2> QED
    BY <1>10
<1> HIDE DEF c
<1>13. \A A \in SUBSET D : Grows(graph, c, A)
  <2> DEFINE G == {A \in SUBSET D : Grows(graph, c, A)}
  <2>1. ASSUME NEW A \in SUBSET D, \A B \in SUBSET D : A \subseteq B /\ A # B => B \in G
        PROVE  A \in G
    <3>1. SearchBeyond(graph, c, A)
      BY <2>1 DEF SearchBeyond
    <3> QED
      BY <3>1, <1>12, RowGrows DEF Grows
  <2>2. SUBSET D \subseteq G
    <3> HIDE DEF G, D
    <3> QED
      BY <2>1, <1>0, InductionFromMore
  <2> QED
    BY <2>2
<1> QED
  BY <1>11, <1>12, <1>13 DEF IsSearch

\* A search that finds its target found a way to it; one that does not has
\* visited what the names it entered lead to.
Searched(graph, target, A, from, r) ==
  /\ r \in SearchStates(graph) /\ A \subseteq r.visited
  /\ r.found => target \in Reached(graph, from)
  /\ ~r.found => /\ from \in r.visited /\ target \notin r.visited \ A
                 /\ \A i \in graph.edges :
                       graph.sites[i].owner \in r.visited \ A /\ Leads(graph, i) =>
                          graph.sites[i].name \in r.visited

\* So far, when the references of a name up to an index are followed.
Searching(graph, target, A, from, i) ==
  {s \in SearchStates(graph) :
      /\ A \cup {from} \subseteq s.visited
      /\ s.found => target \in Reached(graph, from)
      /\ ~s.found =>
            /\ target \notin s.visited \ A
            /\ \A e \in graph.edges :
                  /\ graph.sites[e].owner \in s.visited \ A /\ Leads(graph, e)
                  /\ graph.sites[e].owner = from => e <= i
                  => graph.sites[e].name \in s.visited}

LEMMA SearchingOn ==
  ASSUME NEW graph, IsGraph(graph), NEW target, NEW v, NEW A \in SUBSET Met(graph),
         \A B \in SUBSET Met(graph) : A \subseteq B /\ A # B =>
            \A n \in Met(graph) : Searched(graph, target, B, n, v[B][n]),
         NEW from \in Met(graph), from \notin A, from # target,
         NEW i \in 1 .. Len(graph.sites), NEW s \in Searching(graph, target, A, from, i - 1)
  PROVE  Followed(graph, EdgesOf(graph, from), SearchStep(graph, v), i, s)
            \in Searching(graph, target, A, from, i)
<1> DEFINE name == graph.sites[i].name
           t == Followed(graph, EdgesOf(graph, from), SearchStep(graph, v), i, s)
           r == v[s.visited][name]
<1>0. /\ s \in SearchStates(graph) /\ A \cup {from} \subseteq s.visited /\ s.found \in BOOLEAN
      /\ s.visited \in SUBSET Met(graph)
      /\ s.found => target \in Reached(graph, from)
      /\ \A e \in graph.edges : e \in Nat
      /\ i \in Nat /\ Len(graph.sites) \in Nat
  BY DEF Searching, SearchStates, IsGraph
<1>1. ~s.found => /\ target \notin s.visited \ A
                  /\ \A e \in graph.edges :
                        /\ graph.sites[e].owner \in s.visited \ A /\ Leads(graph, e)
                        /\ graph.sites[e].owner = from => e <= i - 1
                        => graph.sites[e].name \in s.visited
  BY DEF Searching
<1>2. CASE s.found
  <2>1. t = s
    <3>1. i \in EdgesOf(graph, from) => SearchStep(graph, v)[i][s] = s
      BY <1>0, <1>2 DEF SearchStep, EdgesOf
    <3> QED
      BY <3>1 DEF Followed
  <2> HIDE DEF t
  <2>2. s \in Searching(graph, target, A, from, i)
    BY <1>0, <1>2 DEF Searching
  <2> QED
    BY <2>1, <2>2 DEF t
<1>3. CASE ~s.found /\ ~(i \in EdgesOf(graph, from) /\ Leads(graph, i))
  <2>1. t = s
    BY <1>3 DEF Followed
  <2>2. ASSUME NEW e \in graph.edges, graph.sites[e].owner \in s.visited \ A, Leads(graph, e),
               graph.sites[e].owner = from => e <= i
        PROVE  graph.sites[e].name \in s.visited
    <3>1. CASE e = i
      <4>1. graph.sites[e].owner # from
        BY <1>3, <2>2, <3>1 DEF EdgesOf
      <4> QED
        BY <4>1, <1>1, <1>3, <2>2
    <3>2. CASE e # i
      <4>1. e <= i => e <= i - 1
        BY <1>0, <3>2
      <4> QED
        BY <4>1, <1>1, <1>3, <2>2
    <3> QED
      BY <3>1, <3>2
  <2>3. target \notin s.visited \ A
    BY <1>1, <1>3
  <2> HIDE DEF t
  <2>4. s \in Searching(graph, target, A, from, i)
    BY <2>2, <2>3, <1>0, <1>3 DEF Searching
  <2> QED
    BY <2>1, <2>4 DEF t
<1>4. CASE ~s.found /\ i \in EdgesOf(graph, from) /\ Leads(graph, i)
  <2>1. i \in graph.edges /\ graph.sites[i].owner = from /\ name \in Met(graph)
    BY <1>4, MetIsFinite DEF EdgesOf
  <2>2. t = r
    BY <1>0, <1>4, <2>1 DEF Followed, SearchStep
  <2>3. A \subseteq s.visited /\ A # s.visited
    BY <1>0
  <2>4. Searched(graph, target, s.visited, name, r)
    BY <1>0, <2>1, <2>3
  <2>5. name \in Reached(graph, from)
    BY <1>4, <2>1, ReachedIsLeast DEF Closed
  <2>6. Reached(graph, name) \subseteq Reached(graph, from)
    BY <2>5, ReachedOnward
  <2> HIDE DEF t, r
  <2>7. r \in SearchStates(graph) /\ s.visited \subseteq r.visited
    BY <2>4 DEF Searched
  <2>8. r.found => target \in Reached(graph, from)
    BY <2>4, <2>6 DEF Searched
  <2>9. ASSUME ~r.found PROVE target \notin r.visited \ A
    BY <2>9, <2>4, <1>1, <1>4 DEF Searched
  <2>10. ASSUME ~r.found, NEW e \in graph.edges, graph.sites[e].owner \in r.visited \ A, Leads(graph, e),
                graph.sites[e].owner = from => e <= i
         PROVE  graph.sites[e].name \in r.visited
    <3>1. CASE graph.sites[e].owner \in r.visited \ s.visited
      BY <2>4, <2>10, <3>1 DEF Searched
    <3>2. CASE graph.sites[e].owner \in s.visited
      <4>1. CASE e = i
        BY <2>4, <2>10, <4>1 DEF Searched
      <4>2. CASE e # i
        <5>1. e <= i => e <= i - 1
          BY <1>0, <4>2
        <5>2. graph.sites[e].name \in s.visited
          BY <5>1, <1>1, <1>4, <2>10, <3>2
        <5> QED
          BY <5>2, <2>7
      <4> QED
        BY <4>1, <4>2
    <3> QED
      BY <3>1, <3>2, <2>10
  <2>11. A \cup {from} \subseteq r.visited
    BY <1>0, <2>7
  <2>12. r \in Searching(graph, target, A, from, i)
    BY <2>7, <2>8, <2>9, <2>10, <2>11 DEF Searching
  <2> QED
    BY <2>2, <2>12 DEF t
<1> QED
  BY <1>0, <1>2, <1>3, <1>4

LEMMA SearchFinds ==
  ASSUME NEW graph, IsGraph(graph), NEW target, NEW from \in Met(graph)
  PROVE  Search(graph, target)[from].found <=> target \in Reached(graph, from)
<1>1. PICK v : IsSearch(graph, target, v) /\ Search(graph, target) = v[{}]
  BY SearchUnfolds
<1> DEFINE D == Met(graph)
           T == {A \in SUBSET D : \A n \in D : Searched(graph, target, A, n, v[A][n])}
<1>2. ASSUME NEW A \in SUBSET D, \A B \in SUBSET D : A \subseteq B /\ A # B => B \in T
      PROVE  A \in T
  <2> SUFFICES ASSUME NEW n \in D PROVE Searched(graph, target, A, n, v[A][n])
    OBVIOUS
  <2> DEFINE r == v[A][n]
             start == [visited |-> A \cup {n}, found |-> FALSE]
             turn == InTurn(graph, EdgesOf(graph, n), SearchStep(graph, v), start)
             P == [i \in 0 .. Len(graph.sites) |-> Searching(graph, target, A, n, i)]
  <2>0. n \in Reached(graph, n) /\ Len(graph.sites) \in Nat /\ graph.edges \subseteq 1 .. Len(graph.sites)
    BY ReachedIsLeast DEF IsGraph
  <2>1. r = IF n = target THEN [visited |-> A, found |-> TRUE]
            ELSE IF n \in A THEN [visited |-> A, found |-> FALSE] ELSE turn
    <3>1. v[A] = SearchRow(graph, target, v, A)
      BY <1>1 DEF IsSearch
    <3> QED
      BY <3>1 DEF SearchRow
  <2>2. CASE n = target \/ n \in A
    BY <2>0, <2>1, <2>2 DEF Searched, SearchStates
  <2>3. CASE n # target /\ n \notin A
    <3>1. start \in P[0]
      <4>1. 0 \in 0 .. Len(graph.sites) /\ \A e \in graph.edges : ~(e <= 0)
        BY <2>0
      <4>2. start \in Searching(graph, target, A, n, 0)
        BY <4>1, <2>3 DEF Searching, SearchStates
      <4> HIDE DEF start
      <4> QED
        BY <4>1, <4>2
    <3>2. ASSUME NEW i \in 1 .. Len(graph.sites), NEW s \in P[i - 1]
          PROVE  Followed(graph, EdgesOf(graph, n), SearchStep(graph, v), i, s) \in P[i]
      <4>1. i - 1 \in 0 .. Len(graph.sites) /\ i \in 0 .. Len(graph.sites)
        BY <2>0
      <4>2. s \in Searching(graph, target, A, n, i - 1)
        BY <4>1
      <4>3. Followed(graph, EdgesOf(graph, n), SearchStep(graph, v), i, s) \in Searching(graph, target, A, n, i)
        BY <1>2, <2>3, <4>2, SearchingOn
      <4> QED
        BY <4>1, <4>3
    <3>3. turn \in P[Len(graph.sites)]
      <4> HIDE DEF P, start
      <4> QED
        BY <3>1, <3>2, InTurnKeeps
    <3>4. turn \in Searching(graph, target, A, n, Len(graph.sites))
      <4>1. Len(graph.sites) \in 0 .. Len(graph.sites)
        BY <2>0
      <4> HIDE DEF turn
      <4> QED
        BY <4>1, <3>3
    <3>5. \A e \in graph.edges : e <= Len(graph.sites)
      BY <2>0
    <3>6. r = turn
      BY <2>1, <2>3
    <3> HIDE DEF turn, r
    <3>7. Searched(graph, target, A, n, turn)
      BY <3>4, <3>5 DEF Searched, Searching
    <3> QED
      BY <3>6, <3>7 DEF r
  <2> QED
    BY <2>2, <2>3
<1>3. {} \in T
  <2>1. SUBSET D \subseteq T
    <3> HIDE DEF T, D
    <3> QED
      BY <1>2, InductionFromMore, MetIsFinite DEF D
  <2> QED
    BY <2>1
<1> DEFINE r == v[{}][from]
<1>4. Searched(graph, target, {}, from, r)
  BY <1>3
<1> HIDE DEF r
<1>5. r.found => target \in Reached(graph, from)
  BY <1>4 DEF Searched
<1>6. ASSUME ~r.found PROVE target \notin Reached(graph, from)
  <2>1. from \in r.visited /\ target \notin r.visited /\ r.visited \in SUBSET Met(graph)
    BY <1>4, <1>6 DEF Searched, SearchStates
  <2>2. Closed(graph, r.visited)
    BY <1>4, <1>6 DEF Searched, Closed
  <2>3. Reached(graph, from) \subseteq r.visited
    BY <2>1, <2>2, ReachedIsLeast
  <2> QED
    BY <2>1, <2>3
<1> QED
  BY <1>1, <1>5, <1>6 DEF r

\* A reference is on a cycle when what it names leads to its owner.
LEMMA CyclesAreCycles ==
  ASSUME NEW graph, IsGraph(graph)
  PROVE  Cycles(graph) = {i \in graph.edges :
                             /\ graph.sites[i].owner # NoName /\ Leads(graph, i)
                             /\ graph.sites[i].owner \in Reached(graph, graph.sites[i].name)}
BY SearchFinds, MetIsFinite DEF Cycles

Tip(graph, c) == IF c = <<>> THEN NoName ELSE graph.sites[c[Len(c)]].name

Names(graph, c) == {graph.sites[c[k]].name : k \in 1 .. Len(c)}

Chained(graph, c) ==
  /\ c \in Seq(graph.edges)
  /\ \A k \in 1 .. Len(c) :
        /\ Leads(graph, c[k])
        /\ graph.sites[c[k]].owner = IF k = 1 THEN NoName ELSE graph.sites[c[k - 1]].name
        /\ \A j \in 1 .. k - 1 : graph.sites[c[j]].name # graph.sites[c[k]].name

LEMMA ChainedHas ==
  ASSUME NEW graph, IsGraph(graph), NEW c, Chained(graph, c)
  PROVE  /\ c \in Seq(graph.edges) /\ Len(c) \in Nat /\ DOMAIN c = 1 .. Len(c)
         /\ \A k \in 1 .. Len(c) : c[k] \in graph.edges /\ graph.sites[c[k]].name \in Met(graph)
         /\ c # <<>> => Len(c) \in Nat \ {0} /\ Tip(graph, c) \in Names(graph, c)
         /\ Names(graph, c) \subseteq Met(graph)
<1>1. c \in Seq(graph.edges)
  BY DEF Chained
<1>2. Len(c) \in Nat /\ DOMAIN c = 1 .. Len(c) /\ (c # <<>> => Len(c) \in Nat \ {0})
  BY <1>1, LenProperties, EmptySeq
<1>3. \A k \in 1 .. Len(c) : c[k] \in graph.edges
  BY <1>1, ElementOfSeq
<1>4. \A k \in 1 .. Len(c) : graph.sites[c[k]].name \in Met(graph)
  BY <1>3, MetIsFinite
<1>5. c # <<>> => Len(c) \in 1 .. Len(c)
  BY <1>2
<1> QED
  BY <1>1, <1>2, <1>3, <1>4, <1>5 DEF Names, Tip

LEMMA ChainIsShort ==
  ASSUME NEW graph, IsGraph(graph), NEW c, Chained(graph, c)
  PROVE  Len(c) <= Cardinality(Met(graph)) /\ Cardinality(Met(graph)) \in Nat
<1> DEFINE f == [k \in 1 .. Len(c) |-> graph.sites[c[k]].name]
           n == Len(c)
<1>1. n \in Nat /\ \A k \in 1 .. n : graph.sites[c[k]].name \in Met(graph)
  BY ChainedHas
<1>2. f \in [1 .. n -> Met(graph)]
  BY <1>1
<1>3. IsFiniteSet(1 .. n) /\ Cardinality(1 .. n) = n
  <2>1. 1 \in Int /\ n \in Int /\ (1 > n => n = 0) /\ (n - 1) + 1 = n
    BY <1>1
  <2> HIDE DEF n
  <2> QED
    BY <2>1, FS_Interval
<1>4. IsFiniteSet(Met(graph)) /\ Cardinality(Met(graph)) \in Nat
  BY MetIsFinite, FS_CardinalityType
<1>5. ASSUME NEW j \in 1 .. n, NEW k \in 1 .. n, j < k PROVE f[j] # f[k]
  <2>1. j \in 1 .. k - 1
    BY <1>1, <1>5
  <2> QED
    BY <2>1 DEF Chained
<1>6. ASSUME Cardinality(Met(graph)) < n PROVE FALSE
  <2>1. \E x, y \in 1 .. n : x # y /\ f[x] = f[y]
    <3> HIDE DEF f, n
    <3> QED
      BY <1>2, <1>3, <1>4, <1>6, FS_PigeonHole
  <2>2. PICK x \in 1 .. n, y \in 1 .. n : x # y /\ f[x] = f[y]
    BY <2>1
  <2>3. x < y \/ y < x
    BY <2>2, <1>1
  <2> HIDE DEF f, n
  <2> QED
    BY <2>2, <2>3, <1>5
<1> QED
  BY <1>1, <1>4, <1>6

LEMMA ChainsAre ==
  ASSUME NEW graph, IsGraph(graph)
  PROVE  \A c : c \in Chains(graph) <=> Chained(graph, c) /\ c # <<>>
<1> DEFINE n(c) == Len(c)
           Body(c) == /\ c[1] \in Roots(graph)
                      /\ \A k \in DOMAIN c :
                            /\ Leads(graph, c[k])
                            /\ k > 1 => graph.sites[c[k]].owner = graph.sites[c[k - 1]].name
                            /\ \A j \in 1 .. k - 1 : graph.sites[c[j]].name # graph.sites[c[k]].name
<1>1. ASSUME NEW c, Chained(graph, c), c # <<>> PROVE c \in Chains(graph)
  <2>1. /\ c \in Seq(graph.edges) /\ Len(c) \in Nat \ {0} /\ DOMAIN c = 1 .. Len(c)
        /\ c[1] \in graph.edges
    BY <1>1, ChainedHas
  <2>2. Len(c) \in 1 .. Cardinality(Met(graph))
    BY <1>1, <2>1, ChainIsShort
  <2>3. c \in [1 .. Len(c) -> graph.edges]
    BY <2>1, LenProperties
  <2>4. c \in UNION {[1 .. m -> graph.edges] : m \in 1 .. Cardinality(Met(graph))}
    BY <2>2, <2>3
  <2>5. c[1] \in Roots(graph)
    BY <1>1, <2>1 DEF Chained, Roots, EdgesOf
  <2>6. \A k \in DOMAIN c :
           /\ Leads(graph, c[k])
           /\ k > 1 => graph.sites[c[k]].owner = graph.sites[c[k - 1]].name
           /\ \A j \in 1 .. k - 1 : graph.sites[c[j]].name # graph.sites[c[k]].name
    BY <1>1, <2>1 DEF Chained
  <2> QED
    BY <2>4, <2>5, <2>6 DEF Chains
<1>2. ASSUME NEW c \in Chains(graph) PROVE Chained(graph, c) /\ c # <<>>
  <2>1. PICK m \in 1 .. Cardinality(Met(graph)) : c \in [1 .. m -> graph.edges]
    BY DEF Chains
  <2>2. Cardinality(Met(graph)) \in Nat
    BY MetIsFinite, FS_CardinalityType
  <2>3. m \in Nat /\ m # 0
    BY <2>2
  <2>4. c \in Seq(graph.edges)
    BY <2>1, <2>3, SeqDef
  <2>5. DOMAIN c = 1 .. m /\ Len(c) \in Nat /\ DOMAIN c = 1 .. Len(c)
    BY <2>1, <2>4, LenProperties
  <2>6. Len(c) = m
    BY <2>3, <2>5
  <2>7. c # <<>>
    BY <2>3, <2>6, EmptySeq
  <2>8. c[1] \in Roots(graph)
    BY DEF Chains
  <2>9. ASSUME NEW k \in 1 .. Len(c)
        PROVE  /\ Leads(graph, c[k])
               /\ k > 1 => graph.sites[c[k]].owner = graph.sites[c[k - 1]].name
               /\ \A j \in 1 .. k - 1 : graph.sites[c[j]].name # graph.sites[c[k]].name
    BY <2>5 DEF Chains
  <2>10. graph.sites[c[1]].owner = NoName
    BY <2>8 DEF Roots, EdgesOf
  <2>11. \A k \in 1 .. Len(c) : graph.sites[c[k]].owner = IF k = 1 THEN NoName ELSE graph.sites[c[k - 1]].name
    BY <2>5, <2>9, <2>10
  <2> QED
    BY <2>4, <2>7, <2>9, <2>11 DEF Chained
<1> QED
  BY <1>1, <1>2

\* A reference that makes a chain longer.
LEMMA LongerChain ==
  ASSUME NEW graph, IsGraph(graph), NEW c, Chained(graph, c),
         NEW j \in EdgesOf(graph, Tip(graph, c)), Leads(graph, j), graph.sites[j].name \notin Names(graph, c)
  PROVE  /\ Chained(graph, Append(c, j)) /\ Append(c, j) # <<>> /\ Len(Append(c, j)) = Len(c) + 1
         /\ Append(c, j)[Len(c) + 1] = j /\ \A k \in 1 .. Len(c) : Append(c, j)[k] = c[k]
         /\ Tip(graph, Append(c, j)) = graph.sites[j].name
         /\ Names(graph, Append(c, j)) = Names(graph, c) \cup {graph.sites[j].name}
<1> DEFINE d == Append(c, j)
<1>0. /\ c \in Seq(graph.edges) /\ Len(c) \in Nat /\ j \in graph.edges
      /\ graph.sites[j].owner = Tip(graph, c)
  BY ChainedHas DEF EdgesOf
<1>1. /\ d \in Seq(graph.edges) /\ d # <<>> /\ Len(d) = Len(c) + 1
      /\ \A k \in 1 .. Len(c) : d[k] = c[k]
      /\ d[Len(c) + 1] = j
  BY <1>0, AppendProperties
<1> HIDE DEF d
<1>2. Tip(graph, d) = graph.sites[j].name
  BY <1>1 DEF Tip
<1>3. 1 .. Len(d) = (1 .. Len(c)) \cup {Len(c) + 1}
  BY <1>0, <1>1
<1>4. Names(graph, d) = Names(graph, c) \cup {graph.sites[j].name}
  BY <1>1, <1>3 DEF Names
<1>5. ASSUME NEW k \in 1 .. Len(d)
      PROVE  /\ Leads(graph, d[k])
             /\ graph.sites[d[k]].owner = IF k = 1 THEN NoName ELSE graph.sites[d[k - 1]].name
             /\ \A h \in 1 .. k - 1 : graph.sites[d[h]].name # graph.sites[d[k]].name
  <2>1. CASE k \in 1 .. Len(c)
    <3>1. d[k] = c[k] /\ \A h \in 1 .. k - 1 : h \in 1 .. Len(c) /\ d[h] = c[h]
      BY <1>0, <1>1, <2>1
    <3>2. k # 1 => k - 1 \in 1 .. k - 1
      BY <1>0, <2>1
    <3> QED
      BY <2>1, <3>1, <3>2 DEF Chained
  <2>2. CASE k = Len(c) + 1
    <3>1. d[k] = j /\ k - 1 = Len(c)
      BY <1>0, <1>1, <2>2
    <3>2. graph.sites[j].owner = IF k = 1 THEN NoName ELSE graph.sites[d[k - 1]].name
      <4>1. CASE c = <<>>
        BY <4>1, <1>0, <2>2, EmptySeq DEF Tip
      <4>2. CASE c # <<>>
        <5>1. Len(c) \in 1 .. Len(c) /\ k # 1
          BY <4>2, <1>0, <2>2, EmptySeq
        <5> QED
          BY <5>1, <4>2, <1>0, <1>1, <3>1 DEF Tip
      <4> QED
        BY <4>1, <4>2
    <3>3. \A h \in 1 .. k - 1 : graph.sites[d[h]].name # graph.sites[d[k]].name
      BY <1>1, <3>1 DEF Names
    <3> QED
      BY <3>1, <3>2, <3>3
  <2> QED
    BY <2>1, <2>2, <1>3
<1>6. Chained(graph, d)
  BY <1>1, <1>5 DEF Chained
<1> QED
  BY <1>1, <1>2, <1>4, <1>6 DEF d

\* The chains that go on from another one.
Beyond(graph, c) ==
  {d \in Chains(graph) : Len(d) > Len(c) /\ \A k \in 1 .. Len(c) : d[k] = c[k]}

LEMMA BeyondGoesOn ==
  ASSUME NEW graph, IsGraph(graph), NEW c, Chained(graph, c), NEW d \in Beyond(graph, c)
  PROVE  /\ Len(c) \in Nat /\ Len(d) \in Nat /\ Chained(graph, d) /\ d # <<>>
         /\ d[Len(c) + 1] \in EdgesOf(graph, Tip(graph, c)) /\ Leads(graph, d[Len(c) + 1])
         /\ graph.sites[d[Len(c) + 1]].name \notin Names(graph, c)
         /\ d[Len(c) + 1] \in 1 .. Len(graph.sites)
<1>1. Chained(graph, d) /\ d # <<>> /\ Len(d) > Len(c) /\ \A k \in 1 .. Len(c) : d[k] = c[k]
  BY ChainsAre DEF Beyond
<1> DEFINE j == d[Len(c) + 1]
           n == Len(c) + 1
<1>2. Len(c) \in Nat /\ Len(d) \in Nat /\ \A k \in 1 .. Len(d) : d[k] \in graph.edges
  BY <1>1, ChainedHas
<1>3. n \in 1 .. Len(d) /\ n - 1 = Len(c)
  BY <1>1, <1>2
<1>4. j \in graph.edges /\ Leads(graph, j) /\ j \in 1 .. Len(graph.sites)
  BY <1>1, <1>2, <1>3 DEF Chained, IsGraph
<1>5. graph.sites[j].owner = IF n = 1 THEN NoName ELSE graph.sites[d[n - 1]].name
  BY <1>1, <1>3 DEF Chained
<1>6. graph.sites[j].owner = Tip(graph, c)
  <2>1. CASE c = <<>>
    BY <2>1, <1>5, EmptySeq DEF Tip
  <2>2. CASE c # <<>>
    <3>1. Len(c) # 0
      BY <2>2, ChainedHas
    <3>2. n # 1 /\ Len(c) \in 1 .. Len(c)
      BY <3>1, <1>2
    <3> QED
      BY <1>1, <1>3, <1>5, <2>2, <3>2 DEF Tip
  <2> QED
    BY <2>1, <2>2
<1>7. graph.sites[j].name \notin Names(graph, c)
  <2>1. \A k \in 1 .. n - 1 : graph.sites[d[k]].name # graph.sites[d[n]].name
    BY <1>1, <1>3 DEF Chained
  <2> QED
    BY <2>1, <1>1, <1>3 DEF Names
<1> QED
  BY <1>1, <1>2, <1>4, <1>6, <1>7 DEF EdgesOf

\* Those that go on with one reference are that chain and what goes on from it.
LEMMA BeyondByOne ==
  ASSUME NEW graph, IsGraph(graph), NEW c, Chained(graph, c),
         NEW j \in EdgesOf(graph, Tip(graph, c)), Leads(graph, j), graph.sites[j].name \notin Names(graph, c)
  PROVE  {d \in Beyond(graph, c) : d[Len(c) + 1] = j} = {Append(c, j)} \cup Beyond(graph, Append(c, j))
<1> DEFINE e == Append(c, j)
<1>1. /\ Chained(graph, e) /\ e # <<>> /\ Len(e) = Len(c) + 1 /\ e[Len(c) + 1] = j
      /\ \A k \in 1 .. Len(c) : e[k] = c[k]
  BY LongerChain
<1>2. Len(c) \in Nat /\ e \in Seq(graph.edges)
  BY <1>1, ChainedHas
<1> HIDE DEF e
<1>3. 1 .. Len(e) = (1 .. Len(c)) \cup {Len(c) + 1}
  BY <1>1, <1>2
<1>4. ASSUME NEW d \in Beyond(graph, c), d[Len(c) + 1] = j, d \notin Beyond(graph, e)
      PROVE  d = e
  <2>1. Chained(graph, d) /\ Len(d) > Len(c) /\ d \in Chains(graph) /\ \A k \in 1 .. Len(c) : d[k] = c[k]
    BY ChainsAre DEF Beyond
  <2>2. \A k \in 1 .. Len(e) : d[k] = e[k]
    BY <1>1, <1>3, <1>4, <2>1
  <2>3. ~(Len(d) > Len(e))
    BY <1>4, <2>1, <2>2 DEF Beyond
  <2>4. Len(d) = Len(e) /\ d \in Seq(graph.edges)
    BY <1>1, <1>2, <2>1, <2>3, ChainedHas
  <2> QED
    BY <1>2, <2>2, <2>4, SeqEqual
<1>5. e \in Beyond(graph, c)
  <2>1. e \in Chains(graph)
    BY <1>1, ChainsAre
  <2>2. Len(e) > Len(c)
    BY <1>1, <1>2
  <2> QED
    BY <1>1, <2>1, <2>2 DEF Beyond
<1>6. ASSUME NEW d \in Beyond(graph, e) PROVE d \in Beyond(graph, c) /\ d[Len(c) + 1] = j
  <2>1. d \in Chains(graph) /\ Len(d) > Len(e) /\ \A k \in 1 .. Len(e) : d[k] = e[k]
    BY DEF Beyond
  <2>2. Len(d) \in Nat
    BY <2>1, ChainsAre, ChainedHas
  <2>3. Len(d) > Len(c)
    BY <1>1, <1>2, <2>1, <2>2
  <2>4. \A k \in 1 .. Len(c) : k \in 1 .. Len(e) /\ e[k] = c[k]
    BY <1>1, <1>3
  <2>5. Len(c) + 1 \in 1 .. Len(e)
    BY <1>3
  <2> QED
    BY <1>1, <2>1, <2>3, <2>4, <2>5 DEF Beyond
<1> QED
  BY <1>1, <1>4, <1>5, <1>6 DEF e

LEMMA AllAreBeyondNone ==
  ASSUME NEW graph, IsGraph(graph)
  PROVE  Chained(graph, <<>>) /\ Beyond(graph, <<>>) = Chains(graph)
<1>1. Len(<<>>) = 0 /\ <<>> \in Seq(graph.edges)
  OBVIOUS
<1>2. Chained(graph, <<>>)
  BY <1>1 DEF Chained
<1>3. ASSUME NEW d \in Chains(graph) PROVE d \in Beyond(graph, <<>>)
  <2>1. Len(d) \in Nat \ {0}
    BY ChainsAre, ChainedHas
  <2>2. Len(d) > 0
    BY <2>1
  <2> QED
    BY <1>1, <2>2 DEF Beyond
<1> QED
  BY <1>2, <1>3 DEF Beyond

ExpandStates(graph) == [expanded : SUBSET Met(graph), repeated : SUBSET graph.edges]

Entered(graph, i, s) ==
  [expanded |-> s.expanded \cup {graph.sites[i].name},
   repeated |-> s.repeated \cup (IF graph.sites[i].name \in s.expanded THEN {i} ELSE {})]

ExpandRow(graph, v, A) ==
  [i \in graph.edges |-> [s \in ExpandStates(graph) |->
     IF graph.sites[i].name \in A THEN s
     ELSE InTurn(graph, EdgesOf(graph, graph.sites[i].name), v[A \cup {graph.sites[i].name}], Entered(graph, i, s))]]

LEMMA ExpandRowsAgree ==
  ASSUME NEW graph, IsGraph(graph), NEW A \in SUBSET Met(graph), NEW v, NEW w,
         \A x \in Met(graph) \ A : v[A \cup {x}] = w[A \cup {x}]
  PROVE  ExpandRow(graph, v, A) = ExpandRow(graph, w, A)
<1>1. ASSUME NEW i \in graph.edges, NEW s \in ExpandStates(graph), graph.sites[i].name \notin A
      PROVE  InTurn(graph, EdgesOf(graph, graph.sites[i].name), v[A \cup {graph.sites[i].name}], Entered(graph, i, s))
           = InTurn(graph, EdgesOf(graph, graph.sites[i].name), w[A \cup {graph.sites[i].name}], Entered(graph, i, s))
  <2>1. graph.sites[i].name \in Met(graph) \ A
    BY <1>1, MetIsFinite
  <2>2. v[A \cup {graph.sites[i].name}] = w[A \cup {graph.sites[i].name}]
    BY <2>1
  <2> QED
    BY <2>2
<1> QED
  BY <1>1 DEF ExpandRow

LEMMA ExpandUnfolds ==
  ASSUME NEW graph, IsGraph(graph)
  PROVE  \E v : /\ \A A \in SUBSET Met(graph) : v[A] = ExpandRow(graph, v, A)
                /\ Expand(graph) = v[{}]
<1> DEFINE D == Met(graph)
           Following(v) == [A \in SUBSET D |-> ExpandRow(graph, v, A)]
           Fits(v, n) == \A A \in SUBSET D : Cardinality(D \ A) < n => v[A] = ExpandRow(graph, v, A)
           T == {n \in Nat : \E v : Fits(v, n)}
<1>0. IsFiniteSet(D) /\ \A A \in SUBSET D : Cardinality(D \ A) \in Nat
  BY MetIsFinite, FS_Subset, FS_CardinalityType
<1>1. \A v : \A A \in SUBSET D : Following(v)[A] = ExpandRow(graph, v, A)
  OBVIOUS
<1>2. ASSUME NEW v, NEW A \in SUBSET D,
             \A x \in D \ A : v[A \cup {x}] = ExpandRow(graph, v, A \cup {x})
      PROVE  Following(v)[A] = ExpandRow(graph, Following(v), A)
  <2>1. \A x \in D \ A : v[A \cup {x}] = Following(v)[A \cup {x}]
    BY <1>2
  <2> HIDE DEF Following
  <2>2. ExpandRow(graph, v, A) = ExpandRow(graph, Following(v), A)
    BY <2>1, ExpandRowsAgree
  <2> QED
    BY <2>2, <1>1
<1> HIDE DEF Following
<1>3. 0 \in T
  <2>1. Fits(<<>>, 0)
    <3>1. \A c \in Nat : ~(c < 0)
      OBVIOUS
    <3> QED
      BY <1>0, <3>1
  <2> HIDE DEF Fits
  <2> QED
    BY <2>1
<1>4. ASSUME NEW n \in Nat, n \in T PROVE n + 1 \in T
  <2>1. PICK v : Fits(v, n)
    BY <1>4
  <2>2. Fits(Following(v), n + 1)
    <3> SUFFICES ASSUME NEW A \in SUBSET D, Cardinality(D \ A) < n + 1
                 PROVE  Following(v)[A] = ExpandRow(graph, Following(v), A)
      OBVIOUS
    <3>1. ASSUME NEW x \in D \ A PROVE v[A \cup {x}] = ExpandRow(graph, v, A \cup {x})
      <4>1. A \cup {x} \in SUBSET D /\ Cardinality(D \ (A \cup {x})) = Cardinality(D \ A) - 1
        <5> HIDE DEF D
        <5> QED
          BY <1>0, FewerLeft
      <4>2. Cardinality(D \ (A \cup {x})) < n
        <5>1. \A a \in Nat : a < n + 1 => a - 1 < n
          OBVIOUS
        <5> HIDE DEF D
        <5> QED
          BY <4>1, <1>0, <5>1
      <4> QED
        BY <2>1, <4>1, <4>2
    <3> QED
      BY <3>1, <1>2
  <2>3. \E u : Fits(u, n + 1)
    <3> HIDE DEF Fits
    <3> QED
      BY <2>2
  <2>4. n + 1 \in Nat
    OBVIOUS
  <2> HIDE DEF Fits
  <2> QED
    BY <2>3, <2>4
<1>5. Cardinality(D) + 1 \in T
  <2> HIDE DEF T
  <2>1. Nat \subseteq T
    BY <1>3, <1>4, SetInduction
  <2> QED
    BY <2>1, <1>0, FS_CardinalityType
<1>6. PICK v : Fits(v, Cardinality(D) + 1)
  BY <1>5
<1>7. \A A \in SUBSET D : v[A] = ExpandRow(graph, v, A)
  <2> SUFFICES ASSUME NEW A \in SUBSET D PROVE v[A] = ExpandRow(graph, v, A)
    OBVIOUS
  <2>1. Cardinality(D \ A) <= Cardinality(D) /\ Cardinality(D) \in Nat /\ Cardinality(D \ A) \in Nat
    BY <1>0, FS_Subset, FS_CardinalityType
  <2>2. Cardinality(D \ A) < Cardinality(D) + 1
    <3> HIDE DEF D
    <3> QED
      BY <2>1
  <2> QED
    BY <1>6, <2>2
<1> DEFINE w == Following(v)
<1>8. \A A \in SUBSET D : ExpandRow(graph, v, A) = ExpandRow(graph, w, A)
  <2> SUFFICES ASSUME NEW A \in SUBSET D PROVE ExpandRow(graph, v, A) = ExpandRow(graph, w, A)
    OBVIOUS
  <2>1. \A x \in D \ A : A \cup {x} \in SUBSET D
    OBVIOUS
  <2>2. \A x \in D \ A : v[A \cup {x}] = w[A \cup {x}]
    BY <1>1, <1>7, <2>1
  <2> HIDE DEF w
  <2> QED
    BY <2>2, ExpandRowsAgree
<1>9. w = [A \in SUBSET D |-> ExpandRow(graph, w, A)]
  BY <1>8 DEF Following
<1> DEFINE c == CHOOSE u : u = [A \in SUBSET D |-> ExpandRow(graph, u, A)]
<1>10. c = [A \in SUBSET D |-> ExpandRow(graph, c, A)]
  <2> HIDE DEF w
  <2> QED
    BY <1>9
<1>11. Expand(graph) = c[{}]
  BY DEF Expand, ExpandRow, ExpandStates, Below, Entered
<1>12. \A A \in SUBSET D : c[A] = ExpandRow(graph, c, A)
  <2> HIDE DEF c
  <2> QED
    BY <1>10
<1> QED
  BY <1>11, <1>12

\* The names some chains end at, and those that two of them do.
Tips(graph, Q) == {Tip(graph, d) : d \in Q}

Twice(graph, Q) == {Tip(graph, d) : d \in {x \in Q : \E e \in Q : e # x /\ Tip(graph, e) = Tip(graph, x)}}

NamesOf(graph, edges) == {graph.sites[i].name : i \in edges}

\* Expanding the chains of Q, one after the other, leads from s to r.
Expands(graph, Q, s, r) ==
  /\ r \in ExpandStates(graph)
  /\ r.expanded = s.expanded \cup Tips(graph, Q)
  /\ NamesOf(graph, r.repeated)
       = NamesOf(graph, s.repeated) \cup (s.expanded \cap Tips(graph, Q)) \cup Twice(graph, Q)

LEMMA ExpandsNone ==
  ASSUME NEW graph, NEW s \in ExpandStates(graph)
  PROVE  Expands(graph, {}, s, s)
BY DEF Expands, Tips, Twice

LEMMA ExpandsOne ==
  ASSUME NEW graph, IsGraph(graph), NEW s \in ExpandStates(graph), NEW c, NEW i \in graph.edges,
         Tip(graph, c) = graph.sites[i].name
  PROVE  Expands(graph, {c}, s, Entered(graph, i, s))
<1> DEFINE n == graph.sites[i].name
           r == Entered(graph, i, s)
<1>1. n \in Met(graph) /\ s.expanded \in SUBSET Met(graph) /\ s.repeated \in SUBSET graph.edges
  BY MetIsFinite DEF ExpandStates
<1>2. /\ r.expanded = s.expanded \cup {n} /\ r.repeated = s.repeated \cup (IF n \in s.expanded THEN {i} ELSE {})
      /\ r \in ExpandStates(graph)
  BY <1>1 DEF Entered, ExpandStates
<1>3. Tips(graph, {c}) = {n} /\ Twice(graph, {c}) = {}
  BY DEF Tips, Twice
<1>4. NamesOf(graph, r.repeated) = NamesOf(graph, s.repeated) \cup (s.expanded \cap {n})
  <2> HIDE DEF r
  <2>1. CASE n \in s.expanded
    <3>1. r.repeated = s.repeated \cup {i} /\ s.expanded \cap {n} = {n}
      BY <1>2, <2>1
    <3> QED
      BY <3>1 DEF NamesOf
  <2>2. CASE n \notin s.expanded
    <3>1. r.repeated = s.repeated /\ s.expanded \cap {n} = {}
      BY <1>2, <2>2
    <3> QED
      BY <3>1 DEF NamesOf
  <2> QED
    BY <2>1, <2>2
<1> HIDE DEF r
<1> QED
  BY <1>2, <1>3, <1>4 DEF Expands, r

LEMMA ExpandsMore ==
  ASSUME NEW graph, NEW s, NEW r, NEW t, NEW Q, NEW R, Q \cap R = {},
         Expands(graph, Q, s, r), Expands(graph, R, r, t)
  PROVE  Expands(graph, Q \cup R, s, t)
<1>1. Tips(graph, Q \cup R) = Tips(graph, Q) \cup Tips(graph, R)
  BY DEF Tips
<1>2. Twice(graph, Q \cup R) = Twice(graph, Q) \cup Twice(graph, R) \cup (Tips(graph, Q) \cap Tips(graph, R))
  <2>1. ASSUME NEW n \in Twice(graph, Q \cup R), n \notin Twice(graph, Q), n \notin Twice(graph, R)
        PROVE  n \in Tips(graph, Q) \cap Tips(graph, R)
    <3>1. PICK d \in Q \cup R : n = Tip(graph, d) /\ \E e \in Q \cup R : e # d /\ Tip(graph, e) = Tip(graph, d)
      BY DEF Twice
    <3>2. PICK e \in Q \cup R : e # d /\ Tip(graph, e) = n
      BY <3>1
    <3>3. ~(d \in Q /\ e \in Q) /\ ~(d \in R /\ e \in R)
      BY <2>1, <3>1, <3>2 DEF Twice
    <3> QED
      BY <3>1, <3>2, <3>3 DEF Tips
  <2>2. ASSUME NEW n \in Tips(graph, Q) \cap Tips(graph, R) PROVE n \in Twice(graph, Q \cup R)
    <3>1. PICK d \in Q : n = Tip(graph, d)
      BY DEF Tips
    <3>2. PICK e \in R : n = Tip(graph, e)
      BY DEF Tips
    <3>3. e # d
      OBVIOUS
    <3> QED
      BY <3>1, <3>2, <3>3 DEF Twice
  <2>3. Twice(graph, Q) \cup Twice(graph, R) \subseteq Twice(graph, Q \cup R)
    BY DEF Twice
  <2> QED
    BY <2>1, <2>2, <2>3
<1> QED
  BY <1>1, <1>2 DEF Expands

\* The chains that go on with a reference up to an index.
BeyondBy(graph, c, i) == {d \in Beyond(graph, c) : d[Len(c) + 1] <= i}

\* What a chain's references expand, when each expands what goes on from it.
ExpandsEach(graph, v, c) ==
  \A j \in EdgesOf(graph, Tip(graph, c)) : \A s \in ExpandStates(graph) :
     Leads(graph, j) =>
        IF graph.sites[j].name \in Names(graph, c) THEN v[j][s] = s
        ELSE Expands(graph, {Append(c, j)} \cup Beyond(graph, Append(c, j)), s, v[j][s])

LEMMA ExpandsBeyond ==
  ASSUME NEW graph, IsGraph(graph), NEW c, Chained(graph, c), NEW v, ExpandsEach(graph, v, c),
         NEW s \in ExpandStates(graph)
  PROVE  Expands(graph, Beyond(graph, c), s, InTurn(graph, EdgesOf(graph, Tip(graph, c)), v, s))
<1> DEFINE n == Len(graph.sites)
           edges == EdgesOf(graph, Tip(graph, c))
           P == [i \in 0 .. n |-> {r \in ExpandStates(graph) : Expands(graph, BeyondBy(graph, c, i), s, r)}]
           turn == InTurn(graph, edges, v, s)
<1>0. n \in Nat
  BY DEF IsGraph
<1>1. s \in P[0]
  <2>1. BeyondBy(graph, c, 0) = {}
    <3>1. \A i \in 1 .. Len(graph.sites) : ~(i <= 0)
      BY <1>0
    <3> QED
      BY <3>1, BeyondGoesOn DEF BeyondBy
  <2>2. Expands(graph, BeyondBy(graph, c, 0), s, s)
    BY <2>1, ExpandsNone
  <2>3. 0 \in 0 .. n
    BY <1>0
  <2> QED
    BY <2>2, <2>3
<1>2. ASSUME NEW i \in 1 .. n, NEW r \in P[i - 1] PROVE Followed(graph, edges, v, i, r) \in P[i]
  <2>0. i - 1 \in 0 .. n /\ i \in 0 .. n /\ i \in Nat
    BY <1>0
  <2>1. r \in ExpandStates(graph) /\ Expands(graph, BeyondBy(graph, c, i - 1), s, r)
    BY <2>0
  <2> DEFINE by == {d \in Beyond(graph, c) : d[Len(c) + 1] = i}
  <2>2. BeyondBy(graph, c, i) = BeyondBy(graph, c, i - 1) \cup by /\ BeyondBy(graph, c, i - 1) \cap by = {}
    <3>1. \A d \in Beyond(graph, c) : d[Len(c) + 1] \in Nat
      BY BeyondGoesOn, <1>0
    <3>2. \A k \in Nat : (k <= i <=> k <= i - 1 \/ k = i) /\ ~(k <= i - 1 /\ k = i)
      BY <2>0
    <3> QED
      BY <3>1, <3>2 DEF BeyondBy
  <2> DEFINE t == Followed(graph, edges, v, i, r)
  <2>3. Expands(graph, by, r, t)
    <3>1. CASE ~(i \in edges /\ Leads(graph, i))
      <4>1. t = r
        BY <3>1 DEF Followed
      <4>2. by = {}
        BY <3>1, BeyondGoesOn
      <4> HIDE DEF t, by
      <4> QED
        BY <4>1, <4>2, <2>1, ExpandsNone
    <3>2. CASE i \in edges /\ Leads(graph, i) /\ graph.sites[i].name \in Names(graph, c)
      <4>1. t = v[i][r] /\ v[i][r] = r
        BY <3>2, <2>1 DEF Followed, ExpandsEach
      <4>2. by = {}
        BY <3>2, BeyondGoesOn
      <4> HIDE DEF t, by
      <4> QED
        BY <4>1, <4>2, <2>1, ExpandsNone
    <3>3. CASE i \in edges /\ Leads(graph, i) /\ graph.sites[i].name \notin Names(graph, c)
      <4>1. t = v[i][r]
        BY <3>3 DEF Followed
      <4>2. Expands(graph, {Append(c, i)} \cup Beyond(graph, Append(c, i)), r, v[i][r])
        BY <3>3, <2>1 DEF ExpandsEach
      <4>3. by = {Append(c, i)} \cup Beyond(graph, Append(c, i))
        BY <3>3, BeyondByOne
      <4> HIDE DEF t, by
      <4> QED
        BY <4>1, <4>2, <4>3
    <3> QED
      BY <3>1, <3>2, <3>3
  <2> HIDE DEF t, by
  <2>4. Expands(graph, BeyondBy(graph, c, i), s, t)
    BY <2>1, <2>2, <2>3, ExpandsMore
  <2>5. t \in ExpandStates(graph)
    BY <2>4 DEF Expands
  <2>6. t \in P[i]
    BY <2>0, <2>4, <2>5
  <2> QED
    BY <2>6 DEF t
<1>3. turn \in P[n]
  <2> HIDE DEF P, edges
  <2> QED
    BY <1>1, <1>2, InTurnKeeps
<1>4. Expands(graph, BeyondBy(graph, c, n), s, turn)
  <2>1. n \in 0 .. n
    BY <1>0
  <2> HIDE DEF turn
  <2> QED
    BY <2>1, <1>3
<1>5. BeyondBy(graph, c, n) = Beyond(graph, c)
  BY BeyondGoesOn, <1>0 DEF BeyondBy
<1> QED
  BY <1>4, <1>5

LEMMA ExpandsChains ==
  ASSUME NEW graph, IsGraph(graph), NEW v,
         \A A \in SUBSET Met(graph) : v[A] = ExpandRow(graph, v, A)
  PROVE  \A c : Chained(graph, c) => ExpandsEach(graph, v[Names(graph, c)], c)
<1> DEFINE D == Met(graph)
           T == {A \in SUBSET D : \A c : Chained(graph, c) /\ Names(graph, c) = A => ExpandsEach(graph, v[A], c)}
<1>1. ASSUME NEW A \in SUBSET D, \A B \in SUBSET D : A \subseteq B /\ A # B => B \in T
      PROVE  A \in T
  <2> SUFFICES ASSUME NEW c, Chained(graph, c), Names(graph, c) = A PROVE ExpandsEach(graph, v[A], c)
    OBVIOUS
  <2> SUFFICES ASSUME NEW j \in EdgesOf(graph, Tip(graph, c)), NEW s \in ExpandStates(graph), Leads(graph, j)
               PROVE  IF graph.sites[j].name \in Names(graph, c) THEN v[A][j][s] = s
                      ELSE Expands(graph, {Append(c, j)} \cup Beyond(graph, Append(c, j)), s, v[A][j][s])
    BY DEF ExpandsEach
  <2> DEFINE e == Append(c, j)
             name == graph.sites[j].name
  <2>1. j \in graph.edges /\ name \in D
    BY MetIsFinite DEF EdgesOf
  <2>2. v[A][j][s] = IF name \in A THEN s
                     ELSE InTurn(graph, EdgesOf(graph, name), v[A \cup {name}], Entered(graph, j, s))
    <3>1. v[A] = ExpandRow(graph, v, A)
      OBVIOUS
    <3> QED
      BY <2>1, <3>1 DEF ExpandRow
  <2>3. CASE name \in A
    BY <2>2, <2>3
  <2>4. CASE name \notin A
    <3>1. /\ Chained(graph, e) /\ Tip(graph, e) = name /\ Names(graph, e) = A \cup {name}
      BY <2>4, LongerChain
    <3> DEFINE turn == InTurn(graph, EdgesOf(graph, name), v[A \cup {name}], Entered(graph, j, s))
    <3> HIDE DEF e
    <3>2. ExpandsEach(graph, v[A \cup {name}], e)
      <4>1. A \cup {name} \in SUBSET D /\ A \subseteq A \cup {name} /\ A # A \cup {name}
        BY <2>1, <2>4
      <4>2. A \cup {name} \in T
        <5> HIDE DEF T, name
        <5> QED
          BY <4>1, <1>1
      <4> QED
        BY <3>1, <4>2
    <3>3. Expands(graph, {e}, s, Entered(graph, j, s))
      BY <2>1, <3>1, ExpandsOne
    <3>4. Entered(graph, j, s) \in ExpandStates(graph)
      BY <3>3 DEF Expands
    <3>5. Expands(graph, Beyond(graph, e), Entered(graph, j, s), turn)
      BY <3>1, <3>2, <3>4, ExpandsBeyond
    <3>6. {e} \cap Beyond(graph, e) = {}
      <4>1. e \notin Beyond(graph, e)
        BY <3>1, ChainedHas DEF Beyond
      <4> QED
        BY <4>1
    <3> HIDE DEF turn
    <3>7. Expands(graph, {e} \cup Beyond(graph, e), s, turn)
      BY <3>3, <3>5, <3>6, ExpandsMore
    <3> QED
      BY <3>7, <2>2, <2>4 DEF e, turn
  <2> QED
    BY <2>3, <2>4
<1>2. SUBSET D \subseteq T
  <2> HIDE DEF T, D
  <2> QED
    BY <1>1, InductionFromMore, MetIsFinite, SMTT(30) DEF D
<1> SUFFICES ASSUME NEW c, Chained(graph, c) PROVE ExpandsEach(graph, v[Names(graph, c)], c)
  OBVIOUS
<1>3. Names(graph, c) \in SUBSET D
  BY ChainedHas
<1>4. Names(graph, c) \in T
  <2> HIDE DEF T
  <2> QED
    BY <1>2, <1>3
<1> QED
  BY <1>4

\* The names that are repeated are those that two chains end at.
LEMMA RepetitionsAreRepeated ==
  ASSUME NEW graph, IsGraph(graph)
  PROVE  /\ Repetitions(graph) \subseteq graph.edges
         /\ NamesOf(graph, Repetitions(graph)) = Twice(graph, Chains(graph))
<1>1. PICK v : /\ \A A \in SUBSET Met(graph) : v[A] = ExpandRow(graph, v, A)
               /\ Expand(graph) = v[{}]
  BY ExpandUnfolds
<1> DEFINE start == [expanded |-> {}, repeated |-> {}]
           turn == InTurn(graph, EdgesOf(graph, NoName), v[{}], start)
<1>2. Chained(graph, <<>>) /\ Beyond(graph, <<>>) = Chains(graph)
  BY AllAreBeyondNone
<1>3. Names(graph, <<>>) = {} /\ Tip(graph, <<>>) = NoName
  <2>1. 1 .. Len(<<>>) = {}
    OBVIOUS
  <2> QED
    BY <2>1 DEF Names, Tip
<1>4. ExpandsEach(graph, v[{}], <<>>)
  BY <1>1, <1>2, <1>3, ExpandsChains
<1>5. start \in ExpandStates(graph) /\ start.expanded = {} /\ start.repeated = {}
  BY DEF ExpandStates
<1> HIDE DEF start
<1>6. Expands(graph, Chains(graph), start, turn)
  BY <1>2, <1>3, <1>4, <1>5, ExpandsBeyond
<1>7. Repetitions(graph) = turn.repeated
  BY <1>1 DEF Repetitions, Roots, start
<1> HIDE DEF turn
<1>8. NamesOf(graph, start.repeated) = {} /\ start.expanded \cap Tips(graph, Chains(graph)) = {}
  BY <1>5 DEF NamesOf
<1>9. NamesOf(graph, turn.repeated) = Twice(graph, Chains(graph)) /\ turn.repeated \in SUBSET graph.edges
  BY <1>6, <1>8 DEF Expands, ExpandStates
<1> QED
  BY <1>7, <1>9

LongestStates(graph) == [ok : BOOLEAN, path : Seq(graph.edges)]

Better(graph, row) ==
  [i \in graph.edges |-> [s \in LongestStates(graph) |->
      IF ~s.ok THEN s
      ELSE IF ~row[graph.sites[i].name].ok THEN row[graph.sites[i].name]
      ELSE IF Len(row[graph.sites[i].name].path) + 1 > Len(s.path)
      THEN [s EXCEPT !.path = <<i>> \o row[graph.sites[i].name].path]
      ELSE s]]

LongestRow(graph, v, A) ==
  [name \in Met(graph) |->
     IF name \in A THEN [ok |-> FALSE, path |-> <<>>]
     ELSE InTurn(graph, EdgesOf(graph, name), Better(graph, v[A \cup {name}]), [ok |-> TRUE, path |-> <<>>])]

LEMMA LongestRowsAgree ==
  ASSUME NEW graph, IsGraph(graph), NEW A \in SUBSET Met(graph), NEW v, NEW w,
         \A x \in Met(graph) \ A : v[A \cup {x}] = w[A \cup {x}]
  PROVE  LongestRow(graph, v, A) = LongestRow(graph, w, A)
<1>1. ASSUME NEW name \in Met(graph), name \notin A
      PROVE  InTurn(graph, EdgesOf(graph, name), Better(graph, v[A \cup {name}]), [ok |-> TRUE, path |-> <<>>])
           = InTurn(graph, EdgesOf(graph, name), Better(graph, w[A \cup {name}]), [ok |-> TRUE, path |-> <<>>])
  <2>1. v[A \cup {name}] = w[A \cup {name}]
    BY <1>1
  <2> QED
    BY <2>1
<1> QED
  BY <1>1 DEF LongestRow

LEMMA LongestUnfolds ==
  ASSUME NEW graph, IsGraph(graph)
  PROVE  \E v : /\ \A A \in SUBSET Met(graph) : v[A] = LongestRow(graph, v, A)
                /\ Longest(graph) = v[{}]
<1> DEFINE D == Met(graph)
           Following(v) == [A \in SUBSET D |-> LongestRow(graph, v, A)]
           Fits(v, n) == \A A \in SUBSET D : Cardinality(D \ A) < n => v[A] = LongestRow(graph, v, A)
           T == {n \in Nat : \E v : Fits(v, n)}
<1>0. IsFiniteSet(D) /\ \A A \in SUBSET D : Cardinality(D \ A) \in Nat
  BY MetIsFinite, FS_Subset, FS_CardinalityType
<1>1. \A v : \A A \in SUBSET D : Following(v)[A] = LongestRow(graph, v, A)
  OBVIOUS
<1>2. ASSUME NEW v, NEW A \in SUBSET D,
             \A x \in D \ A : v[A \cup {x}] = LongestRow(graph, v, A \cup {x})
      PROVE  Following(v)[A] = LongestRow(graph, Following(v), A)
  <2>1. \A x \in D \ A : v[A \cup {x}] = Following(v)[A \cup {x}]
    BY <1>2
  <2> HIDE DEF Following
  <2>2. LongestRow(graph, v, A) = LongestRow(graph, Following(v), A)
    BY <2>1, LongestRowsAgree
  <2> QED
    BY <2>2, <1>1
<1> HIDE DEF Following
<1>3. 0 \in T
  <2>1. Fits(<<>>, 0)
    <3>1. \A c \in Nat : ~(c < 0)
      OBVIOUS
    <3> QED
      BY <1>0, <3>1
  <2> HIDE DEF Fits
  <2> QED
    BY <2>1
<1>4. ASSUME NEW n \in Nat, n \in T PROVE n + 1 \in T
  <2>1. PICK v : Fits(v, n)
    BY <1>4
  <2>2. Fits(Following(v), n + 1)
    <3> SUFFICES ASSUME NEW A \in SUBSET D, Cardinality(D \ A) < n + 1
                 PROVE  Following(v)[A] = LongestRow(graph, Following(v), A)
      OBVIOUS
    <3>1. ASSUME NEW x \in D \ A PROVE v[A \cup {x}] = LongestRow(graph, v, A \cup {x})
      <4>1. A \cup {x} \in SUBSET D /\ Cardinality(D \ (A \cup {x})) = Cardinality(D \ A) - 1
        <5> HIDE DEF D
        <5> QED
          BY <1>0, FewerLeft
      <4>2. Cardinality(D \ (A \cup {x})) < n
        <5>1. \A a \in Nat : a < n + 1 => a - 1 < n
          OBVIOUS
        <5> HIDE DEF D
        <5> QED
          BY <4>1, <1>0, <5>1
      <4> QED
        BY <2>1, <4>1, <4>2
    <3> QED
      BY <3>1, <1>2
  <2>3. \E u : Fits(u, n + 1)
    <3> HIDE DEF Fits
    <3> QED
      BY <2>2
  <2>4. n + 1 \in Nat
    OBVIOUS
  <2> HIDE DEF Fits
  <2> QED
    BY <2>3, <2>4
<1>5. Cardinality(D) + 1 \in T
  <2> HIDE DEF T
  <2>1. Nat \subseteq T
    BY <1>3, <1>4, SetInduction
  <2> QED
    BY <2>1, <1>0, FS_CardinalityType
<1>6. PICK v : Fits(v, Cardinality(D) + 1)
  BY <1>5
<1>7. \A A \in SUBSET D : v[A] = LongestRow(graph, v, A)
  <2> SUFFICES ASSUME NEW A \in SUBSET D PROVE v[A] = LongestRow(graph, v, A)
    OBVIOUS
  <2>1. Cardinality(D \ A) <= Cardinality(D) /\ Cardinality(D) \in Nat /\ Cardinality(D \ A) \in Nat
    BY <1>0, FS_Subset, FS_CardinalityType
  <2>2. Cardinality(D \ A) < Cardinality(D) + 1
    <3> HIDE DEF D
    <3> QED
      BY <2>1
  <2> QED
    BY <1>6, <2>2
<1> DEFINE w == Following(v)
<1>8. \A A \in SUBSET D : LongestRow(graph, v, A) = LongestRow(graph, w, A)
  <2> SUFFICES ASSUME NEW A \in SUBSET D PROVE LongestRow(graph, v, A) = LongestRow(graph, w, A)
    OBVIOUS
  <2>1. \A x \in D \ A : A \cup {x} \in SUBSET D
    OBVIOUS
  <2>2. \A x \in D \ A : v[A \cup {x}] = w[A \cup {x}]
    BY <1>1, <1>7, <2>1
  <2> HIDE DEF w
  <2> QED
    BY <2>2, LongestRowsAgree
<1>9. w = [A \in SUBSET D |-> LongestRow(graph, w, A)]
  BY <1>8 DEF Following
<1> DEFINE c == CHOOSE u : u = [A \in SUBSET D |-> LongestRow(graph, u, A)]
<1>10. c = [A \in SUBSET D |-> LongestRow(graph, c, A)]
  <2> HIDE DEF w
  <2> QED
    BY <1>9
<1>11. Longest(graph) = c[{}]
  BY DEF Longest, LongestRow, LongestStates, Better
<1>12. \A A \in SUBSET D : c[A] = LongestRow(graph, c, A)
  <2> HIDE DEF c
  <2> QED
    BY <1>10
<1> QED
  BY <1>11, <1>12

WalkFrom(graph, name, w) ==
  /\ w \in Seq(graph.edges)
  /\ \A k \in 1 .. Len(w) :
        /\ Leads(graph, w[k])
        /\ graph.sites[w[k]].owner = IF k = 1 THEN name ELSE graph.sites[w[k - 1]].name

Safe(graph, name) ==
  \A n \in Reached(graph, name) : \A i \in graph.edges :
     graph.sites[i].owner = n /\ Leads(graph, i) => n \notin Reached(graph, graph.sites[i].name)

LEMMA WalkHas ==
  ASSUME NEW graph, NEW name, NEW w, WalkFrom(graph, name, w)
  PROVE  /\ w \in Seq(graph.edges) /\ Len(w) \in Nat /\ DOMAIN w = 1 .. Len(w)
         /\ \A k \in 1 .. Len(w) : w[k] \in graph.edges
         /\ w # <<>> => Len(w) \in Nat \ {0} /\ 1 \in 1 .. Len(w)
<1>1. w \in Seq(graph.edges)
  BY DEF WalkFrom
<1>2. Len(w) \in Nat /\ DOMAIN w = 1 .. Len(w) /\ (w # <<>> => Len(w) \in Nat \ {0})
  BY <1>1, LenProperties, EmptySeq
<1>3. \A k \in 1 .. Len(w) : w[k] \in graph.edges
  BY <1>1, ElementOfSeq
<1> QED
  BY <1>1, <1>2, <1>3

LEMMA WalkGoesOn ==
  ASSUME NEW graph, NEW i \in graph.edges, Leads(graph, i), NEW w, WalkFrom(graph, graph.sites[i].name, w)
  PROVE  /\ WalkFrom(graph, graph.sites[i].owner, <<i>> \o w) /\ Len(<<i>> \o w) = Len(w) + 1
         /\ (<<i>> \o w)[1] = i
<1> DEFINE l == <<i>> \o w
<1>1. w \in Seq(graph.edges) /\ Len(w) \in Nat
  BY WalkHas
<1> DEFINE one == <<i>>
<1>2. one \in Seq(graph.edges) /\ Len(one) = 1 /\ one[1] = i
  <2>1. <<i>> \in Seq({i}) /\ {i} \subseteq graph.edges
    OBVIOUS
  <2>2. <<i>> \in Seq(graph.edges)
    BY <2>1, SeqMonotonic
  <2>3. Len(<<i>>) = 1 /\ <<i>>[1] = i
    OBVIOUS
  <2> QED
    BY <2>2, <2>3
<1> HIDE DEF one
<1>3. /\ one \o w \in Seq(graph.edges) /\ Len(one \o w) = 1 + Len(w)
      /\ \A k \in 1 .. 1 + Len(w) : (one \o w)[k] = IF k <= 1 THEN one[k] ELSE w[k - 1]
  BY <1>1, <1>2, ConcatProperties
<1>a. l = one \o w
  BY DEF one
<1> HIDE DEF l
<1>b. /\ l \in Seq(graph.edges) /\ Len(l) = 1 + Len(w)
      /\ \A k \in 1 .. 1 + Len(w) : l[k] = IF k <= 1 THEN one[k] ELSE w[k - 1]
  BY <1>3, <1>a
<1>4. l[1] = i /\ \A k \in 1 .. Len(w) : l[k + 1] = w[k]
  <2>1. 1 \in 1 .. 1 + Len(w) /\ 1 <= 1
    BY <1>1
  <2>2. l[1] = i
    BY <1>2, <1>b, <2>1
  <2>3. ASSUME NEW k \in 1 .. Len(w) PROVE l[k + 1] = w[k]
    <3>1. k + 1 \in 1 .. 1 + Len(w) /\ ~(k + 1 <= 1) /\ (k + 1) - 1 = k
      BY <1>1
    <3> QED
      BY <1>b, <3>1
  <2> QED
    BY <2>2, <2>3
<1>5. ASSUME NEW k \in 1 .. Len(l)
      PROVE  /\ Leads(graph, l[k])
             /\ graph.sites[l[k]].owner = IF k = 1 THEN graph.sites[i].owner ELSE graph.sites[l[k - 1]].name
  <2>1. CASE k = 1
    BY <1>4, <2>1
  <2>2. CASE k # 1
    <3> DEFINE h == k - 1
    <3>1. h \in 1 .. Len(w) /\ k = h + 1
      BY <1>1, <1>b, <2>2
    <3>2. l[k] = w[h]
      BY <1>4, <3>1
    <3>3. graph.sites[w[h]].owner = IF h = 1 THEN graph.sites[i].name ELSE graph.sites[w[h - 1]].name
      BY <3>1 DEF WalkFrom
    <3>4. Leads(graph, w[h])
      BY <3>1 DEF WalkFrom
    <3>5. CASE h = 1
      BY <1>4, <2>2, <3>2, <3>3, <3>4, <3>5
    <3>6. CASE h # 1
      <4>1. h - 1 \in 1 .. Len(w) /\ (h - 1) + 1 = h
        BY <1>1, <3>1, <3>6
      <4>2. l[h] = w[h - 1]
        BY <1>4, <4>1
      <4> QED
        BY <2>2, <3>2, <3>3, <3>4, <3>6, <4>2
    <3> QED
      BY <3>5, <3>6
  <2> QED
    BY <2>1, <2>2
<1>6. WalkFrom(graph, graph.sites[i].owner, l)
  BY <1>b, <1>5 DEF WalkFrom
<1>7. Len(l) = Len(w) + 1
  BY <1>1, <1>b
<1> QED
  BY <1>4, <1>6, <1>7 DEF l

LEMMA WalkComesFrom ==
  ASSUME NEW graph, NEW name, NEW w, WalkFrom(graph, name, w), w # <<>>
  PROVE  /\ w[1] \in EdgesOf(graph, name) /\ Leads(graph, w[1])
         /\ WalkFrom(graph, graph.sites[w[1]].name, Tail(w)) /\ Len(w) = Len(Tail(w)) + 1
<1>1. /\ w \in Seq(graph.edges) /\ Len(w) \in Nat \ {0} /\ 1 \in 1 .. Len(w)
      /\ \A k \in 1 .. Len(w) : w[k] \in graph.edges
  BY WalkHas
<1>2. w[1] \in EdgesOf(graph, name) /\ Leads(graph, w[1])
  BY <1>1 DEF WalkFrom, EdgesOf
<1> DEFINE t == Tail(w)
<1>3. t \in Seq(graph.edges) /\ Len(t) = Len(w) - 1 /\ \A k \in 1 .. Len(t) : t[k] = w[k + 1]
  BY <1>1, HeadTailProperties
<1> HIDE DEF t
<1>4. ASSUME NEW k \in 1 .. Len(t)
      PROVE  /\ Leads(graph, t[k])
             /\ graph.sites[t[k]].owner = IF k = 1 THEN graph.sites[w[1]].name ELSE graph.sites[t[k - 1]].name
  <2>1. k + 1 \in 1 .. Len(w) /\ k + 1 # 1 /\ (k + 1) - 1 = k
    BY <1>1, <1>3
  <2>2. t[k] = w[k + 1]
    BY <1>3
  <2>3. Leads(graph, w[k + 1]) /\ graph.sites[w[k + 1]].owner = graph.sites[w[k]].name
    BY <2>1 DEF WalkFrom
  <2>4. k # 1 => t[k - 1] = w[k]
    <3>1. k # 1 => k - 1 \in 1 .. Len(t) /\ (k - 1) + 1 = k
      BY <1>1, <1>3
    <3> QED
      BY <1>3, <3>1
  <2> QED
    BY <2>2, <2>3, <2>4
<1>5. WalkFrom(graph, graph.sites[w[1]].name, t)
  BY <1>3, <1>4 DEF WalkFrom
<1>6. Len(w) = Len(t) + 1
  BY <1>1, <1>3
<1> QED
  BY <1>2, <1>5, <1>6 DEF t

\* A name leads to itself and to what its references lead to.
LEMMA ReachedByReferences ==
  ASSUME NEW graph, IsGraph(graph), NEW name \in Met(graph)
  PROVE  \A n : n \in Reached(graph, name) <=>
            n = name \/ \E i \in EdgesOf(graph, name) : Leads(graph, i) /\ n \in Reached(graph, graph.sites[i].name)
<1> DEFINE S == {name} \cup UNION {Reached(graph, graph.sites[i].name) : i \in {e \in EdgesOf(graph, name) : Leads(graph, e)}}
<1>0. \A i \in graph.edges : graph.sites[i].name \in Met(graph)
  BY MetIsFinite
<1>1. S \in SUBSET Met(graph)
  <2>1. \A i \in EdgesOf(graph, name) : Reached(graph, graph.sites[i].name) \subseteq Met(graph)
    BY <1>0, ReachedIsLeast DEF EdgesOf
  <2> QED
    BY <2>1
<1>2. Closed(graph, S)
  <2> SUFFICES ASSUME NEW e \in graph.edges, graph.sites[e].owner \in S, Leads(graph, e)
               PROVE  graph.sites[e].name \in S
    BY DEF Closed
  <2>1. CASE graph.sites[e].owner = name
    <3>1. e \in EdgesOf(graph, name) /\ graph.sites[e].name \in Reached(graph, graph.sites[e].name)
      BY <2>1, <1>0, ReachedIsLeast DEF EdgesOf
    <3> QED
      BY <3>1
  <2>2. CASE graph.sites[e].owner # name
    <3>1. PICK i \in EdgesOf(graph, name) : Leads(graph, i) /\ graph.sites[e].owner \in Reached(graph, graph.sites[i].name)
      BY <2>2
    <3>2. Closed(graph, Reached(graph, graph.sites[i].name))
      BY <1>0, ReachedIsLeast DEF EdgesOf
    <3>3. graph.sites[e].name \in Reached(graph, graph.sites[i].name)
      BY <3>1, <3>2 DEF Closed
    <3> QED
      BY <3>1, <3>3
  <2> QED
    BY <2>1, <2>2
<1>3. Reached(graph, name) \subseteq S
  <2> HIDE DEF S
  <2>1. name \in S
    BY DEF S
  <2> QED
    BY <1>1, <1>2, <2>1, ReachedIsLeast
<1>4. ASSUME NEW i \in EdgesOf(graph, name), Leads(graph, i)
      PROVE  Reached(graph, graph.sites[i].name) \subseteq Reached(graph, name)
  <2>1. graph.sites[i].name \in Reached(graph, name)
    BY <1>4, ReachedIsLeast DEF Closed, EdgesOf
  <2> QED
    BY <2>1, ReachedOnward
<1>5. name \in Reached(graph, name)
  BY ReachedIsLeast
<1> QED
  BY <1>3, <1>4, <1>5

\* A name that leads to none of the active ones, nor into a cycle, has its longest walk.
Free(graph, A, name) == Reached(graph, name) \cap A = {} /\ Safe(graph, name)

LongestIs(graph, A, name, r) ==
  /\ r \in LongestStates(graph)
  /\ r.ok <=> Free(graph, A, name)
  /\ r.ok => WalkFrom(graph, name, r.path) /\ \A w : WalkFrom(graph, name, w) => Len(w) <= Len(r.path)

\* So far, when the references of a name up to an index are followed.
LongestBy(graph, A, name, i, s) ==
  /\ s \in LongestStates(graph)
  /\ s.ok <=> \A e \in EdgesOf(graph, name) : e <= i /\ Leads(graph, e) => Free(graph, A, graph.sites[e].name)
  /\ s.ok => /\ WalkFrom(graph, name, s.path)
             /\ \A w : WalkFrom(graph, name, w) /\ w # <<>> /\ w[1] <= i => Len(w) <= Len(s.path)

LEMMA LongestOn ==
  ASSUME NEW graph, IsGraph(graph), NEW A, NEW row,
         \A n \in Met(graph) : LongestIs(graph, A, n, row[n]),
         NEW name, NEW i \in 1 .. Len(graph.sites), NEW s, LongestBy(graph, A, name, i - 1, s)
  PROVE  LongestBy(graph, A, name, i, Followed(graph, EdgesOf(graph, name), Better(graph, row), i, s))
<1> DEFINE t == Followed(graph, EdgesOf(graph, name), Better(graph, row), i, s)
           to == graph.sites[i].name
           u == row[to]
<1>0. /\ s \in LongestStates(graph) /\ i \in Nat /\ \A e \in EdgesOf(graph, name) : e \in Nat
      /\ \A k \in Nat : (k <= i <=> k <= i - 1 \/ k = i) /\ (k <= i - 1 => k <= i)
  BY DEF LongestBy, EdgesOf, IsGraph
<1>1. CASE ~(i \in EdgesOf(graph, name) /\ Leads(graph, i))
  <2>1. t = s
    BY <1>1 DEF Followed
  <2>2. s.ok <=> \A e \in EdgesOf(graph, name) : e <= i /\ Leads(graph, e) => Free(graph, A, graph.sites[e].name)
    <3>1. \A e \in EdgesOf(graph, name) : Leads(graph, e) => (e <= i <=> e <= i - 1)
      BY <1>0, <1>1
    <3> QED
      BY <3>1 DEF LongestBy
  <2>3. ASSUME s.ok, NEW w, WalkFrom(graph, name, w), w # <<>>, w[1] <= i PROVE Len(w) <= Len(s.path)
    <3>1. w[1] \in EdgesOf(graph, name) /\ Leads(graph, w[1])
      BY <2>3, WalkComesFrom
    <3>2. w[1] <= i - 1
      BY <1>0, <1>1, <2>3, <3>1
    <3> QED
      BY <2>3, <3>2 DEF LongestBy
  <2>4. s.ok => WalkFrom(graph, name, s.path)
    BY DEF LongestBy
  <2>5. LongestBy(graph, A, name, i, s)
    BY <1>0, <2>2, <2>3, <2>4 DEF LongestBy
  <2> HIDE DEF t
  <2> QED
    BY <2>1, <2>5 DEF t
<1>2. CASE i \in EdgesOf(graph, name) /\ Leads(graph, i)
  <2>1. i \in graph.edges /\ to \in Met(graph) /\ graph.sites[i].owner = name
    BY <1>2, MetIsFinite DEF EdgesOf
  <2>2. LongestIs(graph, A, to, u)
    BY <2>1
  <2>3. t = IF ~s.ok THEN s
            ELSE IF ~u.ok THEN u
            ELSE IF Len(u.path) + 1 > Len(s.path) THEN [s EXCEPT !.path = <<i>> \o u.path]
            ELSE s
    BY <1>0, <1>2, <2>1 DEF Followed, Better
  <2> HIDE DEF t, u
  <2>4. (\A e \in EdgesOf(graph, name) : e <= i /\ Leads(graph, e) => Free(graph, A, graph.sites[e].name))
           <=> s.ok /\ u.ok
    <3>1. u.ok <=> Free(graph, A, to)
      BY <2>2 DEF LongestIs
    <3>2. s.ok <=> \A e \in EdgesOf(graph, name) : e <= i - 1 /\ Leads(graph, e) => Free(graph, A, graph.sites[e].name)
      BY DEF LongestBy
    <3>3. \A e \in EdgesOf(graph, name) : e <= i <=> e <= i - 1 \/ e = i
      BY <1>0
    <3> QED
      BY <1>2, <3>1, <3>2, <3>3
  <2>5. CASE ~s.ok
    <3>1. t = s
      BY <2>3, <2>5
    <3>2. LongestBy(graph, A, name, i, s)
      BY <1>0, <2>4, <2>5 DEF LongestBy
    <3> QED
      BY <3>1, <3>2 DEF t
  <2>6. CASE s.ok /\ ~u.ok
    <3>1. t = u /\ u \in LongestStates(graph)
      BY <2>2, <2>3, <2>6 DEF LongestIs
    <3>2. LongestBy(graph, A, name, i, u)
      BY <2>4, <2>6, <3>1 DEF LongestBy
    <3> QED
      BY <3>1, <3>2 DEF t
  <2>7. CASE s.ok /\ u.ok
    <3> DEFINE l == <<i>> \o u.path
    <3>1. /\ WalkFrom(graph, to, u.path) /\ u.path \in Seq(graph.edges) /\ Len(u.path) \in Nat
          /\ \A w : WalkFrom(graph, to, w) => Len(w) <= Len(u.path)
      BY <2>2, <2>7, WalkHas DEF LongestIs
    <3>2. WalkFrom(graph, name, l) /\ Len(l) = Len(u.path) + 1
      BY <1>2, <2>1, <3>1, WalkGoesOn
    <3>3. WalkFrom(graph, name, s.path) /\ Len(s.path) \in Nat
      BY <2>7, WalkHas DEF LongestBy
    <3> HIDE DEF l
    <3>4. ASSUME NEW w, WalkFrom(graph, name, w), w # <<>>, w[1] <= i
          PROVE  Len(w) <= Len(s.path) \/ Len(w) <= Len(l)
      <4>1. /\ w[1] \in EdgesOf(graph, name) /\ WalkFrom(graph, graph.sites[w[1]].name, Tail(w))
            /\ Len(w) = Len(Tail(w)) + 1
        BY <3>4, WalkComesFrom
      <4>2. CASE w[1] = i
        <5>1. Len(Tail(w)) <= Len(u.path) /\ Len(Tail(w)) \in Nat
          BY <3>1, <4>1, <4>2, WalkHas
        <5> QED
          BY <3>1, <3>2, <4>1, <5>1
      <4>3. CASE w[1] # i
        <5>1. w[1] <= i - 1
          BY <1>0, <3>4, <4>1, <4>3
        <5> QED
          BY <2>7, <3>4, <5>1 DEF LongestBy
      <4> QED
        BY <4>2, <4>3
    <3>5. CASE Len(u.path) + 1 > Len(s.path)
      <4>1. t = [s EXCEPT !.path = l]
        BY <2>3, <2>7, <3>5 DEF l
      <4>2. l \in Seq(graph.edges)
        BY <3>2, WalkHas
      <4>3. t \in LongestStates(graph) /\ t.ok /\ t.path = l
        BY <1>0, <2>7, <4>1, <4>2 DEF LongestStates
      <4>4. ASSUME NEW w, WalkFrom(graph, name, w), w # <<>>, w[1] <= i PROVE Len(w) <= Len(l)
        <5>1. Len(w) \in Nat
          BY <4>4, WalkHas
        <5> QED
          BY <5>1, <4>4, <3>1, <3>2, <3>3, <3>4, <3>5
      <4>5. LongestBy(graph, A, name, i, t)
        BY <2>4, <2>7, <3>2, <4>3, <4>4 DEF LongestBy
      <4> QED
        BY <4>5 DEF t
    <3>6. CASE ~(Len(u.path) + 1 > Len(s.path))
      <4>1. t = s
        BY <2>3, <2>7, <3>6
      <4>2. ASSUME NEW w, WalkFrom(graph, name, w), w # <<>>, w[1] <= i PROVE Len(w) <= Len(s.path)
        <5>1. Len(w) \in Nat
          BY <4>2, WalkHas
        <5> QED
          BY <5>1, <4>2, <3>1, <3>2, <3>3, <3>4, <3>6
      <4>3. LongestBy(graph, A, name, i, s)
        BY <1>0, <2>4, <2>7, <3>3, <4>2 DEF LongestBy
      <4> QED
        BY <4>1, <4>3 DEF t
    <3> QED
      BY <3>5, <3>6
  <2> QED
    BY <2>5, <2>6, <2>7
<1> QED
  BY <1>1, <1>2

LEMMA FreeByReferences ==
  ASSUME NEW graph, IsGraph(graph), NEW A, NEW name \in Met(graph)
  PROVE  Free(graph, A, name) <=>
            /\ name \notin A
            /\ \A e \in EdgesOf(graph, name) : Leads(graph, e) => Free(graph, A \cup {name}, graph.sites[e].name)
<1>0. \A n : n \in Reached(graph, name) <=>
            n = name \/ \E i \in EdgesOf(graph, name) : Leads(graph, i) /\ n \in Reached(graph, graph.sites[i].name)
  BY ReachedByReferences
<1>1. ASSUME Free(graph, A, name) PROVE name \notin A
  BY <1>0, <1>1 DEF Free
<1>2. ASSUME Free(graph, A, name), NEW e \in EdgesOf(graph, name), Leads(graph, e)
      PROVE  Free(graph, A \cup {name}, graph.sites[e].name)
  <2>1. Reached(graph, graph.sites[e].name) \subseteq Reached(graph, name)
    BY <1>0, <1>2
  <2>2. e \in graph.edges /\ graph.sites[e].owner = name /\ name \in Reached(graph, name)
    BY <1>0 DEF EdgesOf
  <2>3. name \notin Reached(graph, graph.sites[e].name)
    BY <1>2, <2>2 DEF Free, Safe
  <2>4. Safe(graph, graph.sites[e].name)
    BY <1>2, <2>1 DEF Free, Safe
  <2>5. Reached(graph, graph.sites[e].name) \cap (A \cup {name}) = {}
    BY <1>2, <2>1, <2>3 DEF Free
  <2> QED
    BY <2>4, <2>5 DEF Free
<1>3. ASSUME name \notin A,
             \A e \in EdgesOf(graph, name) : Leads(graph, e) => Free(graph, A \cup {name}, graph.sites[e].name)
      PROVE  Free(graph, A, name)
  <2>1. Reached(graph, name) \cap A = {}
    <3> SUFFICES ASSUME NEW n \in Reached(graph, name), n \in A PROVE FALSE
      OBVIOUS
    <3>1. PICK i \in EdgesOf(graph, name) : Leads(graph, i) /\ n \in Reached(graph, graph.sites[i].name)
      BY <1>0, <1>3
    <3> QED
      BY <1>3, <3>1 DEF Free
  <2>2. Safe(graph, name)
    <3> SUFFICES ASSUME NEW n \in Reached(graph, name), NEW i \in graph.edges,
                        graph.sites[i].owner = n, Leads(graph, i)
                 PROVE  n \notin Reached(graph, graph.sites[i].name)
      BY DEF Safe
    <3>1. CASE n = name
      <4>1. i \in EdgesOf(graph, name)
        BY <3>1 DEF EdgesOf
      <4>2. Reached(graph, graph.sites[i].name) \cap (A \cup {name}) = {}
        BY <4>1, <1>3 DEF Free
      <4> QED
        BY <3>1, <4>2
    <3>2. CASE n # name
      <4>1. PICK e \in EdgesOf(graph, name) : Leads(graph, e) /\ n \in Reached(graph, graph.sites[e].name)
        BY <1>0, <3>2
      <4>2. Safe(graph, graph.sites[e].name)
        BY <4>1, <1>3 DEF Free
      <4> QED
        BY <4>1, <4>2 DEF Safe
    <3> QED
      BY <3>1, <3>2
  <2> QED
    BY <2>1, <2>2 DEF Free
<1> QED
  BY <1>1, <1>2, <1>3

LEMMA LongestIsLongest ==
  ASSUME NEW graph, IsGraph(graph), NEW name \in Met(graph)
  PROVE  LET r == Longest(graph)[name]
         IN  /\ r.ok <=> Safe(graph, name)
             /\ r.ok => WalkFrom(graph, name, r.path) /\ \A w : WalkFrom(graph, name, w) => Len(w) <= Len(r.path)
<1>1. PICK v : /\ \A A \in SUBSET Met(graph) : v[A] = LongestRow(graph, v, A)
               /\ Longest(graph) = v[{}]
  BY LongestUnfolds
<1> DEFINE D == Met(graph)
           T == {A \in SUBSET D : \A n \in D : LongestIs(graph, A, n, v[A][n])}
<1>2. ASSUME NEW A \in SUBSET D, \A B \in SUBSET D : A \subseteq B /\ A # B => B \in T
      PROVE  A \in T
  <2> SUFFICES ASSUME NEW n \in D PROVE LongestIs(graph, A, n, v[A][n])
    OBVIOUS
  <2> DEFINE r == v[A][n]
             B == A \cup {n}
             start == [ok |-> TRUE, path |-> <<>>]
             turn == InTurn(graph, EdgesOf(graph, n), Better(graph, v[B]), start)
             P == [i \in 0 .. Len(graph.sites) |-> {s \in LongestStates(graph) : LongestBy(graph, B, n, i, s)}]
  <2>0. Len(graph.sites) \in Nat /\ graph.edges \subseteq 1 .. Len(graph.sites)
    BY DEF IsGraph
  <2>1. r = IF n \in A THEN [ok |-> FALSE, path |-> <<>>] ELSE turn
    <3>1. v[A] = LongestRow(graph, v, A)
      BY <1>1
    <3> QED
      BY <3>1 DEF LongestRow
  <2>2. CASE n \in A
    <3>1. ~Free(graph, A, n)
      BY <2>2, FreeByReferences
    <3>2. r = [ok |-> FALSE, path |-> <<>>]
      BY <2>1, <2>2
    <3>3. r \in LongestStates(graph) /\ ~r.ok
      BY <3>2 DEF LongestStates
    <3> HIDE DEF r
    <3> QED
      BY <3>1, <3>3 DEF LongestIs, r
  <2>3. CASE n \notin A
    <3>0. \A m \in D : LongestIs(graph, B, m, v[B][m])
      <4>1. B \in SUBSET D /\ A \subseteq B /\ A # B
        BY <2>3
      <4>2. B \in T
        <5> HIDE DEF T, B
        <5> QED
          BY <4>1, <1>2
      <4> QED
        BY <4>2
    <3> HIDE DEF B
    <3>1. start \in P[0]
      <4>1. 0 \in 0 .. Len(graph.sites) /\ \A e \in graph.edges : ~(e <= 0)
        BY <2>0
      <4>2. start \in LongestStates(graph) /\ start.ok /\ start.path = <<>>
        BY DEF LongestStates
      <4>3. WalkFrom(graph, n, <<>>)
        <5>1. Len(<<>>) = 0 /\ <<>> \in Seq(graph.edges) /\ 1 .. 0 = {}
          OBVIOUS
        <5> QED
          BY <5>1 DEF WalkFrom
      <4>4. ASSUME NEW w, WalkFrom(graph, n, w), w # <<>>, w[1] <= 0 PROVE FALSE
        BY <4>1, <4>4, WalkHas
      <4> HIDE DEF start
      <4>5. LongestBy(graph, B, n, 0, start)
        BY <4>1, <4>2, <4>3, <4>4 DEF LongestBy, EdgesOf
      <4> QED
        BY <4>1, <4>2, <4>5
    <3>2. ASSUME NEW i \in 1 .. Len(graph.sites), NEW s \in P[i - 1]
          PROVE  Followed(graph, EdgesOf(graph, n), Better(graph, v[B]), i, s) \in P[i]
      <4>1. i - 1 \in 0 .. Len(graph.sites) /\ i \in 0 .. Len(graph.sites)
        BY <2>0
      <4>2. LongestBy(graph, B, n, i - 1, s)
        BY <4>1
      <4>3. LongestBy(graph, B, n, i, Followed(graph, EdgesOf(graph, n), Better(graph, v[B]), i, s))
        BY <3>0, <4>2, LongestOn
      <4>4. Followed(graph, EdgesOf(graph, n), Better(graph, v[B]), i, s) \in LongestStates(graph)
        BY <4>3 DEF LongestBy
      <4> QED
        BY <4>1, <4>3, <4>4
    <3>3. turn \in P[Len(graph.sites)]
      <4> HIDE DEF P, start
      <4> QED
        BY <3>1, <3>2, InTurnKeeps
    <3>4. LongestBy(graph, B, n, Len(graph.sites), turn)
      <4>1. Len(graph.sites) \in 0 .. Len(graph.sites)
        BY <2>0
      <4> HIDE DEF turn
      <4> QED
        BY <4>1, <3>3
    <3>5. \A e \in graph.edges : e <= Len(graph.sites)
      BY <2>0
    <3>6. r = turn
      BY <2>1, <2>3
    <3> HIDE DEF turn, r
    <3>7. turn.ok <=> Free(graph, A, n)
      <4>1. turn.ok <=> \A e \in EdgesOf(graph, n) : Leads(graph, e) => Free(graph, B, graph.sites[e].name)
        BY <3>4, <3>5 DEF LongestBy, EdgesOf
      <4>2. Free(graph, A, n) <=> \A e \in EdgesOf(graph, n) : Leads(graph, e) => Free(graph, B, graph.sites[e].name)
        BY <2>3, FreeByReferences DEF B
      <4> QED
        BY <4>1, <4>2
    <3>8. ASSUME turn.ok, NEW w, WalkFrom(graph, n, w) PROVE Len(w) <= Len(turn.path)
      <4>1. CASE w = <<>>
        <5>1. Len(turn.path) \in Nat
          BY <3>4, <3>8, WalkHas DEF LongestBy
        <5>2. Len(w) = 0
          BY <4>1
        <5> QED
          BY <5>1, <5>2
      <4>2. CASE w # <<>>
        <5>1. w[1] <= Len(graph.sites)
          BY <3>5, <3>8, <4>2, WalkHas
        <5> QED
          BY <3>4, <3>8, <4>2, <5>1 DEF LongestBy
      <4> QED
        BY <4>1, <4>2
    <3>9. LongestIs(graph, A, n, turn)
      BY <3>4, <3>7, <3>8 DEF LongestIs, LongestBy
    <3> QED
      BY <3>6, <3>9 DEF r
  <2> QED
    BY <2>2, <2>3
<1>3. {} \in T
  <2>1. SUBSET D \subseteq T
    <3> HIDE DEF T, D
    <3> QED
      BY <1>2, InductionFromMore, MetIsFinite DEF D
  <2> QED
    BY <2>1
<1> DEFINE r == v[{}][name]
<1>4. LongestIs(graph, {}, name, r)
  BY <1>3
<1>5. Free(graph, {}, name) <=> Safe(graph, name)
  BY DEF Free
<1> HIDE DEF r
<1>6. /\ r.ok <=> Safe(graph, name)
      /\ r.ok => WalkFrom(graph, name, r.path) /\ \A w : WalkFrom(graph, name, w) => Len(w) <= Len(r.path)
  BY <1>4, <1>5 DEF LongestIs
<1> QED
  BY <1>1, <1>6 DEF r

LEMMA ChainIsWalk ==
  ASSUME NEW graph, NEW c
  PROVE  Chained(graph, c) <=>
            /\ WalkFrom(graph, NoName, c)
            /\ \A k \in 1 .. Len(c) : \A j \in 1 .. k - 1 : graph.sites[c[j]].name # graph.sites[c[k]].name
BY DEF Chained, WalkFrom

\* What a walk passes leads to what it comes to.
LEMMA WalkLeads ==
  ASSUME NEW graph, IsGraph(graph), NEW name, NEW w, WalkFrom(graph, name, w), NEW j \in 1 .. Len(w)
  PROVE  \A k \in j .. Len(w) : graph.sites[w[k]].name \in Reached(graph, graph.sites[w[j]].name)
<1>0. Len(w) \in Nat /\ \A k \in 1 .. Len(w) : w[k] \in graph.edges /\ graph.sites[w[k]].name \in Met(graph)
  BY WalkHas, MetIsFinite
<1> DEFINE R == Reached(graph, graph.sites[w[j]].name)
           T == {m \in Nat : m \in j .. Len(w) => graph.sites[w[m]].name \in R}
<1>1. graph.sites[w[j]].name \in R /\ Closed(graph, R)
  BY <1>0, ReachedIsLeast
<1> HIDE DEF R
<1>2. 0 \in T
  <2>1. ~(0 \in j .. Len(w))
    BY <1>0
  <2> QED
    BY <2>1
<1>3. ASSUME NEW m \in Nat, m \in T PROVE m + 1 \in T
  <2> SUFFICES ASSUME m + 1 \in j .. Len(w) PROVE graph.sites[w[m + 1]].name \in R
    OBVIOUS
  <2>1. CASE m + 1 = j
    BY <1>1, <2>1
  <2>2. CASE m + 1 # j
    <3>1. m \in j .. Len(w) /\ m + 1 \in 1 .. Len(w) /\ m + 1 # 1 /\ (m + 1) - 1 = m
      BY <1>0, <2>2
    <3>2. graph.sites[w[m]].name \in R
      BY <1>3, <3>1
    <3>3. graph.sites[w[m + 1]].owner = graph.sites[w[m]].name /\ Leads(graph, w[m + 1])
      BY <3>1 DEF WalkFrom
    <3> QED
      BY <1>0, <1>1, <3>1, <3>2, <3>3 DEF Closed
  <2> QED
    BY <2>1, <2>2
<1>4. Nat \subseteq T
  <2> HIDE DEF T
  <2> QED
    BY <1>2, <1>3, SetInduction
<1>5. \A k \in j .. Len(w) : graph.sites[w[k]].name \in R
  <2> TAKE k \in j .. Len(w)
  <2>1. k \in Nat
    BY <1>0
  <2> QED
    BY <2>1, <1>4
<1> QED
  BY <1>5 DEF R

LEMMA SafeWalkIsChain ==
  ASSUME NEW graph, IsGraph(graph), NEW c, WalkFrom(graph, NoName, c), c # <<>>,
         Safe(graph, graph.sites[c[1]].name)
  PROVE  Chained(graph, c)
<1>0. /\ Len(c) \in Nat /\ 1 \in 1 .. Len(c)
      /\ \A k \in 1 .. Len(c) : c[k] \in graph.edges
  BY WalkHas
<1> SUFFICES ASSUME NEW k \in 1 .. Len(c), NEW j \in 1 .. k - 1,
                    graph.sites[c[j]].name = graph.sites[c[k]].name
             PROVE  FALSE
  BY ChainIsWalk
<1>1. j \in 1 .. Len(c) /\ j + 1 \in 1 .. Len(c) /\ k \in (j + 1) .. Len(c) /\ j + 1 # 1 /\ (j + 1) - 1 = j
  BY <1>0
<1>2. graph.sites[c[j]].name \in Reached(graph, graph.sites[c[1]].name)
  BY <1>0, <1>1, WalkLeads
<1>3. graph.sites[c[k]].name \in Reached(graph, graph.sites[c[j + 1]].name)
  BY <1>1, WalkLeads
<1>4. c[j + 1] \in graph.edges /\ graph.sites[c[j + 1]].owner = graph.sites[c[j]].name /\ Leads(graph, c[j + 1])
  BY <1>0, <1>1 DEF WalkFrom
<1> QED
  BY <1>2, <1>3, <1>4 DEF Safe

\* A chain is deep when it has that many links, and its root runs into no cycle.
LEMMA DeepChainsAreDeep ==
  ASSUME NEW graph, IsGraph(graph)
  PROVE  DeepChains(graph) # {} <=>
            \E c \in Chains(graph) : Len(c) >= DeepChain /\ Safe(graph, graph.sites[c[1]].name)
<1> DEFINE path(i) == Longest(graph)[graph.sites[i].name].path
           ok(i) == Longest(graph)[graph.sites[i].name].ok
           deep == {r \in {i \in Roots(graph) : Leads(graph, i)} : ok(r) /\ Len(path(r)) + 1 >= DeepChain}
<1>1. DeepChains(graph) # {} <=> deep # {}
  BY DEF DeepChains
<1>2. ASSUME NEW r \in deep
      PROVE  \E c \in Chains(graph) : Len(c) >= DeepChain /\ Safe(graph, graph.sites[c[1]].name)
  <2>1. /\ r \in graph.edges /\ graph.sites[r].owner = NoName /\ Leads(graph, r)
        /\ ok(r) /\ Len(path(r)) + 1 >= DeepChain
    BY DEF Roots, EdgesOf
  <2>2. graph.sites[r].name \in Met(graph)
    BY <2>1, MetIsFinite
  <2>3. Safe(graph, graph.sites[r].name) /\ WalkFrom(graph, graph.sites[r].name, path(r))
    BY <2>1, <2>2, LongestIsLongest
  <2> DEFINE c == <<r>> \o path(r)
  <2>4. WalkFrom(graph, NoName, c) /\ Len(c) = Len(path(r)) + 1 /\ c[1] = r
    BY <2>1, <2>3, WalkGoesOn
  <2>5. Len(path(r)) \in Nat
    BY <2>3, WalkHas
  <2> HIDE DEF c
  <2>6. c # <<>>
    BY <2>4, <2>5
  <2>7. c \in Chains(graph)
    BY <2>3, <2>4, <2>6, SafeWalkIsChain, ChainsAre
  <2>8. Len(c) >= DeepChain
    BY <2>1, <2>4
  <2> QED
    BY <2>3, <2>4, <2>7, <2>8
<1>3. ASSUME NEW c \in Chains(graph), Len(c) >= DeepChain, Safe(graph, graph.sites[c[1]].name)
      PROVE  c[1] \in deep
  <2>1. WalkFrom(graph, NoName, c) /\ c # <<>>
    BY ChainsAre, ChainIsWalk
  <2>2. /\ c[1] \in EdgesOf(graph, NoName) /\ Leads(graph, c[1])
        /\ WalkFrom(graph, graph.sites[c[1]].name, Tail(c)) /\ Len(c) = Len(Tail(c)) + 1
    BY <2>1, WalkComesFrom
  <2>3. graph.sites[c[1]].name \in Met(graph)
    BY <2>2, MetIsFinite DEF EdgesOf
  <2>4. ok(c[1])
    BY <1>3, <2>3, LongestIsLongest
  <2>5. WalkFrom(graph, graph.sites[c[1]].name, path(c[1])) /\ Len(Tail(c)) <= Len(path(c[1]))
    BY <2>2, <2>3, <2>4, LongestIsLongest
  <2>6. Len(path(c[1])) \in Nat /\ Len(Tail(c)) \in Nat
    BY <2>2, <2>5, WalkHas
  <2>7. Len(path(c[1])) + 1 >= DeepChain
    <3> DEFINE a == Len(Tail(c))  b == Len(path(c[1]))  l == Len(c)
    <3>1. a \in Nat /\ b \in Nat /\ l = a + 1 /\ a <= b /\ l >= DeepChain /\ DeepChain \in Nat
      BY <1>3, <2>2, <2>5, <2>6, DeepChainAssumption
    <3> HIDE DEF a, b, l
    <3>2. b + 1 >= DeepChain
      BY <3>1
    <3> QED
      BY <3>2 DEF b
  <2> QED
    BY <2>2, <2>4, <2>7 DEF Roots
<1> QED
  BY <1>1, <1>2, <1>3

RunsIntoCycle(graph, c) ==
  \E n \in Reached(graph, graph.sites[c[1]].name) : \E i \in graph.edges :
     /\ graph.sites[i].owner = n /\ Leads(graph, i) /\ n \in Reached(graph, graph.sites[i].name)

LEMMA GraphsAreGraphs ==
  ASSUME NEW view, IsSeq(view.references), NEW command
  PROVE  LET g == ExpansionGraph(view, command)
         IN  /\ IsGraph(g) /\ g.sites = view.references
             /\ DeepChains(g) \subseteq g.edges
<1> DEFINE g == ExpansionGraph(view, command)
<1>1. g.sites = view.references /\ g.edges \subseteq DOMAIN view.references
  BY DEF ExpansionGraph
<1>2. Len(view.references) \in Nat /\ DOMAIN view.references = 1 .. Len(view.references)
  BY IsSeqHas
<1> HIDE DEF g
<1>3. IsGraph(g)
  BY <1>1, <1>2 DEF IsGraph
<1>4. ASSUME NEW i \in Roots(g), Leads(g, i), Longest(g)[g.sites[i].name].ok, Longest(g)[g.sites[i].name].path # <<>>
      PROVE  Last(Longest(g)[g.sites[i].name].path) \in g.edges
  <2> DEFINE p == Longest(g)[g.sites[i].name].path
  <2>1. g.sites[i].name \in Met(g)
    BY <1>3, MetIsFinite DEF Roots, EdgesOf
  <2>2. WalkFrom(g, g.sites[i].name, p)
    BY <1>3, <1>4, <2>1, LongestIsLongest
  <2> HIDE DEF p
  <2>3. p # <<>>
    BY <1>4 DEF p
  <2>4. Len(p) \in 1 .. Len(p) /\ p[Len(p)] \in g.edges
    BY <2>2, <2>3, WalkHas
  <2>5. Last(p) \in g.edges
    BY <2>4 DEF Last
  <2> QED
    BY <2>5 DEF p
<1>5. DeepChains(g) \subseteq g.edges
  BY <1>4 DEF DeepChains, Roots, EdgesOf
<1> QED
  BY <1>1, <1>3, <1>5 DEF g

-----------------------------------------------------------------------------
(***************************************************************************)
(* The findings of a view: references at one place have one name, for a    *)
(* path has one text.                                                      *)
(***************************************************************************)

\* The text that a view reads at each path, and at one more.
TextsOf(buffers, graph, p) ==
  [at \in DOMAIN buffers \cup DOMAIN graph.files \cup {p} |->
      IF at \in DOMAIN buffers THEN buffers[at] ELSE graph.files[at]]

LEMMA CollectIsRead ==
  ASSUME NEW buffers, OpenHolds(buffers), NEW graph, GraphFine(graph), NEW p,
         NEW visits, IsCollects(visits, buffers, graph)
  PROVE  \A active \in SUBSET Loaded(graph) : \A f \in Loaded(graph) :
            SitesHold(TextsOf(buffers, graph, p), visits[active][f])
<1> DEFINE D == Loaded(graph)
           texts == TextsOf(buffers, graph, p)
           T == {A \in SUBSET D : \A f \in D : SitesHold(texts, visits[A][f])}
<1>0. IsSeq(graph.imports)
  BY DEF GraphFine
<1>1. ASSUME NEW A \in SUBSET D, \A x \in D \ A : A \cup {x} \in T PROVE A \in T
  <2> SUFFICES ASSUME NEW file \in D PROVE SitesHold(texts, visits[A][file])
    OBVIOUS
  <2> DEFINE at == SourceOf(buffers, graph, file)
             w == visits[A \cup {file}]
  <2>1. visits[A][file] = CollectFile(buffers, graph, w, A, file)
    BY DEF IsCollects, CollectRow
  <2>2. CASE file \in A
    BY <2>1, <2>2, NothingHolds DEF CollectFile, Nothing
  <2>3. ASSUME file \notin A PROVE \A f \in Loaded(graph) : SitesHold(texts, w[f])
    BY <1>1, <2>3
  <2>4. CASE file \notin A /\ OpenAt(buffers, graph, file) # {}
    <3>1. at \in DOMAIN buffers
      BY <2>4 DEF SourceOf, OpenAt
    <3>2. buffers[at] \in Contents[Link[at]] /\ Link[at] \in Files
      BY <3>1, PathsAssumption DEF OpenHolds
    <3>3. PlacedAt(texts, at, buffers[at])
      BY <3>1, <3>2 DEF PlacedAt, IsText, TextsOf
    <3>4. visits[A][file] = CollectText(graph, w, at, buffers[at])
      BY <2>1, <2>4 DEF CollectFile
    <3> HIDE DEF at, w, texts
    <3> QED
      BY <1>0, <2>3, <2>4, <3>3, <3>4, TextIsPlaced
  <2>5. CASE file \notin A /\ OpenAt(buffers, graph, file) = {} /\ file \in DOMAIN graph.files
    <3>1. at = file
      BY <2>5 DEF SourceOf
    <3>2. file \notin DOMAIN buffers
      BY <2>5, ReadFileIsItself DEF OpenAt
    <3>3. PlacedAt(texts, file, graph.files[file])
      BY <2>5, <3>2 DEF PlacedAt, IsText, GraphFine, TextsOf
    <3>4. visits[A][file] = CollectText(graph, w, file, graph.files[file])
      BY <2>1, <2>5, <3>1 DEF CollectFile
    <3> HIDE DEF at, w, texts
    <3> QED
      BY <1>0, <2>3, <2>5, <3>3, <3>4, TextIsPlaced
  <2>6. CASE file \notin A /\ OpenAt(buffers, graph, file) = {} /\ file \notin DOMAIN graph.files
    BY <2>1, <2>6, NothingHolds DEF CollectFile
  <2> QED
    BY <2>2, <2>4, <2>5, <2>6
<1>2. IsFiniteSet(D)
  BY DEF GraphFine
<1>3. SUBSET D \subseteq T
  <2> HIDE DEF D, T
  <2> QED
    BY <1>1, <1>2, DownInduction
<1> QED
  BY <1>3

LEMMA WorkspaceViewIsRead ==
  ASSUME NEW buffers, OpenHolds(buffers), NEW graph, GraphFine(graph), NEW p
  PROVE  SitesHold(TextsOf(buffers, graph, p), WorkspaceView(buffers, graph))
<1> DEFINE texts == TextsOf(buffers, graph, p)
<1>1. PICK visits : /\ IsCollects(visits, buffers, graph)
                    /\ \A active \in SUBSET Loaded(graph) : Visiting(buffers, graph, active) = visits[active]
  BY CollectsUnfold DEF GraphFine
<1>2. \A active \in SUBSET Loaded(graph) : \A f \in Loaded(graph) :
         SitesHold(texts, Visiting(buffers, graph, active)[f])
  BY <1>1, CollectIsRead
<1>3. CASE graph.rootFile # NoFile
  <2>1. graph.rootFile \in Loaded(graph)
    BY DEF Loaded
  <2>2. SitesHold(texts, Visiting(buffers, graph, {})[graph.rootFile])
    BY <1>2, <2>1
  <2> QED
    BY <1>3, <2>2, FinishedHolds DEF WorkspaceView
<1>4. CASE graph.rootFile = NoFile /\ graph.problems = {} /\ graph.root /\ Root \in DOMAIN buffers
  <2> DEFINE w == Visiting(buffers, graph, {Root})
  <2>1. {Root} \in SUBSET Loaded(graph)
    BY DEF Loaded
  <2>2. \A f \in Loaded(graph) : SitesHold(texts, w[f])
    BY <1>2, <2>1
  <2>3. PlacedAt(texts, Root, buffers[Root])
    BY <1>4, PathsAssumption DEF OpenHolds, PlacedAt, IsText, TextsOf
  <2>4. SitesHold(texts, CollectText(graph, w, Root, buffers[Root]))
    <3> HIDE DEF w, texts
    <3> QED
      BY <2>2, <2>3, TextIsPlaced DEF GraphFine
  <2>5. WorkspaceView(buffers, graph) = Finished(graph, CollectText(graph, w, Root, buffers[Root]))
    BY <1>4 DEF WorkspaceView
  <2> HIDE DEF w
  <2> QED
    BY <2>4, <2>5, FinishedHolds
<1>5. CASE graph.rootFile = NoFile /\ ~(graph.problems = {} /\ graph.root /\ Root \in DOMAIN buffers)
  <2>1. WorkspaceView(buffers, graph) = Finished(graph, Nothing)
    BY <1>5 DEF WorkspaceView
  <2> QED
    BY <2>1, NothingHolds, FinishedHolds DEF Nothing
<1> QED
  BY <1>3, <1>4, <1>5

\* References of a view that are at one place have one name.
OneNameAPlace(sites) == \A i, j \in DOMAIN sites : sites[i].at = sites[j].at => sites[i].name = sites[j].name

LEMMA PlacesHaveOneName ==
  ASSUME NEW buffers, OpenHolds(buffers), NEW graph, GraphFine(graph)
  PROVE  OneNameAPlace(WorkspaceView(buffers, graph).references)
<1> DEFINE sites == WorkspaceView(buffers, graph).references
<1> SUFFICES ASSUME NEW i \in DOMAIN sites, NEW j \in DOMAIN sites, sites[i].at = sites[j].at
             PROVE  sites[i].name = sites[j].name
  BY DEF OneNameAPlace
<1>1. PICK p : p = sites[i].at[1]
  OBVIOUS
<1>2. PICK lines : lines = TextsOf(buffers, graph, p)[p]
  OBVIOUS
<1>3. SitesHold(TextsOf(buffers, graph, p), WorkspaceView(buffers, graph))
  BY WorkspaceViewIsRead
<1>4. sites[i] \in ToSet(sites) /\ sites[j] \in ToSet(sites)
  BY DEF ToSet
<1>5. p \in DOMAIN TextsOf(buffers, graph, p)
  BY DEF TextsOf
<1>6. ASSUME NEW s \in ToSet(sites), s.at[1] = p PROVE IsText(lines) /\ ReferredIn(s, p, lines)
  <2> HIDE DEF sites
  <2>1. PICK l : PlacedAt(TextsOf(buffers, graph, p), s.at[1], l) /\ ReferredIn(s, s.at[1], l)
    BY <1>3, <1>6 DEF SitesHold, sites
  <2>2. l = lines
    BY <1>2, <1>5, <1>6, <2>1 DEF PlacedAt
  <2> QED
    BY <1>6, <2>1, <2>2 DEF PlacedAt
<1> HIDE DEF sites
<1>7. /\ sites[i].name = Referenced(lines[sites[i].at[2]], sites[i].at[3])
      /\ sites[j].name = Referenced(lines[sites[j].at[2]], sites[j].at[3])
  BY <1>1, <1>4, <1>6, ReferenceSays
<1> QED
  BY <1>7

\* The places of some references of a view, by their kind of finding.
Sites(view, kind, edges) == {[at |-> view.references[i].at, kind |-> kind] : i \in edges}

LEMMA FindingsAre ==
  ASSUME NEW view, view.ready
  PROVE  Findings(view) = UNION {Sites(view, "cycle", Cycles(ExpansionGraph(view, c)))
                                   \cup Sites(view, "repeated", Repetitions(ExpansionGraph(view, c)))
                                   \cup Sites(view, "deep", DeepChains(ExpansionGraph(view, c))) : c \in Expanded}
BY DEF Findings, Sites

LEMMA FoundByKind ==
  ASSUME NEW view, view.ready
  PROVE  /\ \A at : (\E f \in Findings(view) : f.kind = "cycle" /\ f.at = at) <=>
              \E c \in Expanded : \E i \in Cycles(ExpansionGraph(view, c)) : view.references[i].at = at
         /\ \A at : [at |-> at, kind |-> "repeated"] \in Findings(view) <=>
              \E c \in Expanded : \E i \in Repetitions(ExpansionGraph(view, c)) : view.references[i].at = at
         /\ (\E f \in Findings(view) : f.kind = "deep") <=>
              \E c \in Expanded : DeepChains(ExpansionGraph(view, c)) # {}
<1>1. ASSUME NEW f
      PROVE  f \in Findings(view) <=>
               \E c \in Expanded : \/ f \in Sites(view, "cycle", Cycles(ExpansionGraph(view, c)))
                                   \/ f \in Sites(view, "repeated", Repetitions(ExpansionGraph(view, c)))
                                   \/ f \in Sites(view, "deep", DeepChains(ExpansionGraph(view, c)))
  BY FindingsAre
<1>2. ASSUME NEW kind, NEW edges, NEW f \in Sites(view, kind, edges)
      PROVE  f.kind = kind /\ \E i \in edges : f.at = view.references[i].at
  BY DEF Sites
<1>3. ASSUME NEW kind, NEW edges, NEW i \in edges
      PROVE  [at |-> view.references[i].at, kind |-> kind] \in Sites(view, kind, edges)
  BY DEF Sites
<1>4. ASSUME NEW f \in Findings(view), f.kind = "cycle"
      PROVE  \E c \in Expanded : \E i \in Cycles(ExpansionGraph(view, c)) : f.at = view.references[i].at
  BY <1>1, <1>2, <1>4
<1>5. ASSUME NEW c \in Expanded, NEW i \in Cycles(ExpansionGraph(view, c))
      PROVE  \E f \in Findings(view) : f.kind = "cycle" /\ f.at = view.references[i].at
  <2>1. [at |-> view.references[i].at, kind |-> "cycle"] \in Findings(view)
    BY <1>1, <1>3
  <2> QED
    BY <2>1
<1>6. ASSUME NEW f \in Findings(view), f.kind = "repeated"
      PROVE  \E c \in Expanded : \E i \in Repetitions(ExpansionGraph(view, c)) : f.at = view.references[i].at
  BY <1>1, <1>2, <1>6
<1>7. ASSUME NEW c \in Expanded, NEW i \in Repetitions(ExpansionGraph(view, c))
      PROVE  [at |-> view.references[i].at, kind |-> "repeated"] \in Findings(view)
  BY <1>1, <1>3
<1>8. ASSUME NEW f \in Findings(view), f.kind = "deep"
      PROVE  \E c \in Expanded : DeepChains(ExpansionGraph(view, c)) # {}
  BY <1>1, <1>2, <1>8
<1>9. ASSUME NEW c \in Expanded, NEW i \in DeepChains(ExpansionGraph(view, c))
      PROVE  \E f \in Findings(view) : f.kind = "deep"
  <2>1. [at |-> view.references[i].at, kind |-> "deep"] \in Findings(view)
    BY <1>1, <1>3
  <2> QED
    BY <2>1
<1> QED
  BY <1>4, <1>5, <1>6, <1>7, <1>8, <1>9

\* The names that two chains end at, said of the chains.
LEMMA TwiceAre ==
  ASSUME NEW graph, IsGraph(graph)
  PROVE  Twice(graph, Chains(graph)) =
           {n \in graph.definitions :
              \E c, d \in Chains(graph) : /\ c # d /\ graph.sites[Last(c)].name = n
                                          /\ graph.sites[Last(d)].name = n}
<1>1. ASSUME NEW c \in Chains(graph)
      PROVE  /\ Tip(graph, c) = graph.sites[Last(c)].name
             /\ graph.sites[Last(c)].name \in graph.definitions
  <2>1. Chained(graph, c) /\ c # <<>>
    BY <1>1, ChainsAre
  <2>2. Len(c) \in 1 .. Len(c)
    BY <2>1, ChainedHas
  <2>3. Leads(graph, c[Len(c)])
    BY <2>1, <2>2 DEF Chained
  <2> QED
    BY <2>1, <2>3 DEF Tip, Last, Leads
<1> QED
  BY <1>1 DEF Twice

\* What a view has is in findings what expansion means.
FindingsFollow(view) ==
  LET all  == {ExpansionGraph(view, c) : c \in Expanded}
      site(i) == view.references[i].at
      cycles == UNION {{site(i) : i \in {j \in g.edges :
                            /\ g.sites[j].owner # NoName /\ Leads(g, j)
                            /\ g.sites[j].owner \in Reached(g, g.sites[j].name)}} : g \in all}
      many == UNION {{n \in g.definitions :
                         \E c, d \in Chains(g) : /\ c # d /\ g.sites[Last(c)].name = n
                                                 /\ g.sites[Last(d)].name = n} : g \in all}
      deep == \E g \in all : \E c \in Chains(g) : Len(c) >= DeepChain /\ ~RunsIntoCycle(g, c)
      found == Findings(view)
  IN  /\ {f.at : f \in {g \in found : g.kind = "cycle"}} = cycles
      /\ {view.references[i].name : i \in {j \in DOMAIN view.references :
              [at |-> site(j), kind |-> "repeated"] \in found}} = many
      /\ (\E f \in found : f.kind = "deep") <=> deep

LEMMA ViewsFindingsFollow ==
  ASSUME NEW view, view.ready, IsSeq(view.references), OneNameAPlace(view.references)
  PROVE  FindingsFollow(view)
<1> DEFINE G(c) == ExpansionGraph(view, c)
           site(i) == view.references[i].at
           found == Findings(view)
           cyclic(g) == {j \in g.edges : /\ g.sites[j].owner # NoName /\ Leads(g, j)
                                         /\ g.sites[j].owner \in Reached(g, g.sites[j].name)}
           twice(g) == {n \in g.definitions :
                           \E c, d \in Chains(g) : /\ c # d /\ g.sites[Last(c)].name = n
                                                   /\ g.sites[Last(d)].name = n}
           names == {view.references[i].name : i \in {j \in DOMAIN view.references :
                        [at |-> site(j), kind |-> "repeated"] \in found}}
<1>1. ASSUME NEW c \in Expanded
      PROVE  /\ IsGraph(G(c)) /\ G(c).sites = view.references /\ G(c).edges \subseteq DOMAIN view.references
             /\ Cycles(G(c)) = cyclic(G(c))
             /\ Repetitions(G(c)) \subseteq G(c).edges
             /\ NamesOf(G(c), Repetitions(G(c))) = twice(G(c))
  <2>1. IsGraph(G(c)) /\ G(c).sites = view.references
    BY GraphsAreGraphs
  <2>2. G(c).edges \subseteq DOMAIN view.references
    BY <2>1 DEF IsGraph
  <2> HIDE DEF G
  <2> QED
    BY <2>1, <2>2, CyclesAreCycles, RepetitionsAreRepeated, TwiceAre
<1>2. {f.at : f \in {g \in found : g.kind = "cycle"}}
        = UNION {{site(i) : i \in cyclic(g)} : g \in {G(c) : c \in Expanded}}
  <2>1. ASSUME NEW at
        PROVE  (\E f \in found : f.kind = "cycle" /\ f.at = at) <=>
                 \E c \in Expanded : \E i \in cyclic(G(c)) : site(i) = at
    <3>1. (\E f \in found : f.kind = "cycle" /\ f.at = at) <=>
             \E c \in Expanded : \E i \in Cycles(G(c)) : site(i) = at
      <4>1. (\E f \in Findings(view) : f.kind = "cycle" /\ f.at = at) <=>
              \E c \in Expanded : \E i \in Cycles(ExpansionGraph(view, c)) : view.references[i].at = at
        BY FoundByKind
      <4>2. found = Findings(view) /\ \A c \in Expanded : G(c) = ExpansionGraph(view, c)
        OBVIOUS
      <4>3. \A i : site(i) = view.references[i].at
        OBVIOUS
      <4> HIDE DEF cyclic, twice, names, G, site, found
      <4> QED
        BY <4>1, <4>2, <4>3
    <3> HIDE DEF G, cyclic, found
    <3> QED
      BY <1>1, <3>1
  <2> HIDE DEF G, cyclic, found, site
  <2> QED
    BY <2>1
<1>3. names = UNION {twice(g) : g \in {G(c) : c \in Expanded}}
  <2>1. ASSUME NEW j \in DOMAIN view.references, [at |-> site(j), kind |-> "repeated"] \in found
        PROVE  \E c \in Expanded : view.references[j].name \in twice(G(c))
    <3>1. PICK c \in Expanded : \E i \in Repetitions(G(c)) : site(i) = site(j)
      BY <2>1, FoundByKind
    <3>2. PICK i \in Repetitions(G(c)) : site(i) = site(j)
      BY <3>1
    <3> HIDE DEF G, twice
    <3>3. i \in DOMAIN view.references
      BY <1>1, <3>2
    <3>4. view.references[j].name = view.references[i].name
      BY <2>1, <3>2, <3>3 DEF OneNameAPlace
    <3>5. view.references[i].name \in NamesOf(G(c), Repetitions(G(c)))
      BY <1>1, <3>2 DEF NamesOf
    <3> QED
      BY <1>1, <3>4, <3>5
  <2>2. ASSUME NEW c \in Expanded, NEW n \in twice(G(c)) PROVE n \in names
    <3>1. PICK i \in Repetitions(G(c)) : n = view.references[i].name
      <4> HIDE DEF G, twice
      <4> QED
        BY <1>1, <2>2 DEF NamesOf
    <3>2. i \in DOMAIN view.references
      <4> HIDE DEF G, twice
      <4> QED
        BY <1>1, <3>1
    <3>3. [at |-> site(i), kind |-> "repeated"] \in found
      BY <3>1, FoundByKind
    <3> QED
      BY <3>1, <3>2, <3>3
  <2>3. \A n \in names : \E c \in Expanded : n \in twice(G(c))
    <3> HIDE DEF G, twice, found, site
    <3> QED
      BY <2>1
  <2> HIDE DEF G, twice, names
  <2> QED
    BY <2>2, <2>3
<1>4. (\E f \in found : f.kind = "deep") <=>
         \E g \in {G(c) : c \in Expanded} : \E c \in Chains(g) : Len(c) >= DeepChain /\ ~RunsIntoCycle(g, c)
  <2>1. ASSUME NEW c \in Expanded
        PROVE  DeepChains(G(c)) # {} <=>
                 \E w \in Chains(G(c)) : Len(w) >= DeepChain /\ ~RunsIntoCycle(G(c), w)
    <3>1. \A w \in Chains(G(c)) : Safe(G(c), G(c).sites[w[1]].name) <=> ~RunsIntoCycle(G(c), w)
      BY DEF Safe, RunsIntoCycle
    <3> HIDE DEF G
    <3> QED
      BY <1>1, <3>1, DeepChainsAreDeep
  <2>2. (\E f \in found : f.kind = "deep") <=> \E c \in Expanded : DeepChains(G(c)) # {}
    BY FoundByKind
  <2> HIDE DEF G, found
  <2> QED
    BY <2>1, <2>2
<1> HIDE DEF found
<1> QED
  BY <1>2, <1>3, <1>4 DEF FindingsFollow, found

\* The findings of the workspace are what expansion means, whatever is open and
\* whichever graph was adopted: a reference is reported as a cycle exactly where
\* what it names leads back to its owner, a configuration as repeated exactly when
\* two chains expand it, and a chain as deep exactly when there is one from a root
\* that runs into no cycle (src/src/bazelrc/expansion.rs).
THEOREM FindingsAlwaysFollow == Spec => []FindingsFollowExpansion
<1>1. WorkspaceHolds(saved, open, snapshot, catalog) => FindingsFollowExpansion
  <2> SUFFICES ASSUME WorkspaceHolds(saved, open, snapshot, catalog), WorkspaceView(open, snapshot).ready
               PROVE  FindingsFollow(WorkspaceView(open, snapshot))
    BY DEF FindingsFollowExpansion, FindingsFollow, RunsIntoCycle
  <2>1. OpenHolds(open) /\ GraphFine(snapshot)
    BY GraphsAreFine DEF WorkspaceHolds
  <2>2. IsSeq(WorkspaceView(open, snapshot).references)
    BY <2>1, WorkspaceViewIsPlaced DEF SitesHold
  <2> QED
    BY <2>1, <2>2, PlacesHaveOneName, ViewsFindingsFollow
<1> QED
  BY <1>1, WorkspaceStaysGood, PTL
=============================================================================
