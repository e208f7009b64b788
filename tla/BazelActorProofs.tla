-------------------------- MODULE BazelActorProofs --------------------------
(***************************************************************************)
(* Theorems about the Bazel thread, for every set of configurations and    *)
(* every number of messages, edits and Bazel commands; first the lemmas    *)
(* they rest on, about what the queue operators of Mailbox return.         *)
(***************************************************************************)
EXTENDS BazelActor, DataProofs

-----------------------------------------------------------------------------
(* coalesce_refreshes and drain *)

\* Coalescing keeps messages of the queue, and every kind of message that the
\* queue holds: a refresh goes only because another one follows it.
LEMMA CoalesceKeeps ==
  ASSUME NEW q \in Seq(Message)
  PROVE  /\ CoalesceRefreshes(q) \in Seq(Message)
         /\ \A kinds : Holds(CoalesceRefreshes(q), kinds) <=> Holds(q, kinds)
<1> DEFINE c == CoalesceRefreshes(q)
           I == Kept(q)
           R == {i \in DOMAIN q : q[i].kind = "refresh"}
<1>1. I \in SUBSET (DOMAIN q)
  BY DEF Kept
<1>2. /\ c \in Seq(Message)
      /\ \A k \in DOMAIN c : \E i \in I : c[k] = q[i]
      /\ \A i \in I : Rank(I, i) \in DOMAIN c /\ c[Rank(I, i)] = q[i]
  BY <1>1, RetainKeeps DEF CoalesceRefreshes
<1>3. ASSUME NEW kinds, Holds(c, kinds)
      PROVE  Holds(q, kinds)
  BY <1>1, <1>2, <1>3 DEF Holds
<1>4. ASSUME NEW kinds, Holds(q, kinds)
      PROVE  Holds(c, kinds)
  <2>1. PICK i \in DOMAIN q : q[i].kind \in kinds
    BY <1>4 DEF Holds
  <2>2. \E j \in I : q[j].kind = q[i].kind
    <3>1. CASE q[i].kind # "refresh"
      BY <3>1 DEF Kept
    <3>2. CASE q[i].kind = "refresh"
      <4>1. R \in SUBSET Nat /\ IsFiniteSet(R) /\ R # {}
        <5>1. DOMAIN q = 1..Len(q) /\ Len(q) \in Nat
          OBVIOUS
        <5>2. IsFiniteSet(1..Len(q))
          BY <5>1, FS_Interval
        <5> QED BY <5>1, <5>2, <3>2, FS_Subset
      <4>2. PICK j \in R : \A l \in R : ~(l > j)
        BY <4>1, LastPosition
      <4>3. j \in I
        BY <4>2 DEF Kept
      <4> QED BY <4>2, <4>3, <3>2
    <3> QED BY <3>1, <3>2
  <2> HIDE DEF I, c
  <2> QED BY <2>1, <2>2, <1>2 DEF Holds
<1> QED BY <1>2, <1>3, <1>4

\* What two queues hold, one after the other.
LEMMA HoldsConcat ==
  ASSUME NEW S, NEW q \in Seq(S), NEW r \in Seq(S), NEW kinds
  PROVE  Holds(q \o r, kinds) <=> Holds(q, kinds) \/ Holds(r, kinds)
<1> DEFINE s == q \o r
           m == Len(q)
           n == Len(r)
<1>1. /\ m \in Nat /\ n \in Nat
      /\ DOMAIN q = 1..m /\ DOMAIN r = 1..n /\ DOMAIN s = 1..(m + n)
      /\ \A i \in 1..m : s[i] = q[i]
      /\ \A i \in 1..n : s[m + i] = r[i]
  OBVIOUS
<1> HIDE DEF s, m, n
<1>2. ASSUME NEW i \in DOMAIN s, s[i].kind \in kinds
      PROVE  Holds(q, kinds) \/ Holds(r, kinds)
  <2>1. CASE i <= m
    <3>1. i \in DOMAIN q /\ s[i] = q[i]
      BY <1>1, <2>1
    <3> QED BY <1>2, <3>1 DEF Holds
  <2>2. CASE i > m
    <3>1. i - m \in 1..n /\ m + (i - m) = i
      BY <1>1, <2>2
    <3>2. i - m \in DOMAIN r /\ s[i] = r[i - m]
      BY <1>1, <3>1
    <3> QED BY <1>2, <3>2 DEF Holds
  <2> QED BY <1>1, <2>1, <2>2
<1>3. ASSUME NEW i \in DOMAIN q
      PROVE  i \in DOMAIN s /\ s[i] = q[i]
  BY <1>1
<1>4. ASSUME NEW i \in DOMAIN r
      PROVE  m + i \in DOMAIN s /\ s[m + i] = r[i]
  BY <1>1
<1>5. Holds(s, kinds) <=> Holds(q, kinds) \/ Holds(r, kinds)
  BY <1>2, <1>3, <1>4 DEF Holds
<1> QED BY <1>5 DEF s

LEMMA MessageTypes ==
  /\ Stop \in Message /\ Refresh \in Message
  /\ \A n \in Nat : Run(n) \in Message
  /\ \A c \in Configs, n \in Nat : Configure(c, n) \in Message
BY DEF Message, Kinds, Stop, Refresh, Run, Configure

\* Draining keeps every kind of message, unless a Stop leaves only itself.
LEMMA DrainKeeps ==
  ASSUME NEW q \in Seq(Message), NEW r \in Seq(Message)
  PROVE  /\ Drain(q, r) \in Seq(Message)
         /\ Holds(q \o r, {"stop"}) => Drain(q, r) = <<Stop>>
         /\ \A kinds : "stop" \in kinds =>
              (Holds(Drain(q, r), kinds) <=> Holds(q, kinds) \/ Holds(r, kinds))
<1>1. q \o r \in Seq(Message)
  OBVIOUS
<1>2. CASE Holds(q \o r, {"stop"})
  <2>1. Drain(q, r) = <<Stop>>
    BY <1>2 DEF Drain
  <2>2. \A kinds : "stop" \in kinds => Holds(<<Stop>>, kinds)
    BY DEF Holds, Stop
  <2>3. \A kinds : "stop" \in kinds => Holds(q \o r, kinds)
    BY <1>2 DEF Holds
  <2> QED BY <2>1, <2>2, <2>3, HoldsConcat, MessageTypes
<1>3. CASE ~Holds(q \o r, {"stop"})
  <2>1. Drain(q, r) = CoalesceRefreshes(q \o r)
    BY <1>3 DEF Drain
  <2>2. /\ CoalesceRefreshes(q \o r) \in Seq(Message)
        /\ \A kinds : Holds(CoalesceRefreshes(q \o r), kinds) <=> Holds(q \o r, kinds)
    BY <1>1, CoalesceKeeps
  <2>3. \A kinds : Holds(q \o r, kinds) <=> Holds(q, kinds) \/ Holds(r, kinds)
    BY HoldsConcat
  <2> QED BY <1>3, <2>1, <2>2, <2>3
<1> QED BY <1>2, <1>3

\* A superseded refresh leaves a refresh or a stop, and takes nothing away.
LEMMA PreserveKeeps ==
  ASSUME NEW q \in Seq(Message)
  PROVE  /\ PreserveRefresh(q) \in Seq(Message)
         /\ Holds(PreserveRefresh(q), {"refresh", "stop"})
         /\ \A kinds : Holds(q, kinds) => Holds(PreserveRefresh(q), kinds)
<1>1. CASE Holds(q, {"refresh", "stop"})
  BY <1>1 DEF PreserveRefresh
<1>2. CASE ~Holds(q, {"refresh", "stop"})
  <2>1. PreserveRefresh(q) = q \o <<Refresh>>
    <3>1. PreserveRefresh(q) = Append(q, Refresh)
      BY <1>2 DEF PreserveRefresh
    <3> QED BY <3>1, MessageTypes
  <2>2. <<Refresh>> \in Seq(Message)
    BY MessageTypes
  <2>3. Holds(<<Refresh>>, {"refresh", "stop"})
    BY DEF Holds, Refresh
  <2>4. \A kinds : Holds(q \o <<Refresh>>, kinds) <=> Holds(q, kinds) \/ Holds(<<Refresh>>, kinds)
    BY <2>2, HoldsConcat
  <2> QED BY <2>1, <2>2, <2>3, <2>4
<1> QED BY <1>1, <1>2

-----------------------------------------------------------------------------
(* The configuration that a queue ends with *)

\* The last Configure of q sends c.
LastAsk(q, c) ==
    \E i \in DOMAIN q :
        /\ q[i].kind = "configure" /\ q[i].config = c
        /\ \A j \in DOMAIN q : j > i => q[j].kind # "configure"

\* It is the last one of a second queue, or of the first if the second has none.
LEMMA LastAskConcat ==
  ASSUME NEW S, NEW q \in Seq(S), NEW r \in Seq(S), NEW c
  PROVE  /\ LastAsk(q \o r, c) => \/ LastAsk(r, c)
                                  \/ LastAsk(q, c) /\ ~Holds(r, {"configure"})
         /\ LastAsk(q, c) /\ ~Holds(r, {"configure"}) => LastAsk(q \o r, c)
         /\ LastAsk(r, c) => LastAsk(q \o r, c)
<1> DEFINE s == q \o r
           m == Len(q)
           n == Len(r)
<1>1. /\ m \in Nat /\ n \in Nat
      /\ DOMAIN q = 1..m /\ DOMAIN r = 1..n /\ DOMAIN s = 1..(m + n)
      /\ \A i \in 1..m : s[i] = q[i]
      /\ \A i \in 1..n : s[m + i] = r[i]
  OBVIOUS
<1> HIDE DEF s, m, n
<1>2. ASSUME NEW i \in DOMAIN s, s[i].kind = "configure", s[i].config = c,
             \A j \in DOMAIN s : j > i => s[j].kind # "configure"
      PROVE  LastAsk(r, c) \/ (LastAsk(q, c) /\ ~Holds(r, {"configure"}))
  <2>1. CASE i <= m
    <3>1. i \in DOMAIN q /\ q[i] = s[i]
      BY <1>1, <2>1
    <3>2. ASSUME NEW j \in DOMAIN q, j > i
          PROVE  q[j].kind # "configure"
      BY <1>1, <1>2, <3>2
    <3>3. ASSUME NEW j \in DOMAIN r
          PROVE  r[j].kind # "configure"
      <4>1. m + j \in DOMAIN s /\ m + j > i /\ s[m + j] = r[j]
        BY <1>1, <2>1
      <4> QED BY <1>2, <4>1
    <3> QED BY <1>2, <3>1, <3>2, <3>3 DEF LastAsk, Holds
  <2>2. CASE i > m
    <3>1. i - m \in DOMAIN r /\ r[i - m] = s[i]
      <4>1. i - m \in 1..n /\ m + (i - m) = i
        BY <1>1, <2>2
      <4> QED BY <1>1, <4>1
    <3>2. ASSUME NEW j \in DOMAIN r, j > i - m
          PROVE  r[j].kind # "configure"
      <4>1. m + j \in DOMAIN s /\ m + j > i /\ s[m + j] = r[j]
        BY <1>1, <2>2, <3>2
      <4> QED BY <1>2, <4>1
    <3> QED BY <1>2, <3>1, <3>2 DEF LastAsk
  <2> QED BY <1>1, <2>1, <2>2
<1>3. ASSUME NEW i \in DOMAIN q, q[i].kind = "configure", q[i].config = c,
             \A j \in DOMAIN q : j > i => q[j].kind # "configure",
             ~Holds(r, {"configure"})
      PROVE  LastAsk(s, c)
  <2>1. i \in DOMAIN s /\ s[i] = q[i]
    BY <1>1
  <2>2. ASSUME NEW j \in DOMAIN s, j > i
        PROVE  s[j].kind # "configure"
    <3>1. CASE j <= m
      BY <1>1, <1>3, <2>2, <3>1
    <3>2. CASE j > m
      <4>1. j - m \in 1..n /\ m + (j - m) = j
        BY <1>1, <3>2
      <4>2. j - m \in DOMAIN r /\ s[j] = r[j - m]
        BY <1>1, <4>1
      <4> QED BY <1>3, <4>2 DEF Holds
    <3> QED BY <1>1, <3>1, <3>2
  <2> QED BY <1>3, <2>1, <2>2 DEF LastAsk
<1>4. ASSUME NEW i \in DOMAIN r, r[i].kind = "configure", r[i].config = c,
             \A j \in DOMAIN r : j > i => r[j].kind # "configure"
      PROVE  LastAsk(s, c)
  <2>1. m + i \in DOMAIN s /\ s[m + i] = r[i]
    BY <1>1
  <2>2. ASSUME NEW j \in DOMAIN s, j > m + i
        PROVE  s[j].kind # "configure"
    <3>1. j - m \in 1..n /\ m + (j - m) = j /\ j - m > i
      BY <1>1, <2>2
    <3>2. j - m \in DOMAIN r /\ s[j] = r[j - m]
      BY <1>1, <3>1
    <3> QED BY <1>4, <3>1, <3>2
  <2> QED BY <1>4, <2>1, <2>2 DEF LastAsk
<1> QED BY <1>2, <1>3, <1>4 DEF LastAsk, s

\* Draining and preserving refreshes leave it where it is.
LEMMA CoalesceLastAsk ==
  ASSUME NEW q \in Seq(Message), NEW c, LastAsk(CoalesceRefreshes(q), c)
  PROVE  LastAsk(q, c)
<1> DEFINE d == CoalesceRefreshes(q)
           I == Kept(q)
<1>1. I \in SUBSET (DOMAIN q) /\ DOMAIN q = 1..Len(q) /\ Len(q) \in Nat
  BY DEF Kept
<1>2. /\ \A k \in DOMAIN d : \E i \in I : Rank(I, i) = k /\ d[k] = q[i]
      /\ \A i \in I : Rank(I, i) \in DOMAIN d /\ d[Rank(I, i)] = q[i]
      /\ \A i, j \in I : i < j => Rank(I, i) < Rank(I, j)
  BY <1>1, RetainKeeps DEF CoalesceRefreshes
<1>3. \A j \in DOMAIN q : q[j].kind = "configure" => j \in I
  BY DEF Kept
<1> HIDE DEF d, I
<1>4. PICK k \in DOMAIN d :
        /\ d[k].kind = "configure" /\ d[k].config = c
        /\ \A l \in DOMAIN d : l > k => d[l].kind # "configure"
  BY DEF LastAsk, d
<1>5. PICK i \in I : Rank(I, i) = k /\ d[k] = q[i]
  BY <1>2
<1>6. ASSUME NEW j \in DOMAIN q, j > i
      PROVE  q[j].kind # "configure"
  <2>1. SUFFICES ASSUME q[j].kind = "configure"
                 PROVE  FALSE
    OBVIOUS
  <2>2. j \in I /\ i < j
    BY <1>1, <1>3, <1>6, <2>1
  <2>3. Rank(I, i) < Rank(I, j) /\ Rank(I, j) \in DOMAIN d /\ d[Rank(I, j)] = q[j]
    BY <1>2, <2>2
  <2>4. \A l \in DOMAIN d : k < l => d[l].kind # "configure"
    BY <1>4
  <2> QED BY <1>5, <2>1, <2>3, <2>4
<1> QED BY <1>1, <1>4, <1>5, <1>6 DEF LastAsk

LEMMA DrainLastAsk ==
  ASSUME NEW q \in Seq(Message), NEW r \in Seq(Message), NEW c,
         LastAsk(Drain(q, r), c)
  PROVE  LastAsk(q \o r, c)
<1>1. ~LastAsk(<<Stop>>, c)
  BY DEF LastAsk, Stop
<1>2. Drain(q, r) = CoalesceRefreshes(q \o r)
  BY <1>1 DEF Drain
<1>3. q \o r \in Seq(Message)
  OBVIOUS
<1> QED BY <1>2, <1>3, CoalesceLastAsk

LEMMA AppendLastAsk ==
  ASSUME NEW q \in Seq(Message), NEW m \in Message, NEW c, LastAsk(Append(q, m), c)
  PROVE  IF m.kind = "configure" THEN m.config = c ELSE LastAsk(q, c)
<1>1. Append(q, m) = q \o <<m>> /\ <<m>> \in Seq(Message)
  OBVIOUS
<1>2. LastAsk(<<m>>, c) => m.kind = "configure" /\ m.config = c
  BY DEF LastAsk
<1>3. m.kind = "configure" => Holds(<<m>>, {"configure"})
  BY DEF Holds
<1> QED BY <1>1, <1>2, <1>3, LastAskConcat

\* A refresh that is coalesced or preserved moves no configuration.
LEMMA RefreshLastAsk ==
  ASSUME NEW q \in Seq(Message), NEW c
  PROVE  /\ LastAsk(Append(q, Refresh), c) => LastAsk(q, c)
         /\ LastAsk(PreserveRefresh(q), c) => LastAsk(q, c)
<1>1. LastAsk(Append(q, Refresh), c) => LastAsk(q, c)
  <2>1. Refresh \in Message /\ Refresh.kind # "configure"
    BY MessageTypes DEF Refresh
  <2> QED BY <2>1, AppendLastAsk
<1> QED BY <1>1 DEF PreserveRefresh

-----------------------------------------------------------------------------
(* The order of the Configure and Run messages *)

\* Every Configure and Run has a number, and nothing else does.
Plain(m) == m.kind # "stop" /\ (m.id # 0 <=> m.kind \in {"configure", "run"})

Entry == Message \cup {NoMessage}

\* p holds the numbered messages of q, in the order of q, and no other.
SameAsks(p, q) ==
    /\ \A k \in DOMAIN p : p[k] \in {Refresh, NoMessage} \/ \E i \in DOMAIN q : q[i] = p[k]
    /\ \A i \in DOMAIN q : q[i].id # 0 => \E k \in DOMAIN p : p[k].id = q[i].id
    /\ \A k, l \in DOMAIN p : k < l /\ p[k].id # 0 /\ p[l].id # 0 =>
         \E i, j \in DOMAIN q : i < j /\ q[i].id = p[k].id /\ q[j].id = p[l].id

\* q holds the messages numbered from lo + 1 to hi, in that order.
InOrder(q, lo, hi) ==
    /\ lo <= hi
    /\ \A i \in DOMAIN q : Plain(q[i])
    /\ \A i \in DOMAIN q : q[i].id # 0 => q[i].id \in (lo + 1)..hi
    /\ \A n \in (lo + 1)..hi : \E i \in DOMAIN q : q[i].id = n
    /\ \A i, j \in DOMAIN q : i < j /\ q[i].id # 0 /\ q[j].id # 0 => q[i].id < q[j].id

\* What has no number.
LEMMA EntryTypes ==
  /\ \A m \in Entry : m.id \in Nat
  /\ Refresh \in Entry /\ NoMessage \in Entry /\ Plain(Refresh) /\ Plain(NoMessage)
  /\ Refresh.id = 0 /\ NoMessage.id = 0
BY MessageTypes DEF Entry, Message, NoMessage, Refresh, Plain

\* Where the entries of two queues are once the second follows the first.
LEMMA ConcatPlaces ==
  ASSUME NEW S, NEW p \in Seq(S), NEW r \in Seq(S)
  PROVE  /\ p \o r \in Seq(S)
         /\ \A i \in DOMAIN p : i \in DOMAIN (p \o r) /\ (p \o r)[i] = p[i]
         /\ \A x \in DOMAIN r : Len(p) + x \in DOMAIN (p \o r) /\ (p \o r)[Len(p) + x] = r[x]
         /\ \A k \in DOMAIN (p \o r) : k \in DOMAIN p \/ \E x \in DOMAIN r : k = Len(p) + x
         /\ \A i \in DOMAIN p, x \in DOMAIN r : i < Len(p) + x /\ ~(Len(p) + x < i)
         /\ \A x, y \in DOMAIN r : Len(p) + x < Len(p) + y <=> x < y
<1>1. /\ p \o r \in Seq(S) /\ Len(p) \in Nat /\ Len(r) \in Nat
      /\ DOMAIN p = 1..Len(p) /\ DOMAIN r = 1..Len(r) /\ DOMAIN (p \o r) = 1..(Len(p) + Len(r))
      /\ \A i \in 1..Len(p) : (p \o r)[i] = p[i]
      /\ \A i \in 1..Len(r) : (p \o r)[Len(p) + i] = r[i]
  OBVIOUS
<1>2. ASSUME NEW k \in 1..(Len(p) + Len(r)), k \notin 1..Len(p)
      PROVE  k - Len(p) \in 1..Len(r) /\ k = Len(p) + (k - Len(p))
  BY <1>1, <1>2
<1>3. \A i \in 1..Len(p) : i \in 1..(Len(p) + Len(r))
  BY <1>1
<1>4. \A x \in 1..Len(r) : Len(p) + x \in 1..(Len(p) + Len(r))
  BY <1>1
<1>5. \A i \in 1..Len(p), x \in 1..Len(r) : i < Len(p) + x /\ ~(Len(p) + x < i)
  BY <1>1
<1>6. \A x, y \in 1..Len(r) : Len(p) + x < Len(p) + y <=> x < y
  BY <1>1
<1> QED BY <1>1, <1>2, <1>3, <1>4, <1>5, <1>6

\* What holds the same asks is in the same order.
LEMMA SameInOrder ==
  ASSUME NEW p \in Seq(Entry), NEW q \in Seq(Entry), NEW lo \in Nat, NEW hi \in Nat,
         SameAsks(p, q), InOrder(q, lo, hi)
  PROVE  InOrder(p, lo, hi)
<1>1. \A k \in DOMAIN p : Plain(p[k])
  BY EntryTypes DEF SameAsks, InOrder
<1>2. \A k \in DOMAIN p : p[k].id # 0 => p[k].id \in (lo + 1)..hi
  BY EntryTypes DEF SameAsks, InOrder
<1>3. ASSUME NEW n \in (lo + 1)..hi
      PROVE  \E k \in DOMAIN p : p[k].id = n
  <2>1. n # 0
    OBVIOUS
  <2>2. PICK i \in DOMAIN q : q[i].id = n
    BY DEF InOrder
  <2> QED BY <2>1, <2>2 DEF SameAsks
<1>4. ASSUME NEW k \in DOMAIN p, NEW l \in DOMAIN p, k < l, p[k].id # 0, p[l].id # 0
      PROVE  p[k].id < p[l].id
  <2>1. PICK i \in DOMAIN q, j \in DOMAIN q : i < j /\ q[i].id = p[k].id /\ q[j].id = p[l].id
    BY <1>4 DEF SameAsks
  <2> QED BY <1>4, <2>1 DEF InOrder
<1> QED BY <1>1, <1>2, <1>3, <1>4 DEF InOrder

\* The same may follow both.
LEMMA SameConcat ==
  ASSUME NEW p \in Seq(Entry), NEW q \in Seq(Entry), NEW r \in Seq(Entry), SameAsks(p, q)
  PROVE  SameAsks(p \o r, q \o r)
<1> DEFINE s == p \o r
           t == q \o r
           in(x) == Len(p) + x
           out(x) == Len(q) + x
<1>1. /\ \A k \in DOMAIN p : k \in DOMAIN s /\ s[k] = p[k]
      /\ \A x \in DOMAIN r : in(x) \in DOMAIN s /\ s[in(x)] = r[x]
      /\ \A k \in DOMAIN s : k \in DOMAIN p \/ \E x \in DOMAIN r : k = in(x)
      /\ \A k \in DOMAIN p, x \in DOMAIN r : ~(in(x) < k)
      /\ \A x, y \in DOMAIN r : in(x) < in(y) => x < y
  BY ConcatPlaces, SMTT(30)
<1>2. /\ \A i \in DOMAIN q : i \in DOMAIN t /\ t[i] = q[i]
      /\ \A x \in DOMAIN r : out(x) \in DOMAIN t /\ t[out(x)] = r[x]
      /\ \A i \in DOMAIN t : i \in DOMAIN q \/ \E x \in DOMAIN r : i = out(x)
      /\ \A i \in DOMAIN q, x \in DOMAIN r : i < out(x)
      /\ \A x, y \in DOMAIN r : x < y => out(x) < out(y)
  BY ConcatPlaces, SMTT(30)
<1> HIDE DEF s, t, in, out
<1>3. ASSUME NEW k \in DOMAIN s
      PROVE  s[k] \in {Refresh, NoMessage} \/ \E i \in DOMAIN t : t[i] = s[k]
  BY <1>1, <1>2 DEF SameAsks
<1>4. ASSUME NEW i \in DOMAIN t, t[i].id # 0
      PROVE  \E k \in DOMAIN s : s[k].id = t[i].id
  <2>1. CASE i \in DOMAIN q
    <3>1. PICK k \in DOMAIN p : p[k].id = q[i].id
      BY <1>2, <1>4, <2>1 DEF SameAsks
    <3> QED BY <1>1, <1>2, <2>1, <3>1
  <2>2. CASE i \notin DOMAIN q
    <3>1. PICK x \in DOMAIN r : i = out(x)
      BY <1>2, <2>2
    <3> QED BY <1>1, <1>2, <3>1
  <2> QED BY <2>1, <2>2
<1>5. ASSUME NEW k \in DOMAIN s, NEW l \in DOMAIN s, k < l, s[k].id # 0, s[l].id # 0
      PROVE  \E i, j \in DOMAIN t : i < j /\ t[i].id = s[k].id /\ t[j].id = s[l].id
  <2>1. CASE k \in DOMAIN p /\ l \in DOMAIN p
    <3>1. s[k] = p[k] /\ s[l] = p[l]
      BY <1>1, <2>1
    <3>2. PICK i \in DOMAIN q, j \in DOMAIN q : i < j /\ q[i].id = p[k].id /\ q[j].id = p[l].id
      BY <1>5, <2>1, <3>1 DEF SameAsks
    <3> QED BY <1>2, <3>1, <3>2
  <2>2. CASE k \in DOMAIN p /\ l \notin DOMAIN p
    <3>1. PICK x \in DOMAIN r : l = in(x)
      BY <1>1, <2>2
    <3>2. p[k] \notin {Refresh, NoMessage} /\ s[k] = p[k]
      BY <1>1, <1>5, <2>2, EntryTypes
    <3>3. PICK i \in DOMAIN q : q[i] = p[k]
      BY <2>2, <3>2 DEF SameAsks
    <3> QED BY <1>1, <1>2, <3>1, <3>2, <3>3
  <2>3. CASE k \notin DOMAIN p
    <3>1. PICK x \in DOMAIN r : k = in(x)
      BY <1>1, <2>3
    <3>2. l \notin DOMAIN p
      BY <1>1, <1>5, <3>1
    <3>3. PICK y \in DOMAIN r : l = in(y)
      BY <1>1, <3>2
    <3>4. x < y
      BY <1>1, <1>5, <3>1, <3>3
    <3> QED BY <1>1, <1>2, <3>1, <3>3, <3>4
  <2> QED BY <2>1, <2>2, <2>3
<1>6. SameAsks(s, t)
  BY <1>3, <1>4, <1>5 DEF SameAsks
<1> QED BY <1>6 DEF s, t

\* Holding the same asks is transitive.
LEMMA SameTransitive ==
  ASSUME NEW p \in Seq(Entry), NEW q \in Seq(Entry), NEW r \in Seq(Entry),
         SameAsks(p, q), SameAsks(q, r)
  PROVE  SameAsks(p, r)
<1>1. \A k \in DOMAIN p : p[k] \in {Refresh, NoMessage} \/ \E i \in DOMAIN r : r[i] = p[k]
  BY DEF SameAsks
<1>2. \A i \in DOMAIN r : r[i].id # 0 => \E k \in DOMAIN p : p[k].id = r[i].id
  BY DEF SameAsks
<1>3. ASSUME NEW k \in DOMAIN p, NEW l \in DOMAIN p, k < l, p[k].id # 0, p[l].id # 0
      PROVE  \E i, j \in DOMAIN r : i < j /\ r[i].id = p[k].id /\ r[j].id = p[l].id
  <2>1. PICK i \in DOMAIN q, j \in DOMAIN q : i < j /\ q[i].id = p[k].id /\ q[j].id = p[l].id
    BY <1>3 DEF SameAsks
  <2> QED BY <1>3, <2>1 DEF SameAsks
<1> QED BY <1>1, <1>2, <1>3 DEF SameAsks

\* What has no number may be put at the end or taken from it.
LEMMA SameLast ==
  ASSUME NEW q \in Seq(Entry), NEW z \in {Refresh, NoMessage}
  PROVE  /\ q \o <<z>> \in Seq(Entry)
         /\ SameAsks(q \o <<z>>, q) /\ SameAsks(q, q \o <<z>>)
<1> DEFINE s == q \o <<z>>
           n == Len(q)
<1>1. z.id = 0 /\ z \in Entry
  BY EntryTypes
<1>2. /\ s \in Seq(Entry) /\ n \in Nat /\ DOMAIN q = 1..n /\ DOMAIN s = 1..(n + 1)
      /\ \A i \in 1..n : s[i] = q[i]
      /\ s[n + 1] = z
      /\ \A i \in 1..(n + 1) : i \in 1..n \/ i = n + 1
  BY <1>1
<1> HIDE DEF s, n
<1>3. \A i \in DOMAIN s : s[i].id # 0 => i \in DOMAIN q /\ s[i] = q[i]
  BY <1>1, <1>2
<1>4. \A i \in DOMAIN q : i \in DOMAIN s /\ s[i] = q[i]
  BY <1>2
<1>5. SameAsks(s, q)
  <2>1. \A i \in DOMAIN s : s[i] = z \/ (i \in DOMAIN q /\ q[i] = s[i])
    BY <1>2
  <2> QED BY <1>3, <1>4, <2>1 DEF SameAsks
<1>6. SameAsks(q, s)
  BY <1>3, <1>4 DEF SameAsks
<1> QED BY <1>2, <1>5, <1>6 DEF s

\* Coalescing refreshes leaves what has a number where it is.
LEMMA SameCoalesced ==
  ASSUME NEW q \in Seq(Message), \A i \in DOMAIN q : Plain(q[i])
  PROVE  SameAsks(CoalesceRefreshes(q), q)
<1> DEFINE d == CoalesceRefreshes(q)
           I == Kept(q)
<1>1. I \in SUBSET (DOMAIN q) /\ DOMAIN q = 1..Len(q) /\ Len(q) \in Nat
  BY DEF Kept
<1>2. /\ \A k \in DOMAIN d : \E i \in I : Rank(I, i) = k /\ d[k] = q[i]
      /\ \A i \in I : Rank(I, i) \in DOMAIN d /\ d[Rank(I, i)] = q[i]
      /\ \A i, j \in I : i < j => Rank(I, i) < Rank(I, j)
      /\ d \in Seq(Message)
  BY <1>1, RetainKeeps DEF CoalesceRefreshes
<1>3. \A i \in DOMAIN q : q[i].id # 0 => i \in I
  BY DEF Kept, Plain
<1> HIDE DEF d, I
<1>4. ASSUME NEW k \in DOMAIN d, NEW l \in DOMAIN d, k < l
      PROVE  \E i, j \in DOMAIN q : i < j /\ q[i] = d[k] /\ q[j] = d[l]
  <2>1. PICK i \in I : Rank(I, i) = k /\ d[k] = q[i]
    BY <1>2
  <2>2. PICK j \in I : Rank(I, j) = l /\ d[l] = q[j]
    BY <1>2
  <2>3. i \in Nat /\ j \in Nat /\ k \in Nat /\ l \in Nat
    BY <1>1, <1>2
  <2>4. ~(j < i) /\ i # j
    BY <1>2, <1>4, <2>1, <2>2, <2>3
  <2>5. i < j
    BY <2>3, <2>4
  <2> QED BY <1>1, <2>1, <2>2, <2>5
<1>5. \A k \in DOMAIN d : \E i \in DOMAIN q : q[i] = d[k]
  BY <1>1, <1>2
<1>6. \A i \in DOMAIN q : q[i].id # 0 => \E k \in DOMAIN d : d[k].id = q[i].id
  BY <1>2, <1>3
<1>7. SameAsks(d, q)
  <2>1. \A k, l \in DOMAIN d : k < l => \E i, j \in DOMAIN q : i < j /\ q[i] = d[k] /\ q[j] = d[l]
    BY <1>4
  <2>2. ASSUME NEW k \in DOMAIN d, NEW l \in DOMAIN d, k < l
        PROVE  \E i, j \in DOMAIN q : i < j /\ q[i].id = d[k].id /\ q[j].id = d[l].id
    BY <2>1, <2>2
  <2> QED BY <1>5, <1>6, <2>2 DEF SameAsks
<1> QED BY <1>7 DEF d

\* Nothing but messages without a number comes or goes.
LEMMA SameTail ==
  ASSUME NEW p \in Seq(Message), NEW q \in Seq(Message), NEW r \in Seq(Entry), SameAsks(p, q)
  PROVE  p \o r \in Seq(Entry) /\ q \o r \in Seq(Entry) /\ SameAsks(p \o r, q \o r)
<1>1. p \in Seq(Entry) /\ q \in Seq(Entry)
  BY DEF Entry
<1> QED BY <1>1, SameConcat

\* The first of a queue in order is the next number.
LEMMA HeadInOrder ==
  ASSUME NEW h \in Message, NEW q \in Seq(Entry), NEW lo \in Nat, NEW hi \in Nat,
         InOrder(<<h>> \o q, lo, hi)
  PROVE  /\ Plain(h)
         /\ h.kind \in {"configure", "run"} => InOrder(q, h.id, hi)
         /\ h.kind \notin {"configure", "run"} => InOrder(q, lo, hi)
<1> DEFINE s == <<h>> \o q
           n == Len(q)
<1>1. /\ n \in Nat /\ DOMAIN q = 1..n /\ DOMAIN s = 1..(n + 1)
      /\ s[1] = h
      /\ \A i \in 1..n : s[i + 1] = q[i]
      /\ \A i \in 1..(n + 1) : i = 1 \/ \E j \in 1..n : i = j + 1
  <2>1. <<h>> \in Seq(Entry) /\ Len(<<h>>) = 1 /\ DOMAIN <<h>> = {1}
    BY DEF Entry
  <2>2. n \in Nat /\ DOMAIN q = 1..n /\ DOMAIN s = 1..(n + 1) /\ s[1] = h
        /\ \A i \in 1..n : s[i + 1] = q[i]
    OBVIOUS
  <2>3. ASSUME NEW i \in 1..(n + 1), i # 1
        PROVE  i - 1 \in 1..n /\ i = (i - 1) + 1
    BY <2>2, <2>3
  <2> QED BY <2>2, <2>3
<1>2. \A i \in 1..n : i + 1 \in DOMAIN s /\ 1 < i + 1 /\ q[i].id \in Nat
  BY <1>1, EntryTypes
<1>3. 1 \in DOMAIN s /\ h.id \in Nat
  BY <1>1, EntryTypes DEF Entry
<1>4. InOrder(s, lo, hi)
  OBVIOUS
<1> HIDE DEF s, n
<1>5. Plain(h) /\ \A i \in DOMAIN q : Plain(q[i])
  BY <1>1, <1>2, <1>3, <1>4 DEF InOrder
<1>6. \A i, j \in DOMAIN q : i < j /\ q[i].id # 0 /\ q[j].id # 0 => q[i].id < q[j].id
  <2>1. ASSUME NEW i \in 1..n, NEW j \in 1..n, i < j, q[i].id # 0, q[j].id # 0
        PROVE  q[i].id < q[j].id
    <3>1. i + 1 < j + 1 /\ s[i + 1] = q[i] /\ s[j + 1] = q[j]
          /\ i + 1 \in DOMAIN s /\ j + 1 \in DOMAIN s
      BY <1>1, <1>2, <2>1
    <3>2. s[i + 1].id < s[j + 1].id
      BY <1>4, <2>1, <3>1 DEF InOrder
    <3> QED BY <3>1, <3>2
  <2> QED BY <1>1, <2>1
<1>7. \A i \in DOMAIN q : q[i].id # 0 => q[i].id \in (lo + 1)..hi
  <2>1. ASSUME NEW i \in 1..n, q[i].id # 0
        PROVE  q[i].id \in (lo + 1)..hi
    <3>1. s[i + 1] = q[i] /\ i + 1 \in DOMAIN s
      BY <1>1, <1>2
    <3> QED BY <1>4, <2>1, <3>1 DEF InOrder
  <2> QED BY <1>1, <2>1
<1>8. CASE h.kind \notin {"configure", "run"}
  <2>1. h.id = 0
    BY <1>5, <1>8 DEF Plain
  <2>2. ASSUME NEW k \in (lo + 1)..hi
        PROVE  \E i \in DOMAIN q : q[i].id = k
    <3>1. PICK i \in DOMAIN s : s[i].id = k
      BY <1>4 DEF InOrder
    <3>2. k # 0
      OBVIOUS
    <3>3. PICK j \in 1..n : i = j + 1
      BY <1>1, <2>1, <3>1, <3>2
    <3> QED BY <1>1, <3>1, <3>3
  <2>3. lo <= hi
    BY <1>4 DEF InOrder
  <2> QED BY <1>5, <1>6, <1>7, <1>8, <2>2, <2>3 DEF InOrder
<1>9. CASE h.kind \in {"configure", "run"}
  <2>1. h.id # 0
    BY <1>5, <1>9 DEF Plain
  <2>2. h.id \in (lo + 1)..hi
    BY <1>1, <1>3, <1>4, <2>1 DEF InOrder
  <2>3. \A i \in DOMAIN q : q[i].id # 0 => h.id < q[i].id
    <3>1. ASSUME NEW i \in 1..n, q[i].id # 0
          PROVE  h.id < q[i].id
      <4>1. s[i + 1].id # 0 /\ s[1].id # 0 /\ 1 < i + 1 /\ i + 1 \in DOMAIN s
        BY <1>1, <1>2, <2>1, <3>1
      <4>2. s[1].id < s[i + 1].id
        BY <1>3, <1>4, <4>1 DEF InOrder
      <4> QED BY <1>1, <4>2
    <3> QED BY <1>1, <3>1
  <2>4. \A i \in DOMAIN q : q[i].id # 0 => q[i].id \in (h.id + 1)..hi
    BY <1>1, <1>2, <1>3, <1>7, <2>3
  <2>5. ASSUME NEW k \in (h.id + 1)..hi
        PROVE  \E i \in DOMAIN q : q[i].id = k
    <3>1. k \in (lo + 1)..hi /\ k # h.id
      BY <1>3, <2>2
    <3>2. PICK i \in DOMAIN s : s[i].id = k
      BY <1>4, <3>1 DEF InOrder
    <3>3. PICK j \in 1..n : i = j + 1
      BY <1>1, <3>1, <3>2
    <3> QED BY <1>1, <3>2, <3>3
  <2>6. h.id <= hi
    BY <2>2
  <2> QED BY <1>5, <1>6, <1>9, <2>4, <2>5, <2>6 DEF InOrder
<1> QED BY <1>5, <1>8, <1>9

-----------------------------------------------------------------------------
(* The actor *)

\* The actions that read a message, drain the channel or look at the queue.
LEMMA QueueTypes ==
  ASSUME TypeOK
  PROVE  /\ LockFree => sending = NoMessage
         /\ ~LockFree => sending \in Message
         /\ Drain(pending, rx) \in Seq(Message)
         /\ Leftover(pending) \in Seq(Message)
         /\ Leftover(Drain(pending, rx)) \in Seq(Message)
         /\ CoalesceRefreshes(Append(pending, Refresh)) \in Seq(Message)
         /\ Waiting => Upcoming \in Message
<1>1. pending \in Seq(Message) /\ rx \in Seq(Message) /\ sending \in Message \cup {NoMessage}
  BY DEF TypeOK
<1>2. Drain(pending, rx) \in Seq(Message)
  BY <1>1, DrainKeeps
<1>3. \A q \in Seq(Message) : Leftover(q) \in Seq(Message)
  BY PreserveKeeps DEF Leftover
<1>4. CoalesceRefreshes(Append(pending, Refresh)) \in Seq(Message)
  <2>1. Append(pending, Refresh) \in Seq(Message)
    BY <1>1, MessageTypes
  <2> QED BY <2>1, CoalesceKeeps
<1>5. Waiting => Upcoming \in Message
  <2>1. \A q \in Seq(Message) : q # <<>> => Head(q) \in Message
    OBVIOUS
  <2> QED BY <1>1, <2>1 DEF Waiting, Upcoming
<1> QED BY <1>1, <1>2, <1>3, <1>4, <1>5 DEF LockFree

\* What a message supersedes, and what its stage says of an operation.
LEMMA StageTypes ==
  /\ \A s \in Stages : Operation(s) \in Operations
  /\ NoTier \in Tier /\ Idle \in [operation : Operations \cup {"none"},
                         interrupt : Stages \cup {"none"}, superseded : BOOLEAN]
  /\ NoChild \in [command : Stages \cup {"none"}, seen : Nat, signalled : BOOLEAN]
BY DEF Stages, Operation, Operations, NoTier, Tier, Idle, NoChild

-----------------------------------------------------------------------------
(* Type correctness *)

LEMMA MarkType ==
  ASSUME TypeOK, NEW m \in Message, Mark(m), issued' \in Nat, closed' \in BOOLEAN
  PROVE  TypeOK'
<1>1. sending' \in Message
  BY DEF Mark
<1>2. running' \in [operation : Operations \cup {"none"},
                    interrupt : Stages \cup {"none"}, superseded : BOOLEAN]
  <2>1. running' = [running EXCEPT !.superseded = running.superseded \/ Hits(m)]
    BY DEF Mark
  <2>2. (running.superseded \/ Hits(m)) \in BOOLEAN
    OBVIOUS
  <2> QED BY <2>1, <2>2 DEF TypeOK
<1>3. child' \in [command : Stages \cup {"none"}, seen : Nat, signalled : BOOLEAN]
  BY DEF Mark, Interrupted, TypeOK
<1> QED BY <1>1, <1>2, <1>3 DEF TypeOK, Mark, published, around, done

LEMMA ReceiveType ==
  ASSUME TypeOK, NEW kind \in {"configure", "refresh", "run", "stop"}, Receive(kind)
  PROVE  /\ rx' \in Seq(Message) /\ pending' \in Seq(Message)
         /\ served' \in Nat /\ Upcoming \in Message
<1>1. Upcoming \in Message
  BY QueueTypes DEF Receive
<1>2. served' \in Nat
  BY <1>1 DEF Receive, TypeOK, Message
<1>3. rx' \in Seq(Message) /\ pending' \in Seq(Message)
  <2>1. \A q \in Seq(Message) : q # <<>> => Tail(q) \in Seq(Message)
    OBVIOUS
  <2>2. pending \in Seq(Message) /\ rx \in Seq(Message)
    BY DEF TypeOK
  <2> QED BY <2>1, <2>2 DEF Receive, Waiting
<1> QED BY <1>1, <1>2, <1>3

\* A step of the mailbox or of its surroundings leaves the types alone.
LEMMA AroundType ==
  ASSUME TypeOK, Senders \/ Deliver \/ Edit \/ TakeWake
  PROVE  TypeOK'
<1>1. ASSUME NEW c \in Configs, Reconfigure(c)
      PROVE  TypeOK'
  <2>1. Configure(c, issued + 1) \in Message
    BY MessageTypes DEF TypeOK
  <2>2. Mark(Configure(c, issued + 1)) /\ issued' \in Nat /\ closed' \in BOOLEAN
    BY <1>1 DEF Reconfigure, TypeOK
  <2> QED BY <2>1, <2>2, MarkType
<1>2. CASE RunTarget
  <2>1. Run(issued + 1) \in Message
    BY MessageTypes DEF TypeOK
  <2>2. Mark(Run(issued + 1)) /\ issued' \in Nat /\ closed' \in BOOLEAN
    BY <1>2 DEF RunTarget, TypeOK
  <2> QED BY <2>1, <2>2, MarkType
<1>3. CASE AskRefresh
  <2>1. Mark(Refresh) /\ issued' \in Nat /\ closed' \in BOOLEAN
    BY <1>3 DEF AskRefresh, TypeOK
  <2> QED BY <2>1, MessageTypes, MarkType
<1>4. CASE DropBazel
  <2>1. Mark(Stop) /\ issued' \in Nat /\ closed' \in BOOLEAN
    BY <1>4 DEF DropBazel, TypeOK
  <2> QED BY <2>1, MessageTypes, MarkType
<1>5. CASE Deliver
  <2>1. sending \in Message
    BY <1>5, QueueTypes DEF Deliver
  <2>2. rx' \in Seq(Message) /\ sending' = NoMessage
    BY <1>5, <2>1 DEF Deliver, TypeOK
  <2>3. wanted' \in Configs \cup {NoConfig} /\ requested' \in Nat
    BY <1>5, <2>1 DEF Deliver, TypeOK, Message
  <2> QED BY <1>5, <2>2, <2>3 DEF Deliver, TypeOK, thread, published, around, done
<1>6. CASE Edit
  BY <1>6 DEF Edit, TypeOK, mailbox, thread, published, asked, done
<1>7. CASE TakeWake
  <2>1. wake' \in BOOLEAN
    BY <1>7 DEF TakeWake
  <2>2. UNCHANGED <<mailbox, thread, graph, repos, catalog, around, asked, done>>
    BY <1>7 DEF TakeWake
  <2> QED BY <2>1, <2>2 DEF TypeOK, mailbox, thread, around, asked, done
<1> QED BY <1>1, <1>2, <1>3, <1>4, <1>5, <1>6, <1>7 DEF Senders

\* Nor does taking a message.
LEMMA TakeType ==
  ASSUME TypeOK, Take
  PROVE  TypeOK'
<1> USE DEF TypeOK, around, asked, published, Labels
<1>1. CASE ReceiveStop
  <2>1. Receive("stop")
    BY <1>1 DEF ReceiveStop
  <2> QED BY <1>1, <2>1, ReceiveType DEF ReceiveStop, Receive
<1>2. CASE ReceiveSameConfiguration
  <2>1. Receive("configure")
    BY <1>2 DEF ReceiveSameConfiguration
  <2> QED BY <1>2, <2>1, ReceiveType DEF ReceiveSameConfiguration, Receive
<1>3. CASE ReceiveConfiguration
  <2>1. Receive("configure")
    BY <1>3 DEF ReceiveConfiguration
  <2>2. Upcoming.config \in Configs \cup {NoConfig}
    BY <2>1, ReceiveType DEF Message
  <2>3. "version" \in Stages
    BY DEF Stages
  <2> QED BY <1>3, <2>1, <2>2, <2>3, ReceiveType, StageTypes
          DEF ReceiveConfiguration, Receive
<1>4. CASE ReceiveRefresh
  <2>1. Receive("refresh")
    BY <1>4 DEF ReceiveRefresh
  <2>2. "dump" \in Stages
    BY DEF Stages
  <2> QED BY <1>4, <2>1, <2>2, ReceiveType, StageTypes DEF ReceiveRefresh, Receive
<1>5. CASE ReceiveRun
  <2>1. Receive("run")
    BY <1>5 DEF ReceiveRun
  <2> QED BY <1>5, <2>1, ReceiveType DEF ReceiveRun, Receive
<1> QED BY <1>1, <1>2, <1>3, <1>4, <1>5 DEF Take

\* Nor does preparing an operation or running its commands.
LEMMA PrepareType ==
  ASSUME TypeOK, Claim \/ Sweep \/ Settle \/ Clear \/ Adopt
  PROVE  TypeOK'
<1> USE DEF TypeOK, Labels, mailbox, published, around, asked, done
<1>1. CASE Claim
  BY <1>1, StageTypes DEF Claim
<1>2. CASE Sweep
  BY <1>2, QueueTypes DEF Sweep
<1>3. CASE Settle
  BY <1>3 DEF Settle
<1>4. CASE Clear
  BY <1>4, QueueTypes, StageTypes DEF Clear
<1>5. CASE Adopt
  <2>1. catalog' \in Configs \cup {NoConfig} /\ wake' \in BOOLEAN
    BY <1>5 DEF Adopt
  <2>2. client' \in Configs \cup {NoConfig} /\ pending' \in Seq(Message) /\ pc' \in Labels
    BY <1>5, QueueTypes DEF Adopt
  <2> QED BY <1>5, <2>1, <2>2 DEF Adopt
<1> QED BY <1>1, <1>2, <1>3, <1>4, <1>5

LEMMA CommandType ==
  ASSUME TypeOK, Spawn \/ SpawnFails \/ Register \/ (\E ok \in BOOLEAN : Exit(ok))
  PROVE  TypeOK'
<1> USE DEF TypeOK, Labels, mailbox, published, around, asked, done
<1>1. CASE Spawn
  BY <1>1 DEF Spawn
<1>2. CASE SpawnFails
  BY <1>2 DEF SpawnFails
<1>3. CASE Register
  <2>1. running' \in [operation : Operations \cup {"none"},
                      interrupt : Stages \cup {"none"}, superseded : BOOLEAN]
    BY <1>3 DEF Register
  <2>2. child' \in [command : Stages \cup {"none"}, seen : Nat, signalled : BOOLEAN]
    BY <1>3 DEF Register, Interrupted
  <2> QED BY <1>3, <2>1, <2>2 DEF Register
<1>4. ASSUME NEW ok \in BOOLEAN, Exit(ok)
      PROVE  TypeOK'
  BY <1>4, StageTypes DEF Exit, Tier, Stages
<1> QED BY <1>1, <1>2, <1>3, <1>4

\* Nor does ending one.
LEMMA FinishType ==
  ASSUME TypeOK, Finished
  PROVE  TypeOK'
<1> USE QueueTypes, StageTypes
<1> USE DEF TypeOK, Labels, Finish, published, around, asked
<1>1. CASE FinishSuperseded
  BY <1>1 DEF FinishSuperseded
<1>2. ASSUME NEW flags \in BOOLEAN, FinishProbe(flags)
      PROVE  TypeOK'
  BY <1>2 DEF FinishProbe, Stages
<1>3. CASE FinishFlags
  BY <1>3 DEF FinishFlags
<1>4. CASE FinishRepos
  BY <1>4 DEF FinishRepos, Stages
<1>5. CASE Publish
  BY <1>5 DEF Publish, Tier
<1> QED BY <1>1, <1>2, <1>3, <1>4, <1>5 DEF Finished

LEMMA TypeInit ==
  Init => TypeOK
<1> SUFFICES ASSUME Init
             PROVE  TypeOK
  OBVIOUS
<1>1. rx \in Seq(Message) /\ pending \in Seq(Message)
  BY DEF Init
<1>2. reply \in [seen : Nat, ok : BOOLEAN] /\ verdict \in [config : Configs \cup {NoConfig}, ok : BOOLEAN]
  BY DEF Init
<1>3. pc \in Labels /\ stage \in Stages
  BY DEF Init, Labels, Stages
<1> QED BY <1>1, <1>2, <1>3, StageTypes DEF Init, TypeOK

LEMMA TypeStep ==
  TypeOK /\ [Next]_vars => TypeOK'
<1> SUFFICES ASSUME TypeOK, [Next]_vars
             PROVE  TypeOK'
  OBVIOUS
<1>1. CASE Senders \/ Deliver \/ Edit \/ TakeWake
  BY <1>1, AroundType
<1>2. CASE Take
  BY <1>2, TakeType
<1>3. CASE Claim \/ Sweep \/ Settle \/ Clear \/ Adopt
  BY <1>3, PrepareType
<1>4. CASE Spawn \/ SpawnFails \/ Register \/ (\E ok \in BOOLEAN : Exit(ok))
  BY <1>4, CommandType
<1>5. CASE Finished
  BY <1>5, FinishType
<1>6. CASE UNCHANGED vars
  BY <1>6 DEF vars, mailbox, thread, published, around, asked, done, TypeOK
<1> QED BY <1>1, <1>2, <1>3, <1>4, <1>5, <1>6 DEF Next, Serve, Joined

\* Every variable of the Bazel thread, its mailbox and its senders keeps its
\* type: a queue, whatever is drained, coalesced or preserved, holds messages.
THEOREM TypeCorrect == Spec => []TypeOK
<1>1. Init => TypeOK
  BY TypeInit
<1>2. TypeOK /\ [Next]_vars => TypeOK'
  BY TypeStep
<1> QED BY <1>1, <1>2, PTL DEF Spec

-----------------------------------------------------------------------------
(* Interrupts.  What makes the two interrupt properties inductive is what  *)
(* each step of the thread knows of the messages it has not looked at:     *)
(* from Claim on, every message that supersedes the operation is noted in  *)
(* running.superseded, or will be found by the drain that follows.         *)

Unread == rx \o <<sending>>
Against == Superseding(Operation(stage))

Registered == pc \in {"sweep", "settle", "clear", "spawn", "register", "wait", "finish"}
Started    == pc \in {"spawn", "register", "wait", "finish"}
HasChild   == pc \in {"register", "wait"}

\* Running names the operation in progress, and nothing else.
RunningIsTheOperation ==
    /\ Registered => running.operation = Operation(stage)
    /\ ~Registered => running.operation = "none" /\ ~running.superseded

\* What the thread has not drained and what it has noted.
NotedIsUnread ==
    /\ pc = "sweep" /\ sending.kind \in Against => running.superseded
    /\ pc = "settle" /\ Holds(Unread, Against) => running.superseded
    /\ Started => ~Holds(pending, Against)
    /\ Started => (running.superseded <=> Holds(Unread, Against))

\* The child, the command registered for it, and whether it was signalled.
ChildIsRegistered ==
    /\ ~HasChild => child = NoChild
    /\ HasChild => child.command = stage
    /\ pc \in {"spawn", "register"} => running.interrupt # stage
    /\ pc \in {"sweep", "settle"} => running.interrupt = "none"
    /\ pc = "wait" => running.interrupt = stage
    /\ pc = "register" => ~child.signalled
    /\ pc = "wait" => (child.signalled <=> running.superseded)

InterruptInv == RunningIsTheOperation /\ NotedIsUnread /\ ChildIsRegistered

\* One more message at the end of a queue.
LEMMA HoldsLast ==
  ASSUME NEW q \in Seq(Message), NEW m \in Message \cup {NoMessage}, NEW kinds
  PROVE  Holds(q \o <<m>>, kinds) <=> Holds(q, kinds) \/ m.kind \in kinds
<1> DEFINE S == Message \cup {NoMessage}
<1>1. q \in Seq(S) /\ <<m>> \in Seq(S)
  OBVIOUS
<1>2. Holds(<<m>>, kinds) <=> m.kind \in kinds
  BY DEF Holds
<1> HIDE DEF S
<1> QED BY <1>1, <1>2, HoldsConcat

LEMMA HoldsUnread ==
  ASSUME TypeOK, NEW kinds
  PROVE  /\ Holds(Unread, kinds) <=> Holds(rx, kinds) \/ sending.kind \in kinds
         /\ Holds(Drain(pending, rx), Against) <=> Holds(pending, Against) \/ Holds(rx, Against)
<1>1. Holds(Unread, kinds) <=> Holds(rx, kinds) \/ sending.kind \in kinds
  BY HoldsLast DEF TypeOK, Unread
<1>2. "stop" \in Against
  BY DEF TypeOK, Stages, Against, Superseding, Operation
<1>3. Holds(Drain(pending, rx), Against) <=> Holds(pending, Against) \/ Holds(rx, Against)
  BY <1>2, DrainKeeps DEF TypeOK
<1> QED BY <1>1, <1>3

\* Nobody is interrupted by a message that does not exist, and an empty
\* channel holds nothing.
LEMMA NothingHeld ==
  /\ \A o : NoMessage.kind \notin Superseding(o)
  /\ \A kinds : ~Holds(<<>>, kinds)
BY DEF NoMessage, Superseding, Holds

LEMMA InterruptInit ==
  Init => InterruptInv
BY DEF Init, InterruptInv, RunningIsTheOperation, NotedIsUnread, ChildIsRegistered,
       Registered, Started, HasChild, Idle

\* A sender notes its message in the operation it supersedes, and signals the
\* command registered for it.
LEMMA MarkInterrupt ==
  ASSUME TypeOK, InterruptInv, NEW m \in Message, Mark(m), TypeOK'
  PROVE  InterruptInv'
<1>1. /\ sending = NoMessage /\ sending' = m
      /\ UNCHANGED <<rx, pc, pending, stage>>
  BY DEF Mark, LockFree
<1>2. /\ running'.operation = running.operation /\ running'.interrupt = running.interrupt
      /\ running'.superseded <=> running.superseded \/ Hits(m)
  BY DEF Mark, TypeOK
<1>3. Registered => (Hits(m) <=> m.kind \in Against)
  BY DEF InterruptInv, RunningIsTheOperation, Hits, Against
<1>4. ~Registered => ~Hits(m)
  BY DEF InterruptInv, RunningIsTheOperation, Hits, Superseding, Idle
<1>5. RunningIsTheOperation'
  BY <1>1, <1>2, <1>4 DEF InterruptInv, RunningIsTheOperation, Registered
<1>6. NotedIsUnread'
  <2>1. Against' = Against /\ Registered' = Registered /\ Started' = Started
    BY <1>1 DEF Against, Registered, Started
  <2>2. \A kinds : Holds(Unread, kinds)' <=> Holds(rx, kinds) \/ m.kind \in kinds
    <3>1. Unread' = rx \o <<m>>
      BY <1>1 DEF Unread
    <3>2. rx \in Seq(Message)
      BY DEF TypeOK
    <3> QED BY <3>1, <3>2, HoldsLast DEF Holds
  <2>3. Holds(Unread, Against) <=> Holds(rx, Against)
    BY <1>1, HoldsUnread, NothingHeld DEF Against
  <2>4. pc \in {"sweep", "settle"} \/ Started => Registered
    BY DEF Started, Registered
  <2> QED BY <1>1, <1>2, <1>3, <2>1, <2>2, <2>3, <2>4 DEF InterruptInv, NotedIsUnread
<1>7. ChildIsRegistered'
  <2>1. /\ child'.command = child.command
        /\ child'.signalled <=> child.signalled \/ (Hits(m) /\ running.interrupt # "none"
                                                   /\ child.command = running.interrupt)
    BY DEF Mark, Interrupted, TypeOK
  <2>2. ~HasChild => child' = child
    BY DEF Mark, Interrupted, InterruptInv, ChildIsRegistered, NoChild
  <2>3. stage # "none"
    BY DEF TypeOK, Stages
  <2> QED BY <1>1, <1>2, <2>1, <2>2, <2>3 DEF InterruptInv, ChildIsRegistered, HasChild
<1> QED BY <1>5, <1>6, <1>7 DEF InterruptInv

\* A step that changes none of the variables the invariant reads.
LEMMA QuietInterrupt ==
  ASSUME InterruptInv, UNCHANGED <<rx, sending, running, pc, pending, stage, child>>
  PROVE  InterruptInv'
BY DEF InterruptInv, RunningIsTheOperation, NotedIsUnread, ChildIsRegistered,
       Registered, Started, HasChild, Against, Unread, Holds

\* Delivering a message moves it to where the thread has not looked either.
LEMMA DeliverInterrupt ==
  ASSUME TypeOK, InterruptInv, Deliver
  PROVE  InterruptInv'
<1>1. /\ sending \in Message /\ sending' = NoMessage /\ rx' = rx \o <<sending>>
      /\ UNCHANGED <<running, pc, pending, stage, child>>
  BY QueueTypes DEF Deliver, thread, TypeOK
<1>2. ASSUME NEW kinds, "none" \notin kinds
      PROVE  Holds(Unread, kinds)' <=> Holds(Unread, kinds)
  <2>1. Unread' = rx' \o <<NoMessage>> /\ rx' = Unread /\ rx' \in Seq(Message)
    BY <1>1 DEF Unread, TypeOK
  <2>2. NoMessage.kind \notin kinds
    BY <1>2 DEF NoMessage
  <2> QED BY <2>1, <2>2, HoldsLast DEF Holds
<1>3. Against' = Against /\ "none" \notin Against
  BY <1>1 DEF Against, Superseding
<1>4. Holds(Unread, Against)' <=> Holds(Unread, Against)
  <2>1. Holds(Unread, Against)' <=> Holds(Unread', Against)
    BY <1>3 DEF Holds
  <2>2. Holds(Unread', Against) <=> Holds(Unread, Against)
    BY <1>2, <1>3 DEF Holds
  <2> QED BY <2>1, <2>2
<1>5. sending'.kind \notin Against
  BY <1>1, <1>3 DEF NoMessage
<1>6. Holds(pending, Against)' <=> Holds(pending, Against)
  BY <1>1, <1>3 DEF Holds
<1>7. NotedIsUnread'
  BY <1>1, <1>3, <1>4, <1>5, <1>6 DEF InterruptInv, NotedIsUnread, Started
<1> QED BY <1>1, <1>7 DEF InterruptInv, RunningIsTheOperation, ChildIsRegistered,
           Registered, HasChild

\* Taking a message: no operation is in progress before or after.
LEMMA TakeInterrupt ==
  ASSUME InterruptInv, Take
  PROVE  InterruptInv'
<1>1. /\ pc = "recv" /\ pc' \in {"recv", "claim", "stopped"}
      /\ UNCHANGED <<running, child>>
  BY DEF Take, ReceiveStop, ReceiveSameConfiguration, ReceiveConfiguration,
         ReceiveRefresh, ReceiveRun, Receive
<1> QED BY <1>1 DEF InterruptInv, RunningIsTheOperation, NotedIsUnread,
           ChildIsRegistered, Registered, Started, HasChild

\* prepare and the end of a probe.
LEMMA PrepareInterrupt ==
  ASSUME TypeOK, InterruptInv, Claim \/ Sweep \/ Settle \/ Clear \/ Adopt
  PROVE  InterruptInv'
<1> USE DEF InterruptInv, RunningIsTheOperation, NotedIsUnread, ChildIsRegistered,
            Registered, Started, HasChild
<1>1. CASE Claim
  \* With the lock free no message is half sent: whatever is sent from here
  \* on finds the operation registered.
  <2>1. sending'.kind \notin Against'
    BY <1>1, NothingHeld, QueueTypes DEF Claim, Against
  <2> QED BY <1>1, <2>1 DEF Claim
<1>2. CASE Sweep
  <2>1. Unread' = <<>> \o <<sending>> /\ sending \in Message \cup {NoMessage}
    BY <1>2 DEF Sweep, Unread, TypeOK
  <2>2. Against' = Against
    BY <1>2 DEF Sweep, Against
  <2>3. <<>> \in Seq(Message)
    OBVIOUS
  <2>4. Holds(Unread', Against) <=> sending.kind \in Against
    BY <2>1, <2>3, HoldsLast, NothingHeld
  <2>5. Holds(Unread, Against)' <=> sending.kind \in Against
    BY <2>2, <2>4 DEF Holds
  <2> QED BY <1>2, <2>5 DEF Sweep
<1>3. CASE Settle
  <2>1. UNCHANGED <<rx, sending, running, pending, stage, child>>
    BY <1>3 DEF Settle, mailbox
  <2>2. IsSuperseded(pending) <=> running.superseded \/ Holds(pending, Against)
    BY DEF IsSuperseded, Against
  <2>3. /\ Holds(Unread, Against)' <=> Holds(Unread, Against)
        /\ Holds(pending, Against)' <=> Holds(pending, Against)
    BY <2>1 DEF Holds, Unread, Against
  <2>4. CASE IsSuperseded(pending)
    BY <1>3, <2>1, <2>4 DEF Settle
  <2>5. CASE ~IsSuperseded(pending)
    <3>1. /\ ~running.superseded /\ ~Holds(pending, Against)
          /\ ~Holds(Unread, Against)
      BY <1>3, <2>2, <2>5 DEF Settle
    <3>2. stage # "none"
      BY DEF TypeOK, Stages
    <3> QED BY <1>3, <2>1, <2>3, <2>5, <3>1, <3>2 DEF Settle
  <2> QED BY <2>4, <2>5
<1>4. CASE Clear
  BY <1>4 DEF Clear, Idle
<1>5. CASE Adopt
  BY <1>5 DEF Adopt, mailbox
<1> QED BY <1>1, <1>2, <1>3, <1>4, <1>5

\* The commands of an operation: nothing is drained while one runs.
LEMMA CommandInterrupt ==
  ASSUME TypeOK, InterruptInv,
         Spawn \/ SpawnFails \/ Register \/ (\E ok \in BOOLEAN : Exit(ok))
  PROVE  InterruptInv'
<1> USE DEF InterruptInv, RunningIsTheOperation, NotedIsUnread, ChildIsRegistered,
            Registered, Started, HasChild
<1>1. /\ UNCHANGED <<rx, sending, pending>> /\ Operation(stage') = Operation(stage)
      /\ Started /\ Started'
      /\ running'.superseded = running.superseded
      /\ running'.operation = running.operation
  BY DEF Spawn, SpawnFails, Register, Exit, mailbox, TypeOK, Operation
<1>2. /\ Against' = Against
      /\ Holds(pending, Against)' <=> Holds(pending, Against)
      /\ Holds(Unread, Against)' <=> Holds(Unread, Against)
  BY <1>1 DEF Against, Unread, Holds
<1>3. RunningIsTheOperation' /\ NotedIsUnread'
  BY <1>1, <1>2
<1>4. ChildIsRegistered'
  <2>1. CASE Spawn
    BY <2>1 DEF Spawn, mailbox
  <2>2. CASE SpawnFails
    BY <2>2 DEF SpawnFails, mailbox
  <2>3. CASE Register
    <3>1. stage # "none" /\ UNCHANGED stage
      BY <2>3 DEF Register, TypeOK, Stages
    <3>2. child'.command = stage /\ (child'.signalled <=> running.superseded)
      BY <2>3, <3>1 DEF Register, Interrupted, TypeOK
    <3>3. running'.interrupt = stage /\ pc' = "wait"
      BY <2>3 DEF Register, TypeOK
    <3> QED BY <1>1, <3>1, <3>2, <3>3
  <2>4. ASSUME NEW ok \in BOOLEAN, Exit(ok)
        PROVE  ChildIsRegistered'
    <3>1. child' = NoChild /\ pc' \in {"spawn", "finish"} /\ UNCHANGED running
      BY <2>4 DEF Exit, mailbox
    <3>2. pc' = "spawn" => running.interrupt = "dump" /\ stage' = "info"
      BY <2>4 DEF Exit
    <3> QED BY <3>1, <3>2
  <2> QED BY <2>1, <2>2, <2>3, <2>4
<1> QED BY <1>3, <1>4

\* finish and publish_current leave no operation registered.
LEMMA FinishInterrupt ==
  ASSUME InterruptInv, Finished
  PROVE  InterruptInv'
<1>1. /\ pc = "finish" /\ pc' \in {"recv", "claim", "adopt"}
      /\ running' = Idle /\ UNCHANGED child
  BY DEF Finished, FinishSuperseded, FinishProbe, FinishFlags, FinishRepos, Publish, Finish
<1> QED BY <1>1 DEF InterruptInv, RunningIsTheOperation, NotedIsUnread,
           ChildIsRegistered, Registered, Started, HasChild, Idle

LEMMA InterruptStep ==
  ASSUME TypeOK, TypeOK', InterruptInv, [Next]_vars
  PROVE  InterruptInv'
<1>1. ASSUME NEW c \in Configs, Reconfigure(c)
      PROVE  InterruptInv'
  <2>1. Configure(c, issued + 1) \in Message /\ Mark(Configure(c, issued + 1))
    BY <1>1, MessageTypes DEF Reconfigure, TypeOK
  <2> QED BY <2>1, MarkInterrupt
<1>2. CASE RunTarget
  <2>1. Run(issued + 1) \in Message /\ Mark(Run(issued + 1))
    BY <1>2, MessageTypes DEF RunTarget, TypeOK
  <2> QED BY <2>1, MarkInterrupt
<1>3. CASE AskRefresh
  BY <1>3, MessageTypes, MarkInterrupt DEF AskRefresh
<1>4. CASE DropBazel
  BY <1>4, MessageTypes, MarkInterrupt DEF DropBazel
<1>5. CASE Deliver
  BY <1>5, DeliverInterrupt
<1>6. CASE Edit \/ TakeWake \/ UNCHANGED vars
  <2>1. UNCHANGED <<rx, sending, running, pc, pending, stage, child>>
    BY <1>6 DEF Edit, TakeWake, vars, mailbox, thread
  <2> QED BY <2>1, QuietInterrupt
<1>7. CASE Take
  BY <1>7, TakeInterrupt
<1>8. CASE Claim \/ Sweep \/ Settle \/ Clear \/ Adopt
  BY <1>8, PrepareInterrupt
<1>9. CASE Spawn \/ SpawnFails \/ Register \/ (\E ok \in BOOLEAN : Exit(ok))
  BY <1>9, CommandInterrupt
<1>10. CASE Finished
  BY <1>10, FinishInterrupt
<1> QED BY <1>1, <1>2, <1>3, <1>4, <1>5, <1>6, <1>7, <1>8, <1>9, <1>10
        DEF Next, Senders, Serve, Joined

LEMMA InterruptsAreExact == Spec => [](TypeOK /\ InterruptInv)
<1>1. Init => TypeOK /\ InterruptInv
  BY TypeInit, InterruptInit
<1>2. TypeOK /\ InterruptInv /\ [Next]_vars => (TypeOK /\ InterruptInv)'
  BY TypeStep, InterruptStep
<1> QED BY <1>1, <1>2, PTL DEF Spec

\* No interrupt is lost: whichever comes first, the message that supersedes an
\* operation or the registration of its command, the command is sent SIGINT
\* (Bazel::enqueue and set_running).
THEOREM NoLostInterrupt == Spec => []SupersededChildIsSignalled
<1>1. TypeOK /\ InterruptInv => SupersededChildIsSignalled
  <2> SUFFICES ASSUME TypeOK, InterruptInv, pc = "wait",
                      Holds(pending \o rx \o <<sending>>, Against)
               PROVE  child.signalled
    BY DEF SupersededChildIsSignalled, Against
  <2> DEFINE S == Message \cup {NoMessage}
  <2>1. pending \in Seq(S) /\ Unread \in Seq(S) /\ pending \o rx \o <<sending>> = pending \o Unread
    BY DEF TypeOK, Unread
  <2>2. Holds(pending, Against) \/ Holds(Unread, Against)
    <3> HIDE DEF S
    <3> QED BY <2>1, HoldsConcat
  <2> QED BY <2>2 DEF InterruptInv, NotedIsUnread, ChildIsRegistered, Started
<1> QED BY <1>1, InterruptsAreExact, PTL

\* No interrupt strays: a command is sent SIGINT only on account of a message
\* that the thread has still to take, never of one it is already serving.
THEOREM NoStrayInterrupt == Spec => []InterruptHasACause
<1>1. TypeOK /\ InterruptInv => InterruptHasACause
  BY DEF InterruptInv, NotedIsUnread, ChildIsRegistered, Started, HasChild, NoChild,
         InterruptHasACause, Unread, Against
<1> QED BY <1>1, InterruptsAreExact, PTL

-----------------------------------------------------------------------------
(* Configure and Run messages are served in order *)

\* While it is open, the mailbox holds what was asked and not served, in order.
OrderInv == ~closed => InOrder(Unserved, served, issued)

\* The types of what is not yet served.
LEMMA UnservedTypes ==
  ASSUME TypeOK
  PROVE  /\ pending \in Seq(Message) /\ rx \in Seq(Message) /\ pending \o rx \in Seq(Message)
         /\ sending \in Entry /\ <<sending>> \in Seq(Entry)
         /\ Unserved = (pending \o rx) \o <<sending>> /\ Unserved \in Seq(Entry)
<1>1. pending \in Seq(Message) /\ rx \in Seq(Message) /\ sending \in Entry
  BY DEF TypeOK, Entry
<1>2. pending \o rx \in Seq(Message)
  BY <1>1
<1>3. pending \o rx \in Seq(Entry) /\ <<sending>> \in Seq(Entry)
  BY <1>1, <1>2 DEF Entry
<1>4. (pending \o rx) \o <<sending>> \in Seq(Entry)
  BY <1>3
<1> QED BY <1>1, <1>2, <1>3, <1>4 DEF Unserved

\* While it is open nothing in the mailbox is a Stop, and draining coalesces.
LEMMA OpenMailbox ==
  ASSUME TypeOK, OrderInv, ~closed
  PROVE  /\ \A i \in DOMAIN (pending \o rx) : Plain((pending \o rx)[i])
         /\ Drain(pending, rx) = CoalesceRefreshes(pending \o rx)
         /\ SameAsks(Drain(pending, rx), pending \o rx)
<1> DEFINE q == pending \o rx
<1>1. q \in Seq(Message) /\ q \in Seq(Entry) /\ <<sending>> \in Seq(Entry) /\ Unserved = q \o <<sending>>
  BY UnservedTypes DEF Entry
<1> HIDE DEF q
<1>2. \A i \in DOMAIN q : i \in DOMAIN Unserved /\ Unserved[i] = q[i]
  BY <1>1, ConcatPlaces
<1>3. \A i \in DOMAIN q : Plain(q[i])
  BY <1>2 DEF OrderInv, InOrder
<1>4. ~Holds(q, {"stop"})
  BY <1>3 DEF Holds, Plain
<1>5. SameAsks(CoalesceRefreshes(q), q)
  BY <1>1, <1>3, SameCoalesced
<1>6. Drain(pending, rx) = CoalesceRefreshes(q)
  BY <1>4 DEF Drain, q
<1> QED BY <1>3, <1>5, <1>6 DEF q

\* A superseded refresh leaves itself behind.
LEMMA LeftoverSame ==
  ASSUME NEW q \in Seq(Message)
  PROVE  Leftover(q) \in Seq(Message) /\ SameAsks(Leftover(q), q)
<1>1. SameAsks(q, q)
  BY DEF SameAsks
<1>2. q \in Seq(Entry)
  BY DEF Entry
<1>3. Append(q, Refresh) = q \o <<Refresh>> /\ Append(q, Refresh) \in Seq(Message)
  BY MessageTypes
<1>4. SameAsks(q \o <<Refresh>>, q)
  BY <1>2, SameLast
<1> QED BY <1>1, <1>3, <1>4 DEF Leftover, PreserveRefresh

\* The thread moves what is queued without a change of what is asked.
LEMMA MovedInOrder ==
  ASSUME TypeOK, TypeOK', OrderInv, SameAsks(pending' \o rx', pending \o rx),
         UNCHANGED <<sending, served, issued>>
  PROVE  ~closed => InOrder(Unserved', served', issued')
<1> DEFINE p == pending' \o rx'
           q == pending \o rx
<1>1. p \in Seq(Message) /\ q \in Seq(Message) /\ <<sending>> \in Seq(Entry)
  BY UnservedTypes DEF TypeOK
<1>2. Unserved = q \o <<sending>> /\ Unserved' = p \o <<sending>>
  BY DEF Unserved
<1>3. SameAsks(p, q)
  OBVIOUS
<1> HIDE DEF p, q
<1>4. Unserved' \in Seq(Entry) /\ Unserved \in Seq(Entry) /\ SameAsks(Unserved', Unserved)
  BY <1>1, <1>2, <1>3, SameTail
<1>5. served \in Nat /\ issued \in Nat
  BY DEF TypeOK
<1> QED BY <1>4, <1>5, SameInOrder DEF OrderInv

\* The steps of the thread that move what is queued.
LEMMA QueueInOrder ==
  ASSUME TypeOK, TypeOK', OrderInv, Sweep \/ Finished \/ Clear \/ Adopt
  PROVE  OrderInv'
<1>1. UNCHANGED <<sending, served, issued, closed>>
  BY DEF Sweep, Clear, Finished, FinishSuperseded, FinishProbe, FinishFlags, FinishRepos,
         Publish, Finish, Adopt, asked, done, mailbox
<1>2. SUFFICES ASSUME ~closed
               PROVE  SameAsks(pending' \o rx', pending \o rx)
  BY <1>1, MovedInOrder DEF OrderInv
<1> DEFINE q == pending \o rx
           d == Drain(pending, rx)
<1>3. /\ pending \in Seq(Message) /\ rx \in Seq(Message) /\ q \in Seq(Message)
      /\ d \in Seq(Message) /\ SameAsks(d, q) /\ \A i \in DOMAIN q : Plain(q[i])
  BY <1>2, UnservedTypes, OpenMailbox, QueueTypes
<1>4. CASE Sweep \/ Finished
  <2>1. rx' = <<>> /\ pending' \in {d, Leftover(d)}
    BY <1>4 DEF Sweep, Finished, FinishSuperseded, FinishProbe, FinishFlags, FinishRepos,
                Publish, Finish
  <2> HIDE DEF d, q
  <2>2. pending' \in Seq(Message) /\ SameAsks(pending', q)
    <3>1. /\ Leftover(d) \in Seq(Message) /\ SameAsks(Leftover(d), d)
      BY <1>3, LeftoverSame
    <3>2. d \in Seq(Entry) /\ q \in Seq(Entry) /\ Leftover(d) \in Seq(Entry)
      BY <1>3, <3>1 DEF Entry
    <3>3. SameAsks(Leftover(d), q)
      BY <1>3, <3>1, <3>2, SameTransitive
    <3> QED BY <1>3, <2>1, <3>1, <3>3
  <2>3. pending' \o rx' = pending'
    BY <2>1, <2>2
  <2> QED BY <2>2, <2>3 DEF q
<1>5. CASE Clear
  <2>1. pending' = Leftover(pending) /\ rx' = rx
    BY <1>5 DEF Clear
  <2>2. Leftover(pending) \in Seq(Message) /\ SameAsks(Leftover(pending), pending)
    BY <1>3, LeftoverSame
  <2>3. rx \in Seq(Entry)
    BY <1>3 DEF Entry
  <2> QED BY <1>3, <2>1, <2>2, <2>3, SameTail
<1>6. CASE Adopt
  <2> DEFINE a == Append(pending, Refresh)
             c == CoalesceRefreshes(a)
  <2>1. pending' = c /\ rx' = rx
    BY <1>6 DEF Adopt, mailbox
  <2>2. /\ a \in Seq(Message) /\ a = pending \o <<Refresh>> /\ pending \in Seq(Entry)
        /\ rx \in Seq(Entry) /\ <<Refresh>> \in Seq(Message)
    BY <1>3, MessageTypes DEF Entry
  <2>3. SameAsks(a, pending)
    BY <2>2, SameLast
  <2>4. \A i \in DOMAIN pending : Plain(pending[i])
    BY <1>3, ConcatPlaces
  <2>5. \A i \in DOMAIN a : Plain(a[i])
    <3> HIDE DEF a
    <3> QED BY <2>3, <2>4, EntryTypes DEF SameAsks
  <2> HIDE DEF a
  <2>6. c \in Seq(Message) /\ SameAsks(c, a)
    BY <2>2, <2>5, SameCoalesced, CoalesceKeeps
  <2> HIDE DEF c
  <2>7. c \in Seq(Entry) /\ a \in Seq(Entry)
    BY <2>2, <2>6 DEF Entry
  <2>8. SameAsks(c, pending)
    BY <2>2, <2>3, <2>6, <2>7, SameTransitive
  <2> QED BY <1>3, <2>1, <2>2, <2>6, <2>8, SameTail
<1> QED BY <1>4, <1>5, <1>6

\* The message being sent is the last one asked for.
LEMMA MarkInOrder ==
  ASSUME TypeOK, OrderInv, Senders
  PROVE  OrderInv'
<1> DEFINE q == pending \o rx
<1>1. /\ sending = NoMessage /\ ~closed
      /\ UNCHANGED <<pending, rx, served>>
      /\ \/ sending' = Refresh /\ issued' = issued
         \/ closed'
         \/ /\ sending'.id = issued + 1 /\ sending'.kind \in {"configure", "run"}
            /\ issued' = issued + 1
  <2> USE DEF Mark, LockFree, done
  <2>1. CASE \E c \in Configs : Reconfigure(c)
    BY <2>1 DEF Reconfigure, Configure
  <2>2. CASE RunTarget
    BY <2>2 DEF RunTarget, Run
  <2>3. CASE AskRefresh
    BY <2>3 DEF AskRefresh
  <2>4. CASE DropBazel
    BY <2>4 DEF DropBazel
  <2> QED BY <2>1, <2>2, <2>3, <2>4 DEF Senders
<1>2. q \in Seq(Entry) /\ served \in Nat /\ issued \in Nat
  BY UnservedTypes DEF Entry, TypeOK
<1>3. Unserved = q \o <<NoMessage>> /\ Unserved' = q \o <<sending'>>
  BY <1>1 DEF Unserved
<1> HIDE DEF q
<1>4. InOrder(q, served, issued)
  <2>1. Unserved \in Seq(Entry) /\ SameAsks(q, Unserved)
    BY <1>2, <1>3, SameLast
  <2> QED BY <1>1, <1>2, <2>1, SameInOrder DEF OrderInv
<1>5. CASE sending' = Refresh /\ issued' = issued
  <2>1. Unserved' \in Seq(Entry) /\ SameAsks(Unserved', q)
    BY <1>2, <1>3, <1>5, SameLast
  <2>2. InOrder(Unserved', served, issued)
    BY <1>2, <1>4, <2>1, SameInOrder
  <2> QED BY <1>1, <1>5, <2>2 DEF OrderInv
<1>6. ASSUME NEW m, sending' = m, m.id = issued + 1, m.kind \in {"configure", "run"},
             issued' = issued + 1
      PROVE  OrderInv'
  <2> DEFINE t == q \o <<m>>
             n == Len(q)
  <2>1. /\ n \in Nat /\ DOMAIN q = 1..n /\ DOMAIN t = 1..(n + 1)
        /\ \A i \in 1..n : t[i] = q[i]
        /\ t[n + 1] = m
        /\ \A i \in 1..(n + 1) : i \in 1..n \/ i = n + 1
        /\ \A i \in 1..n : q[i].id \in Nat
    BY <1>2, EntryTypes
  <2> HIDE DEF t, n
  <2>2. Plain(m) /\ issued + 1 # 0
    BY <1>2, <1>6 DEF Plain
  <2>3. \A i \in DOMAIN t : Plain(t[i])
    BY <1>4, <2>1, <2>2 DEF InOrder
  <2>4. \A i \in DOMAIN t : t[i].id # 0 => t[i].id \in (served + 1)..(issued + 1)
    <3>1. (served + 1)..issued \subseteq (served + 1)..(issued + 1)
      BY <1>2
    <3>2. issued + 1 \in (served + 1)..(issued + 1)
      BY <1>2, <1>4 DEF InOrder
    <3> QED BY <1>4, <1>6, <2>1, <3>1, <3>2 DEF InOrder
  <2>5. ASSUME NEW k \in (served + 1)..(issued + 1)
        PROVE  \E i \in DOMAIN t : t[i].id = k
    <3>1. CASE k = issued + 1
      BY <1>6, <2>1, <3>1
    <3>2. CASE k # issued + 1
      <4>1. k \in (served + 1)..issued
        BY <1>2, <3>2
      <4>2. PICK i \in DOMAIN q : q[i].id = k
        BY <1>4, <4>1 DEF InOrder
      <4> QED BY <2>1, <4>2
    <3> QED BY <3>1, <3>2
  <2>6. ASSUME NEW i \in DOMAIN t, NEW j \in DOMAIN t, i < j, t[i].id # 0, t[j].id # 0
        PROVE  t[i].id < t[j].id
    <3>1. i \in DOMAIN q /\ t[i] = q[i]
      BY <2>1, <2>6
    <3>2. CASE j \in DOMAIN q
      BY <1>4, <2>1, <2>6, <3>1, <3>2 DEF InOrder
    <3>3. CASE j = n + 1
      <4>1. q[i].id \in (served + 1)..issued
        BY <1>4, <2>6, <3>1 DEF InOrder
      <4>2. q[i].id < issued + 1
        BY <1>2, <4>1
      <4> QED BY <1>6, <2>1, <3>1, <3>3, <4>2
    <3> QED BY <2>1, <3>2, <3>3
  <2>7. InOrder(t, served, issued + 1)
    <3>1. served <= issued + 1
      BY <1>2, <1>4 DEF InOrder
    <3> QED BY <2>3, <2>4, <2>5, <2>6, <3>1 DEF InOrder
  <2> QED BY <1>1, <1>3, <1>6, <2>7 DEF OrderInv, t
<1> QED BY <1>1, <1>5, <1>6 DEF OrderInv

\* The message sent goes from the sender to the channel.
LEMMA DeliverInOrder ==
  ASSUME TypeOK, OrderInv, Deliver
  PROVE  OrderInv'
<1>1. /\ rx' = Append(rx, sending) /\ sending' = NoMessage /\ sending \in Message
      /\ UNCHANGED <<pending, served, issued, closed>>
      /\ pending \in Seq(Message) /\ rx \in Seq(Message)
  BY QueueTypes DEF Deliver, thread, done, TypeOK
<1>2. Unserved' = (pending \o Append(rx, sending)) \o <<NoMessage>>
  BY <1>1 DEF Unserved
<1>3. pending \o Append(rx, sending) = Unserved
  BY <1>1 DEF Unserved
<1>4. Unserved' = Unserved \o <<NoMessage>> /\ Unserved \in Seq(Entry)
  BY <1>2, <1>3, UnservedTypes
<1>5. Unserved' \in Seq(Entry) /\ SameAsks(Unserved', Unserved)
  BY <1>4, SameLast
<1>6. served \in Nat /\ issued \in Nat
  BY DEF TypeOK
<1> QED BY <1>1, <1>4, <1>5, <1>6, SameInOrder DEF OrderInv

\* The thread takes the next number, or a message that has none.
LEMMA TakeInOrder ==
  ASSUME TypeOK, OrderInv, Take
  PROVE  OrderInv'
<1>1. PICK kind \in Kinds : Receive(kind)
  BY DEF Take, ReceiveStop, ReceiveSameConfiguration, ReceiveConfiguration, ReceiveRefresh,
         ReceiveRun, Kinds
<1>2. /\ UNCHANGED <<sending, issued, closed>>
      /\ served' = IF Upcoming.kind \in {"configure", "run"} THEN Upcoming.id ELSE served
      /\ Upcoming \in Message
  BY <1>1, QueueTypes DEF Receive, asked
<1>3. /\ pending \in Seq(Message) /\ rx \in Seq(Message) /\ <<sending>> \in Seq(Entry)
      /\ served \in Nat /\ issued \in Nat
  BY UnservedTypes DEF TypeOK
<1>4. Unserved = <<Upcoming>> \o Unserved' /\ Unserved' \in Seq(Entry)
  <2>1. CASE pending # <<>>
    <3>1. /\ pending = <<Head(pending)>> \o Tail(pending) /\ Tail(pending) \in Seq(Message)
          /\ Head(pending) \in Message
      BY <1>3, <2>1
    <3>2. Unserved' = Tail(pending) \o rx \o <<sending>> /\ Upcoming = Head(pending)
      BY <1>1, <1>2, <2>1 DEF Receive, Unserved, Upcoming
    <3>3. Tail(pending) \in Seq(Entry) /\ rx \in Seq(Entry) /\ <<Head(pending)>> \in Seq(Entry)
      BY <1>3, <3>1 DEF Entry
    <3>4. ASSUME NEW h \in Seq(Entry), NEW p \in Seq(Entry), NEW r \in Seq(Entry), NEW m \in Seq(Entry)
          PROVE  (h \o p) \o r \o m = h \o (p \o r \o m) /\ p \o r \o m \in Seq(Entry)
      OBVIOUS
    <3>5. /\ (<<Head(pending)>> \o Tail(pending)) \o rx \o <<sending>>
                = <<Head(pending)>> \o (Tail(pending) \o rx \o <<sending>>)
          /\ Tail(pending) \o rx \o <<sending>> \in Seq(Entry)
      BY <1>3, <3>3, <3>4
    <3>6. Unserved = (<<Head(pending)>> \o Tail(pending)) \o rx \o <<sending>>
      BY <3>1 DEF Unserved
    <3> QED BY <3>2, <3>5, <3>6
  <2>2. CASE pending = <<>>
    <3>1. Upcoming = Head(rx) /\ rx # <<>> /\ Unserved' = pending \o Tail(rx) \o <<sending>>
      BY <1>1, <1>2, <2>2 DEF Receive, Unserved, Upcoming, Waiting
    <3>2. rx = <<Head(rx)>> \o Tail(rx) /\ Tail(rx) \in Seq(Message) /\ Head(rx) \in Message
      BY <1>3, <3>1
    <3>3. Tail(rx) \in Seq(Entry) /\ <<Head(rx)>> \in Seq(Entry)
      BY <3>2 DEF Entry
    <3>4. ASSUME NEW h \in Seq(Entry), NEW p \in Seq(Entry), NEW m \in Seq(Entry)
          PROVE  (h \o p) \o m = h \o (p \o m) /\ p \o m \in Seq(Entry)
      OBVIOUS
    <3>5. <<>> \o rx = rx /\ <<>> \o Tail(rx) = Tail(rx)
      BY <1>3, <3>2
    <3>6. Unserved = rx \o <<sending>> /\ Unserved' = Tail(rx) \o <<sending>>
      BY <2>2, <3>1, <3>5 DEF Unserved
    <3>7. /\ (<<Head(rx)>> \o Tail(rx)) \o <<sending>> = <<Head(rx)>> \o (Tail(rx) \o <<sending>>)
          /\ Tail(rx) \o <<sending>> \in Seq(Entry)
      BY <1>3, <3>3, <3>4
    <3>8. Unserved = (<<Head(rx)>> \o Tail(rx)) \o <<sending>>
      BY <3>2, <3>6
    <3> QED BY <3>1, <3>6, <3>7, <3>8
  <2> QED BY <2>1, <2>2
<1> QED BY <1>2, <1>3, <1>4, HeadInOrder DEF OrderInv

\* No step breaks the order.
LEMMA OrderStep ==
  ASSUME TypeOK, OrderInv, [Next]_vars
  PROVE  OrderInv'
<1>1. TypeOK'
  BY TypeStep
<1>2. CASE Edit \/ TakeWake \/ Claim \/ Settle \/ Spawn \/ SpawnFails \/ Register
           \/ (\E ok \in BOOLEAN : Exit(ok)) \/ UNCHANGED vars
  <2>1. UNCHANGED <<pending, rx, sending, served, issued, closed>>
    BY <1>2 DEF Edit, TakeWake, Claim, Settle, Spawn, SpawnFails, Register, Exit, vars, mailbox,
                thread, asked, done
  <2> QED BY <2>1 DEF OrderInv, Unserved
<1> QED BY <1>1, <1>2, MarkInOrder, DeliverInOrder, TakeInOrder, QueueInOrder
        DEF Next, Serve, Joined

\* However the two queues of the mailbox are drained, coalesced and pushed
\* back, the thread serves every Configure and Run once, in the order in which
\* they were sent (actor.rs, receive, drain_pending and preserve_refresh).
THEOREM MessagesAreServedInOrder == Spec => []ServedInOrder
<1>1. Init => TypeOK /\ OrderInv
  <2> SUFFICES ASSUME Init
               PROVE  InOrder(Unserved, served, issued)
    BY TypeInit DEF OrderInv
  <2>1. pending = <<>> /\ rx = <<>> /\ sending = NoMessage /\ served = 0 /\ issued = 0
    BY DEF Init
  <2>2. Unserved = <<NoMessage>>
    BY <2>1 DEF Unserved
  <2>3. DOMAIN Unserved = {1} /\ Unserved[1] = NoMessage
    BY <2>2
  <2> QED BY <2>1, <2>3, EntryTypes DEF InOrder
<1>2. TypeOK /\ OrderInv /\ [Next]_vars => (TypeOK /\ OrderInv)'
  BY TypeStep, OrderStep
<1>3. TypeOK /\ OrderInv => ServedInOrder
  <2> SUFFICES ASSUME TypeOK, InOrder(Unserved, served, issued)
               PROVE  LET asks == {i \in DOMAIN Unserved : Unserved[i].id # 0} IN
                      /\ {Unserved[i].id : i \in asks} = (served + 1)..issued
                      /\ \A i, j \in asks : i < j => Unserved[i].id < Unserved[j].id
    BY DEF OrderInv, ServedInOrder
  <2> DEFINE asks == {i \in DOMAIN Unserved : Unserved[i].id # 0}
  <2>1. {Unserved[i].id : i \in asks} \subseteq (served + 1)..issued
    BY DEF InOrder
  <2>2. ASSUME NEW n \in (served + 1)..issued
        PROVE  n \in {Unserved[i].id : i \in asks}
    <3>1. n # 0
      BY DEF TypeOK
    <3> QED BY <3>1 DEF InOrder
  <2>3. \A i, j \in asks : i < j => Unserved[i].id < Unserved[j].id
    BY DEF InOrder
  <2> QED BY <2>1, <2>2, <2>3
<1> QED BY <1>1, <1>2, <1>3, PTL DEF Spec

-----------------------------------------------------------------------------
(***************************************************************************)
(* The Bazel thread implements PublishedTiers: what it publishes is what   *)
(* Bazel would answer now, as far as anyone has asked.                     *)
(*                                                                         *)
(* The thread knows that nothing was asked since it started an operation   *)
(* only from the messages it has not served.  So each part of the          *)
(* invariant says what the thread holds is current, unless a message that  *)
(* says otherwise is still queued; the check before a publication finds    *)
(* that message.                                                           *)
(***************************************************************************)
\* What the thread has still to serve.
Queued == pending \o rx

Busy       == pc \notin {"recv", "stopped"}
Probing    == Busy /\ Operation(stage) = "probe"
Refreshing == Busy /\ Operation(stage) = "refresh"

\* No message that changes the configuration, or asks for a refresh, is queued.
NoNewConfig  == ~Holds(Queued, {"configure", "stop"})
NoNewRefresh == ~Holds(Queued, {"refresh", "stop"})

\* Only a client's own answers are published; a probe has no client yet.
OwnersAgree ==
    /\ PublishedByTheClient
    /\ Probing => client = NoConfig
    /\ Refreshing => client # NoConfig
    /\ client # NoConfig => config = client
    /\ pc = "adopt" => config = next /\ Probing
    /\ Busy /\ stage = "flags" => config = next
    /\ Refreshing => pc \in {"claim", "sweep", "settle", "clear", "spawn", "register",
                             "wait", "finish"}
    /\ Busy /\ stage = "info" => mapping.config = client
    /\ Busy /\ stage = "query" => mapping = NoTier \/ mapping.config = client
    /\ pc = "finish" /\ stage = "dump" => ~reply.ok

\* The configuration in hand is the last one sent.
ConfigIsCurrent ==
    /\ \A c : LastAsk(Queued, c) => c = wanted
    /\ Probing /\ NoNewConfig => next = wanted
    /\ client # NoConfig /\ pc # "stopped" /\ NoNewConfig => client = wanted

\* The answers in hand are as recent as the last refresh sent.
AnswersAreCurrent ==
    /\ requested <= world /\ child.seen <= world /\ reply.seen <= world
    /\ mapping.seen <= world
    /\ Refreshing /\ HasChild /\ NoNewRefresh => requested <= child.seen
    /\ Refreshing /\ pc = "finish" /\ NoNewRefresh => requested <= reply.seen
    /\ Busy /\ stage \in {"info", "query"} /\ mapping # NoTier /\ NoNewRefresh
          => requested <= mapping.seen

\* A Stop that was sent is queued or was obeyed.
StopIsKept ==
    closed => pc = "stopped" \/ Holds(Queued, {"stop"}) \/ sending.kind = "stop"

PromiseInv == OwnersAgree /\ ConfigIsCurrent /\ AnswersAreCurrent /\ StopIsKept

-----------------------------------------------------------------------------
(* What each step does to the queue *)

\* The step forgets nothing that was asked: every kind of message that
\* matters is still queued, or replaced by a Stop, and the queue still ends
\* with the same configuration.
NothingForgotten ==
    /\ \A c : LastAsk(Queued', c) => LastAsk(Queued, c)
    /\ Holds(Queued, {"configure", "stop"}) => Holds(Queued', {"configure", "stop"})
    /\ Holds(Queued, {"refresh", "stop"}) => Holds(Queued', {"refresh", "stop"})
    /\ Holds(Queued, {"stop"}) => Holds(Queued', {"stop"})

\* Replacing `pending` by a queue that forgets nothing.
LEMMA PendingForgets ==
  ASSUME NEW q \in Seq(Message), NEW p \in Seq(Message), NEW r \in Seq(Message),
         \A kinds : Holds(q, kinds) => Holds(p, kinds),
         \A c : LastAsk(p, c) => LastAsk(q, c)
  PROVE  /\ \A kinds : Holds(q \o r, kinds) => Holds(p \o r, kinds)
         /\ \A c : LastAsk(p \o r, c) => LastAsk(q \o r, c)
<1>1. \A kinds : Holds(q \o r, kinds) => Holds(p \o r, kinds)
  BY HoldsConcat
<1>2. ASSUME NEW c, LastAsk(p \o r, c)
      PROVE  LastAsk(q \o r, c)
  <2>1. CASE Holds(r, {"configure"})
    <3>1. LastAsk(r, c)
      BY <1>2, <2>1, LastAskConcat
    <3> QED BY <3>1, LastAskConcat
  <2>2. CASE ~Holds(r, {"configure"})
    <3>1. LastAsk(r, c) => Holds(r, {"configure"})
      BY DEF LastAsk, Holds
    <3>2. LastAsk(p, c)
      BY <1>2, <2>2, <3>1, LastAskConcat
    <3> QED BY <2>2, <3>2, LastAskConcat
  <2> QED BY <2>1, <2>2
<1> QED BY <1>1, <1>2

\* The thread's own steps, the ones that take a message apart.
LEMMA ThreadForgets ==
  ASSUME TypeOK, Sweep \/ Clear \/ Finished \/ Adopt \/ UNCHANGED <<pending, rx>>
  PROVE  NothingForgotten
<1> DEFINE d == Drain(pending, rx)
<1>1. pending \in Seq(Message) /\ rx \in Seq(Message)
  BY DEF TypeOK
<1>2. /\ d \in Seq(Message)
      /\ \A kinds : "stop" \in kinds /\ Holds(Queued, kinds) => Holds(d, kinds)
      /\ \A c : LastAsk(d, c) => LastAsk(Queued, c)
  BY <1>1, DrainKeeps, DrainLastAsk, HoldsConcat DEF Queued
<1>3. ASSUME NEW q \in Seq(Message)
      PROVE  /\ Leftover(q) \in Seq(Message)
             /\ \A kinds : Holds(q, kinds) => Holds(Leftover(q), kinds)
             /\ \A c : LastAsk(Leftover(q), c) => LastAsk(q, c)
  BY PreserveKeeps, RefreshLastAsk DEF Leftover
<1>4. CASE Sweep \/ Finished
  <2>1. rx' = <<>> /\ pending' \in {d, Leftover(d)}
    BY <1>4 DEF Sweep, Finished, FinishSuperseded, FinishProbe, FinishFlags, FinishRepos,
                Publish, Finish
  <2>2. Queued' \in {d, Leftover(d)}
    <3>1. \A q \in Seq(Message) : q \o <<>> = q
      OBVIOUS
    <3>2. Queued' = pending' \o <<>>
      BY <2>1 DEF Queued
    <3> HIDE DEF d
    <3> QED BY <1>2, <1>3, <2>1, <3>1, <3>2
  <2> HIDE DEF d
  <2> QED BY <1>2, <1>3, <2>2 DEF NothingForgotten
<1>5. CASE Clear
  <2>1. Queued' = Leftover(pending) \o rx
    BY <1>5 DEF Clear, Queued
  <2> QED BY <1>1, <1>3, <2>1, PendingForgets DEF NothingForgotten, Queued
<1>6. CASE Adopt
  <2> DEFINE a == Append(pending, Refresh)
             p == CoalesceRefreshes(a)
  <2>1. a \in Seq(Message) /\ a = pending \o <<Refresh>> /\ <<Refresh>> \in Seq(Message)
    BY <1>1, MessageTypes
  <2>2. p \in Seq(Message) /\ \A kinds : Holds(p, kinds) <=> Holds(a, kinds)
    BY <2>1, CoalesceKeeps
  <2>3. \A kinds : Holds(pending, kinds) => Holds(a, kinds)
    <3> HIDE DEF a
    <3> QED BY <1>1, <2>1, HoldsConcat
  <2>4. \A c : LastAsk(p, c) => LastAsk(pending, c)
    BY <1>1, <2>1, CoalesceLastAsk, RefreshLastAsk
  <2>5. Queued' = p \o rx
    BY <1>6 DEF Adopt, Queued, mailbox
  <2> HIDE DEF p, a
  <2> QED BY <1>1, <2>2, <2>3, <2>4, <2>5, PendingForgets DEF NothingForgotten, Queued
<1>7. CASE UNCHANGED <<pending, rx>>
  BY <1>7 DEF NothingForgotten, Queued
<1> QED BY <1>4, <1>5, <1>6, <1>7

\* Taking a message removes the first of the queue.
LEMMA TakeForgets ==
  ASSUME TypeOK, NEW kind, Receive(kind)
  PROVE  /\ \A c : LastAsk(Queued', c) => LastAsk(Queued, c)
         /\ \A kinds : Holds(Queued, kinds) /\ kind \notin kinds => Holds(Queued', kinds)
         /\ kind = "configure" /\ ~Holds(Queued', {"configure"})
               => LastAsk(Queued, Upcoming.config)
<1> DEFINE h == <<Upcoming>>
<1>1. pending \in Seq(Message) /\ rx \in Seq(Message) /\ Upcoming \in Message
  BY QueueTypes DEF TypeOK, Receive
<1>2. Queued = h \o Queued' /\ Queued' \in Seq(Message) /\ h \in Seq(Message)
  <2>1. CASE pending # <<>>
    <3>1. Queued' = Tail(pending) \o rx /\ Upcoming = Head(pending)
      BY <2>1 DEF Receive, Queued, Upcoming
    <3>2. pending = <<Head(pending)>> \o Tail(pending) /\ Tail(pending) \in Seq(Message)
      BY <1>1, <2>1
    <3> QED BY <1>1, <3>1, <3>2 DEF Queued
  <2>2. CASE pending = <<>>
    <3>1. Queued' = pending \o Tail(rx) /\ Upcoming = Head(rx) /\ rx # <<>>
      BY <2>2 DEF Receive, Queued, Upcoming, Waiting
    <3>2. rx = <<Head(rx)>> \o Tail(rx) /\ Tail(rx) \in Seq(Message)
      BY <1>1, <3>1
    <3>3. <<>> \o rx = rx /\ <<>> \o Tail(rx) = Tail(rx)
      BY <1>1, <3>2
    <3>4. Queued = rx /\ Queued' = Tail(rx)
      BY <2>2, <3>1, <3>3 DEF Queued
    <3>5. h \in Seq(Message)
      BY <1>1
    <3> QED BY <3>1, <3>2, <3>4, <3>5
  <2> QED BY <2>1, <2>2
<1>3. \A kinds : Holds(h, kinds) <=> kind \in kinds
  BY DEF Holds, Receive
<1>4. kind = "configure" => LastAsk(h, Upcoming.config)
  BY DEF LastAsk, Receive
<1> HIDE DEF h
<1>5. \A c : LastAsk(Queued', c) => LastAsk(Queued, c)
  BY <1>2, LastAskConcat
<1>6. \A kinds : Holds(Queued, kinds) <=> Holds(h, kinds) \/ Holds(Queued', kinds)
  BY <1>2, HoldsConcat
<1> QED BY <1>2, <1>3, <1>4, <1>5, <1>6, LastAskConcat

-----------------------------------------------------------------------------
(* Who owns what is published *)

LEMMA OwnersStep ==
  ASSUME TypeOK, OwnersAgree, [Next]_vars
  PROVE  OwnersAgree'
<1> USE DEF OwnersAgree, PublishedByTheClient, Busy, Probing, Refreshing
<1>1. CASE Senders \/ Deliver \/ Edit \/ UNCHANGED vars
  <2>1. UNCHANGED <<pc, stage, config, client, next, mapping, reply, graph, repos, catalog>>
    BY <1>1 DEF Senders, Reconfigure, RunTarget, AskRefresh, DropBazel, Mark, Deliver, Edit,
                vars, thread, published
  <2> QED BY <2>1
<1>2. CASE TakeWake
  BY <1>2 DEF TakeWake, thread
<1>3. CASE Take
  <2> USE DEF Receive, published
  <2>1. CASE ReceiveStop
    BY <2>1 DEF ReceiveStop
  <2>2. CASE ReceiveSameConfiguration
    BY <2>2 DEF ReceiveSameConfiguration
  <2>3. CASE ReceiveConfiguration
    BY <2>3 DEF ReceiveConfiguration, NoTier, Operation
  <2>4. CASE ReceiveRefresh
    BY <2>4 DEF ReceiveRefresh, NoTier, Operation
  <2>5. CASE ReceiveRun
    BY <2>5 DEF ReceiveRun
  <2> QED BY <1>3, <2>1, <2>2, <2>3, <2>4, <2>5 DEF Take
<1>4. CASE Claim \/ Sweep \/ Settle \/ Clear \/ Spawn \/ Register
  BY <1>4 DEF Claim, Sweep, Settle, Clear, Spawn, Register, published
<1>5. CASE SpawnFails
  BY <1>5 DEF SpawnFails, published
<1>6. CASE Adopt
  BY <1>6 DEF Adopt
<1>7. ASSUME NEW ok \in BOOLEAN, Exit(ok)
      PROVE  OwnersAgree'
  BY <1>7 DEF Exit, published, Operation
<1>8. CASE Finished
  <2> USE DEF Finish
  <2>1. CASE FinishSuperseded
    BY <2>1 DEF FinishSuperseded, published
  <2>2. ASSUME NEW flags \in BOOLEAN, FinishProbe(flags)
        PROVE  OwnersAgree'
    BY <2>2 DEF FinishProbe, published, Operation
  <2>3. CASE FinishFlags
    BY <2>3 DEF FinishFlags, published, Operation
  <2>4. CASE FinishRepos
    BY <2>4 DEF FinishRepos, published, Operation, TypeOK
  <2>5. CASE Publish
    BY <2>5 DEF Publish, NoTier
  <2> QED BY <1>8, <2>1, <2>2, <2>3, <2>4, <2>5 DEF Finished
<1> QED BY <1>1, <1>2, <1>3, <1>4, <1>5, <1>6, <1>7, <1>8 DEF Next, Serve, Joined

\* Readers never see a graph, a repository mapping or a flag catalog of another
\* configuration than the client's, whatever the configurations are and however
\* many are sent (actor.rs, Message::Configure).
THEOREM PublicationsHaveAnOwner == Spec => []PublishedByTheClient
<1>1. Init => TypeOK /\ OwnersAgree
  <2>1. Init => OwnersAgree
    BY DEF Init, OwnersAgree, PublishedByTheClient, NoTier, Busy, Probing, Refreshing
  <2> QED BY <2>1, TypeInit
<1>2. TypeOK /\ OwnersAgree /\ [Next]_vars => (TypeOK /\ OwnersAgree)'
  BY TypeStep, OwnersStep
<1>3. OwnersAgree => PublishedByTheClient
  BY DEF OwnersAgree
<1> QED BY <1>1, <1>2, <1>3, PTL DEF Spec

-----------------------------------------------------------------------------
(* What is in hand is current *)

\* Sending puts a message at the end of the queue.
LEMMA DeliverQueues ==
  ASSUME TypeOK, Deliver
  PROVE  /\ \A kinds : Holds(Queued', kinds) <=> Holds(Queued, kinds) \/ sending.kind \in kinds
         /\ \A c : LastAsk(Queued', c) =>
              IF sending.kind = "configure" THEN sending.config = c ELSE LastAsk(Queued, c)
<1>1. sending \in Message /\ Queued \in Seq(Message)
  BY QueueTypes DEF Deliver, TypeOK, Queued
<1>2. Queued' = Append(Queued, sending) /\ Append(Queued, sending) = Queued \o <<sending>>
  <2>1. pending' = pending /\ rx' = Append(rx, sending)
    BY DEF Deliver, thread
  <2>2. pending \in Seq(Message) /\ rx \in Seq(Message)
    BY DEF TypeOK
  <2> QED BY <1>1, <2>1, <2>2 DEF Queued
<1>3. \A kinds : Holds(Queued \o <<sending>>, kinds) <=> Holds(Queued, kinds) \/ sending.kind \in kinds
  BY <1>1, HoldsLast
<1> QED BY <1>1, <1>2, <1>3, AppendLastAsk

\* The thread stops if it was told to.
LEMMA StopStep ==
  ASSUME TypeOK, StopIsKept, [Next]_vars
  PROVE  StopIsKept'
<1>1. CASE Senders
  <2>1. ~closed
    BY <1>1 DEF Senders, Reconfigure, RunTarget, AskRefresh, DropBazel, Mark
  <2>2. closed' => closed \/ sending'.kind = "stop"
    <3>1. CASE DropBazel
      BY <3>1 DEF DropBazel, Mark, Stop
    <3>2. CASE ~DropBazel
      BY <1>1, <3>2 DEF Senders, Reconfigure, RunTarget, AskRefresh
    <3> QED BY <3>1, <3>2
  <2> QED BY <2>1, <2>2 DEF StopIsKept
<1>2. CASE Deliver
  <2>1. closed' = closed /\ pc' = pc /\ sending.kind # NoMessage.kind
    BY <1>2, QueueTypes DEF Deliver, thread, Message, Kinds, NoMessage
  <2>2. Holds(Queued, {"stop"}) \/ sending.kind = "stop" => Holds(Queued', {"stop"})
    BY <1>2, DeliverQueues
  <2> QED BY <2>1, <2>2 DEF StopIsKept, Holds
<1>3. CASE Take
  <2>1. closed' = closed /\ sending' = sending /\ pc = "recv"
    BY <1>3 DEF Take, ReceiveStop, ReceiveSameConfiguration, ReceiveConfiguration,
                ReceiveRefresh, ReceiveRun, Receive, asked
  <2>2. CASE ReceiveStop
    BY <2>2 DEF ReceiveStop, StopIsKept
  <2>3. ASSUME NEW kind, Receive(kind), kind # "stop"
        PROVE  Holds(Queued, {"stop"}) => Holds(Queued', {"stop"})
    BY <2>3, TakeForgets
  <2>4. ~ReceiveStop => (Holds(Queued, {"stop"}) => Holds(Queued', {"stop"}))
    BY <1>3, <2>3 DEF Take, ReceiveSameConfiguration, ReceiveConfiguration,
                      ReceiveRefresh, ReceiveRun
  <2> QED BY <2>1, <2>2, <2>4 DEF StopIsKept, Holds
<1>4. CASE Edit \/ TakeWake \/ Serve \/ (\E ok \in BOOLEAN : Exit(ok)) \/ UNCHANGED vars
  <2>1. SUFFICES ASSUME ~Take
                 PROVE  StopIsKept'
    BY <1>3
  <2>2. /\ closed' = closed /\ sending' = sending /\ (pc = "stopped" => pc' = "stopped")
        /\ Sweep \/ Clear \/ Finished \/ Adopt \/ UNCHANGED <<pending, rx>>
    BY <1>4, <2>1 DEF Serve, Edit, TakeWake, Claim, Sweep, Settle, Clear, Spawn, SpawnFails,
       Register, Finished, FinishSuperseded, FinishProbe, FinishFlags, FinishRepos, Publish,
       Finish, Adopt, Exit, vars, mailbox, thread, asked
  <2>3. Holds(Queued, {"stop"}) => Holds(Queued', {"stop"})
    BY <2>2, ThreadForgets DEF NothingForgotten
  <2> QED BY <2>2, <2>3 DEF StopIsKept, Holds
<1> QED BY <1>1, <1>2, <1>3, <1>4 DEF Next, Joined

\* The configuration in hand is the last one sent.
LEMMA ConfigStep ==
  ASSUME TypeOK, OwnersAgree, ConfigIsCurrent, [Next]_vars
  PROVE  ConfigIsCurrent'
<1> USE DEF Busy, Probing
<1>1. CASE Deliver
  <2>1. UNCHANGED <<pc, stage, client, next>>
    BY <1>1 DEF Deliver, thread
  <2>2. \A c : LastAsk(Queued', c) => c = wanted'
    BY <1>1, DeliverQueues DEF ConfigIsCurrent, Deliver
  <2>3. NoNewConfig' => NoNewConfig /\ wanted' = wanted
    <3>1. NoNewConfig' => ~Holds(Queued', {"configure", "stop"})
      BY DEF NoNewConfig, Holds
    <3> QED BY <1>1, <3>1, DeliverQueues DEF NoNewConfig, Deliver
  <2> QED BY <2>1, <2>2, <2>3 DEF ConfigIsCurrent
<1>2. CASE Take
  <2>1. wanted' = wanted
    BY <1>2 DEF Take, ReceiveStop, ReceiveSameConfiguration, ReceiveConfiguration,
                ReceiveRefresh, ReceiveRun, Receive, asked
  <2>2. \A c : LastAsk(Queued', c) => c = wanted
    BY <1>2, TakeForgets DEF Take, ReceiveStop, ReceiveSameConfiguration, ConfigIsCurrent,
       ReceiveConfiguration, ReceiveRefresh, ReceiveRun
  <2>3. NoNewConfig' => ~Holds(Queued', {"configure", "stop"}) /\ ~Holds(Queued', {"configure"})
    BY DEF NoNewConfig, Holds
  <2>4. CASE ReceiveStop
    BY <2>1, <2>2, <2>4 DEF ReceiveStop, ConfigIsCurrent
  <2>5. ASSUME ReceiveSameConfiguration \/ ReceiveConfiguration, NoNewConfig'
        PROVE  Upcoming.config = wanted
    BY <2>3, <2>5, TakeForgets DEF ReceiveSameConfiguration, ReceiveConfiguration, ConfigIsCurrent
  <2>6. CASE ReceiveSameConfiguration
    BY <2>1, <2>2, <2>5, <2>6 DEF ReceiveSameConfiguration, Receive, InForce, OwnersAgree,
       ConfigIsCurrent
  <2>7. CASE ReceiveConfiguration
    BY <2>1, <2>2, <2>5, <2>7 DEF ReceiveConfiguration, ConfigIsCurrent
  <2>8. ASSUME ReceiveRefresh \/ ReceiveRun, NoNewConfig'
        PROVE  NoNewConfig
    BY <2>3, <2>8, TakeForgets DEF ReceiveRefresh, ReceiveRun, NoNewConfig
  <2>9. CASE ReceiveRefresh \/ ReceiveRun
    BY <2>1, <2>2, <2>8, <2>9 DEF ReceiveRefresh, ReceiveRun, Receive, ConfigIsCurrent, Operation
  <2> QED BY <1>2, <2>4, <2>6, <2>7, <2>9 DEF Take
<1>3. CASE Senders \/ Edit \/ TakeWake \/ Serve \/ (\E ok \in BOOLEAN : Exit(ok)) \/ UNCHANGED vars
  <2>1. SUFFICES ASSUME ~Take
                 PROVE  ConfigIsCurrent'
    BY <1>2
  <2>2. /\ wanted' = wanted /\ next' = next
        /\ client' = client \/ Adopt
        /\ Sweep \/ Clear \/ Finished \/ Adopt \/ UNCHANGED <<pending, rx>>
    BY <1>3, <2>1 DEF Serve, Edit, TakeWake, Claim, Sweep, Settle, Clear, Spawn, SpawnFails,
       Register, Finished, FinishSuperseded, FinishProbe, FinishFlags, FinishRepos, Publish,
       Finish, Adopt, Exit, vars, mailbox, thread, asked, Senders, Reconfigure, RunTarget,
       AskRefresh, DropBazel, Mark
  <2>3. /\ \A c : LastAsk(Queued', c) => LastAsk(Queued, c)
        /\ NoNewConfig' => NoNewConfig
    BY <2>2, ThreadForgets DEF NothingForgotten, NoNewConfig, Holds
  <2>4. Probing' => Probing
    BY <1>3, <2>1 DEF Serve, Edit, TakeWake, Claim, Sweep, Settle, Clear, Spawn, SpawnFails,
       Register, Finished, FinishSuperseded, FinishProbe, FinishFlags, FinishRepos, Publish,
       Finish, Adopt, Exit, vars, mailbox, thread, Senders, Reconfigure, RunTarget,
       AskRefresh, DropBazel, Mark, Operation
  <2>5. Adopt => Probing /\ client' = next
    BY DEF Adopt, OwnersAgree
  <2>6. pc = "stopped" => pc' = "stopped"
    BY <1>3, <2>1 DEF Serve, Edit, TakeWake, Claim, Sweep, Settle, Clear, Spawn, SpawnFails,
       Register, Finished, FinishSuperseded, FinishProbe, FinishFlags, FinishRepos, Publish,
       Finish, Adopt, Exit, vars, mailbox, thread, Senders, Reconfigure, RunTarget,
       AskRefresh, DropBazel, Mark
  <2> QED BY <2>2, <2>3, <2>4, <2>5, <2>6 DEF ConfigIsCurrent
<1> QED BY <1>1, <1>2, <1>3 DEF Next, Joined

\* The answers in hand are as recent as the last refresh sent: a command that
\* starts now sees the workspace as it is now.
LEMMA AnswersStep ==
  ASSUME TypeOK, OwnersAgree, AnswersAreCurrent, [Next]_vars
  PROVE  AnswersAreCurrent'
<1> USE DEF Busy, Refreshing, HasChild
<1>1. CASE Deliver
  <2>1. UNCHANGED <<pc, stage, child, reply, mapping, world>>
    BY <1>1 DEF Deliver, thread, around
  <2>2. NoNewRefresh' => NoNewRefresh /\ requested' = requested
    <3>1. NoNewRefresh' => ~Holds(Queued', {"refresh", "stop"})
      BY DEF NoNewRefresh, Holds
    <3> QED BY <1>1, <3>1, DeliverQueues DEF NoNewRefresh, Deliver
  <2>3. requested' <= world
    BY <1>1 DEF Deliver, AnswersAreCurrent, TypeOK
  <2> QED BY <2>1, <2>2, <2>3 DEF AnswersAreCurrent
<1>2. CASE Take
  <2>1. /\ UNCHANGED <<world, requested, child, reply, mapping>>
        /\ pc' \notin {"register", "wait", "finish"}
        /\ pc' \notin {"recv", "stopped"} => stage' \notin {"info", "query"}
    BY <1>2 DEF Take, ReceiveStop, ReceiveSameConfiguration, ReceiveConfiguration,
                ReceiveRefresh, ReceiveRun, Receive, asked, around
  <2> QED BY <2>1 DEF AnswersAreCurrent
<1>3. CASE Edit
  <2>1. UNCHANGED <<pc, stage, child, reply, mapping, requested, rx, pending>> /\ world' = world + 1
    BY <1>3 DEF Edit, thread, asked, mailbox
  <2>2. NoNewRefresh' => NoNewRefresh
    BY <2>1, ThreadForgets DEF NothingForgotten, NoNewRefresh, Holds
  <2> QED BY <2>1, <2>2 DEF AnswersAreCurrent, TypeOK, Tier
<1>4. CASE Senders \/ TakeWake \/ Serve \/ (\E ok \in BOOLEAN : Exit(ok)) \/ UNCHANGED vars
  <2>1. SUFFICES ASSUME ~Take
                 PROVE  AnswersAreCurrent'
    BY <1>2
  <2>2. /\ world' = world /\ requested' = requested
        /\ Sweep \/ Clear \/ Finished \/ Adopt \/ UNCHANGED <<pending, rx>>
    BY <1>4, <2>1 DEF Serve, TakeWake, Claim, Sweep, Settle, Clear, Spawn, SpawnFails,
       Register, Finished, FinishSuperseded, FinishProbe, FinishFlags, FinishRepos, Publish,
       Finish, Adopt, Exit, vars, mailbox, thread, asked, around, Senders, Reconfigure,
       RunTarget, AskRefresh, DropBazel, Mark
  <2>3. NoNewRefresh' => NoNewRefresh
    BY <2>2, ThreadForgets DEF NothingForgotten, NoNewRefresh, Holds
  <2>4. CASE Senders \/ Register
    <3>1. /\ child'.seen = child.seen
          /\ UNCHANGED <<stage, reply, mapping>>
          /\ pc' = pc \/ (pc = "register" /\ pc' = "wait")
      BY <2>4 DEF Senders, Reconfigure, RunTarget, AskRefresh, DropBazel, Mark, Register,
                  Interrupted, TypeOK
    <3> QED BY <2>2, <2>3, <3>1 DEF AnswersAreCurrent
  <2>5. CASE TakeWake \/ Claim \/ Sweep \/ Settle \/ Clear \/ UNCHANGED vars
    <3>1. /\ UNCHANGED <<stage, child, reply, mapping>>
          /\ \/ pc' = pc
             \/ pc' \in {"recv", "sweep", "settle", "clear", "spawn"} /\ pc \notin {"recv", "stopped"}
      BY <2>5 DEF TakeWake, Claim, Sweep, Settle, Clear, vars, thread
    <3> QED BY <2>2, <2>3, <3>1 DEF AnswersAreCurrent
  <2>6. CASE Spawn
    BY <2>2, <2>3, <2>6 DEF Spawn, AnswersAreCurrent, TypeOK
  <2>7. CASE SpawnFails
    BY <2>2, <2>3, <2>7 DEF SpawnFails, AnswersAreCurrent, TypeOK
  <2>8. ASSUME NEW ok \in BOOLEAN, Exit(ok)
        PROVE  AnswersAreCurrent'
    <3>1. /\ reply'.seen = child.seen /\ child' = NoChild
          /\ \/ mapping' = mapping /\ stage' = stage /\ pc' = "finish"
             \/ mapping'.seen = child.seen /\ stage = "dump" /\ pc' = "spawn"
      BY <2>8 DEF Exit
    <3>2. pc = "wait" /\ child.seen \in Nat
      BY <2>8 DEF Exit, TypeOK
    <3>3. Refreshing' => Refreshing
      BY <2>8 DEF Exit, Operation
    <3>4. 0 <= world
      BY DEF TypeOK
    <3>5. mapping' # NoTier /\ stage' \in {"info", "query"} /\ NoNewRefresh'
            => requested <= mapping'.seen
      BY <2>3, <3>1, <3>2 DEF AnswersAreCurrent, Operation
    <3> QED BY <2>2, <2>3, <3>1, <3>2, <3>3, <3>4, <3>5 DEF AnswersAreCurrent, NoChild
  <2>9. CASE Finished \/ Adopt
    <3>1. /\ UNCHANGED <<child, reply>> /\ pc' \in {"recv", "claim", "adopt"}
          /\ pc \in {"finish", "adopt"}
      BY <2>9 DEF Finished, FinishSuperseded, FinishProbe, FinishFlags, FinishRepos, Publish,
                  Finish, Adopt
    <3>2. mapping' \in {mapping, NoTier} /\ (mapping' # mapping => stage' = "query")
      BY <2>9 DEF Finished, FinishSuperseded, FinishProbe, FinishFlags, FinishRepos, Publish,
                  Finish, Adopt
    <3>3. mapping' # NoTier /\ stage' \in {"info", "query"} /\ pc' # "recv" => stage \in {"info", "query"}
      BY <2>9 DEF Finished, FinishSuperseded, FinishProbe, FinishFlags, FinishRepos, Publish,
                  Finish, Adopt, OwnersAgree
    <3>4. NoTier.seen <= world
      BY DEF NoTier, TypeOK
    <3> QED BY <2>2, <2>3, <3>1, <3>2, <3>3, <3>4 DEF AnswersAreCurrent
  <2> QED BY <1>4, <2>1, <2>4, <2>5, <2>6, <2>7, <2>8, <2>9 DEF Serve
<1> QED BY <1>1, <1>2, <1>3, <1>4 DEF Next, Joined

-----------------------------------------------------------------------------
(* The refinement *)

Inv == TypeOK /\ InterruptInv /\ PromiseInv

LEMMA InvInit ==
  Init => Inv
<1> SUFFICES ASSUME Init
             PROVE  PromiseInv
  BY TypeInit, InterruptInit DEF Inv
<1>1. pending \o rx = <<>>
  BY DEF Init
<1>2. OwnersAgree
  BY DEF Init, OwnersAgree, PublishedByTheClient, NoTier, Busy, Probing, Refreshing
<1>3. ConfigIsCurrent
  BY <1>1 DEF Init, ConfigIsCurrent, Probing, Busy, LastAsk, Queued
<1>4. AnswersAreCurrent
  BY DEF Init, AnswersAreCurrent, Refreshing, Busy, HasChild, NoChild, NoTier
<1>5. StopIsKept
  BY DEF Init, StopIsKept
<1> QED BY <1>2, <1>3, <1>4, <1>5 DEF PromiseInv

LEMMA InvStep ==
  Inv /\ [Next]_vars => Inv'
<1> SUFFICES ASSUME Inv, [Next]_vars
             PROVE  Inv'
  OBVIOUS
<1>1. TypeOK'
  BY TypeStep DEF Inv
<1>2. InterruptInv'
  BY <1>1, InterruptStep DEF Inv
<1>3. OwnersAgree' /\ ConfigIsCurrent' /\ AnswersAreCurrent' /\ StopIsKept'
  BY OwnersStep, ConfigStep, AnswersStep, StopStep DEF Inv, PromiseInv
<1> QED BY <1>1, <1>2, <1>3 DEF Inv, PromiseInv

\* When publish_current finds nothing against it, what it publishes is current.
LEMMA PublishIsCurrent ==
  ASSUME Inv, Publish
  PROVE  Promise!Publish
<1>1. /\ ~IsSuperseded(Drain(pending, rx)) /\ pc = "finish" /\ stage = "query"
      /\ sending = NoMessage
  BY DEF Publish, Finish, LockFree
<1>2. ~Holds(Queued, Against)
  <2>1. ~Holds(Drain(pending, rx), Against)
    BY <1>1 DEF IsSuperseded, Against
  <2>2. Holds(Drain(pending, rx), Against) <=> Holds(pending, Against) \/ Holds(rx, Against)
    BY HoldsUnread DEF Inv
  <2> QED BY <2>1, <2>2, HoldsConcat DEF Queued, Inv, TypeOK
<1>3. Against = {"configure", "refresh", "run", "stop"}
  BY <1>1 DEF Against, Superseding, Operation
<1>4. NoNewConfig /\ NoNewRefresh /\ ~Holds(Queued, {"stop"})
  BY <1>2, <1>3 DEF NoNewConfig, NoNewRefresh, Holds
<1>5. ~closed
  BY <1>1, <1>4 DEF Inv, PromiseInv, StopIsKept, NoMessage
<1>6. Refreshing /\ Busy /\ pc # "stopped"
  BY <1>1 DEF Refreshing, Busy, Operation
<1>7. client = wanted /\ wanted # NoConfig
  BY <1>4, <1>6 DEF Inv, PromiseInv, ConfigIsCurrent, OwnersAgree
<1>8. /\ requested <= reply.seen /\ reply.seen <= world
      /\ mapping # NoTier => requested <= mapping.seen /\ mapping.seen <= world
  BY <1>1, <1>4, <1>6 DEF Inv, PromiseInv, AnswersAreCurrent
<1>9. [config |-> client, seen |-> reply.seen] \in Promise!Current
  BY <1>7, <1>8 DEF Promise!Current, Inv, TypeOK
<1>10. mapping # NoTier => mapping \in Promise!Current
  <2>1. mapping # NoTier => mapping.config = wanted
    BY <1>1, <1>6, <1>7 DEF Inv, PromiseInv, OwnersAgree
  <2> QED BY <2>1, <1>8 DEF Promise!Current, Inv, TypeOK, Tier
<1>11. graph' \in Promise!Current \cup {graph} /\ repos' \in Promise!Current \cup {repos}
  BY <1>9, <1>10 DEF Publish
<1>12. UNCHANGED <<world, wanted, requested, closed>>
  BY DEF Publish, Finish, around, asked
<1> QED BY <1>5, <1>7, <1>11, <1>12 DEF Promise!Publish, Promise!asks

LEMMA PromiseStep ==
  ASSUME Inv, [Next]_vars
  PROVE  [Promise!Next]_Promise!vars
<1> USE DEF Promise!Next, Promise!vars, Promise!asks, Promise!tiers
<1>1. CASE Senders
  <2>1. UNCHANGED <<world, wanted, requested, graph, repos>>
    BY <1>1 DEF Senders, Reconfigure, RunTarget, AskRefresh, DropBazel, Mark, published, around
  <2>2. CASE DropBazel
    BY <2>1, <2>2 DEF DropBazel, Promise!AskStop
  <2>3. CASE ~DropBazel
    <3>1. UNCHANGED closed
      BY <1>1, <2>3 DEF Senders, Reconfigure, RunTarget, AskRefresh
    <3> QED BY <2>1, <3>1
  <2> QED BY <2>2, <2>3
<1>2. CASE Deliver
  <2>1. UNCHANGED <<world, closed, graph, repos>>
    BY <1>2 DEF Deliver, published, around
  <2>2. CASE sending.kind = "configure"
    <3>1. wanted' = sending.config /\ requested' = requested
      BY <1>2, <2>2 DEF Deliver
    <3>2. sending.config \in Configs
      BY <1>2, <2>2, QueueTypes DEF Deliver, Message, Inv
    <3> QED BY <2>1, <3>1, <3>2 DEF Promise!AskConfiguration
  <2>3. CASE sending.kind = "refresh"
    <3>1. wanted' = wanted /\ requested' = world
      BY <1>2, <2>3 DEF Deliver
    <3> QED BY <2>1, <3>1 DEF Promise!AskRefresh
  <2>4. CASE sending.kind \notin {"configure", "refresh"}
    BY <1>2, <2>1, <2>4 DEF Deliver
  <2> QED BY <2>2, <2>3, <2>4
<1>3. CASE Edit
  BY <1>3 DEF Edit, published, asked, Promise!Edit
<1>4. CASE Take
  <2>1. UNCHANGED <<world, wanted, requested, closed>>
    BY <1>4 DEF Take, ReceiveStop, ReceiveSameConfiguration, ReceiveConfiguration,
                ReceiveRefresh, ReceiveRun, Receive, asked, around
  <2>2. CASE ReceiveConfiguration \/ ReceiveRefresh
    BY <2>1, <2>2 DEF ReceiveConfiguration, ReceiveRefresh, Promise!Withdraw, NoTier,
                      Promise!NoTier
  <2>3. CASE ReceiveStop \/ ReceiveSameConfiguration \/ ReceiveRun
    BY <2>1, <2>3 DEF ReceiveStop, ReceiveSameConfiguration, ReceiveRun, published
  <2> QED BY <1>4, <2>2, <2>3 DEF Take
<1>5. CASE Publish
  BY <1>5, PublishIsCurrent
<1>6. CASE TakeWake \/ Serve \/ (\E ok \in BOOLEAN : Exit(ok)) \/ UNCHANGED vars
  <2>1. SUFFICES ASSUME ~Take, ~Publish
                 PROVE  UNCHANGED <<world, wanted, requested, closed, graph, repos>>
    BY <1>4, <1>5
  <2> QED BY <1>6, <2>1 DEF Serve, TakeWake, Claim, Sweep, Settle, Clear, Spawn, SpawnFails,
       Register, Finished, FinishSuperseded, FinishProbe, FinishFlags, FinishRepos,
       Finish, Adopt, Exit, vars, published, asked, around
<1> QED BY <1>1, <1>2, <1>3, <1>4, <1>5, <1>6 DEF Next, Joined

\* The Bazel thread keeps its promise to the readers of the index: whatever is
\* sent to it, whenever Bazel answers and however often the workspace changes,
\* it publishes only what Bazel said, for the last configuration sent, of a
\* workspace no older than the last refresh sent, and nothing once it is told
\* to stop (publish_current and serve implement PublishedTiers).
THEOREM ThreadKeepsPromise == Spec => KeepsPromise
<1>1. Init => Promise!Init
  BY DEF Init, Promise!Init, NoTier, Promise!NoTier
<1>2. Inv /\ [Next]_vars => [Promise!Next]_Promise!vars
  BY PromiseStep
<1> QED BY <1>1, <1>2, InvInit, InvStep, PTL DEF Spec, KeepsPromise, Promise!Spec

-----------------------------------------------------------------------------
(* At rest nothing that was asked is forgotten *)

\* A probe that was interrupted, or is being abandoned, was superseded by a
\* message that is still to be served.
ProbeIsGivenUp ==
    Probing /\ (running.superseded \/ pc = "clear")
        => ~NoNewConfig \/ sending.kind \in {"configure", "stop"}

\* The verdict of a probe, and the client it earns.
ClientIsEarned ==
    /\ Probing => hasRoot
    /\ HasChild /\ stage = "version" => next \in Enabled
    /\ pc = "finish" /\ stage = "version" /\ reply.ok => next \in Enabled
    /\ verdict.ok => verdict.config \in Enabled
    /\ pc = "adopt" \/ (Busy /\ stage = "flags") => verdict = [config |-> next, ok |-> TRUE]
    /\ client # NoConfig => hasRoot /\ verdict = [config |-> client, ok |-> TRUE]

\* Once it is not being probed the last configuration sent is the one in force,
\* and goes without a client only if its probe failed.
AskIsDecided ==
    pc # "stopped" /\ ~Probing /\ NoNewConfig =>
        /\ config = wanted
        /\ client = NoConfig => ~(hasRoot /\ verdict = [config |-> config, ok |-> TRUE])

\* Once the graph is not being asked for, a client's last answer is as recent
\* as the last refresh sent.
AnswerIsKept ==
    pc # "stopped" /\ client # NoConfig /\ ~Refreshing /\ NoNewRefresh
        => answered.config = client /\ answered.seen >= requested

RestInv == ProbeIsGivenUp /\ ClientIsEarned /\ AskIsDecided /\ AnswerIsKept

\* What is still queued after a step of the thread that takes no message.
LEMMA NoMoreIsQueued ==
  ASSUME TypeOK, Sweep \/ Clear \/ Finished \/ Adopt \/ UNCHANGED <<pending, rx>>
  PROVE  (NoNewConfig' => NoNewConfig) /\ (NoNewRefresh' => NoNewRefresh)
BY ThreadForgets DEF NothingForgotten, NoNewConfig, NoNewRefresh, Holds

\* What is still queued after a message is sent.
LEMMA SentIsQueued ==
  ASSUME TypeOK, Deliver
  PROVE  /\ NoNewConfig' => NoNewConfig /\ sending.kind \notin {"configure", "stop"}
         /\ NoNewRefresh' => NoNewRefresh /\ sending.kind \notin {"refresh", "stop"}
<1>1. NoNewConfig' => ~Holds(Queued', {"configure", "stop"})
  BY DEF NoNewConfig, Holds
<1>2. NoNewRefresh' => ~Holds(Queued', {"refresh", "stop"})
  BY DEF NoNewRefresh, Holds
<1> QED BY <1>1, <1>2, DeliverQueues DEF NoNewConfig, NoNewRefresh

\* What is still queued after one is taken.
LEMMA TakenIsQueued ==
  ASSUME TypeOK, NEW kind, Receive(kind)
  PROVE  /\ kind \notin {"configure", "stop"} /\ NoNewConfig' => NoNewConfig
         /\ kind \notin {"refresh", "stop"} /\ NoNewRefresh' => NoNewRefresh
         /\ kind = "configure" /\ NoNewConfig' => LastAsk(Queued, Upcoming.config)
<1>1. NoNewConfig' => ~Holds(Queued', {"configure", "stop"}) /\ ~Holds(Queued', {"configure"})
  BY DEF NoNewConfig, Holds
<1>2. NoNewRefresh' => ~Holds(Queued', {"refresh", "stop"})
  BY DEF NoNewRefresh, Holds
<1> QED BY <1>1, <1>2, TakeForgets DEF NoNewConfig, NoNewRefresh

\* A probe is abandoned only for a message that is still queued.
LEMMA GivenUpHasACause ==
  ASSUME TypeOK, ProbeIsGivenUp, Settle \/ FinishSuperseded, Probing,
         IsSuperseded(IF pc = "settle" THEN pending ELSE Drain(pending, rx))
  PROVE  ~NoNewConfig
<1>1. Against = {"configure", "stop"}
  BY DEF Probing, Against, Superseding
<1>2. pending \in Seq(Message) /\ rx \in Seq(Message) /\ sending = NoMessage
  BY DEF TypeOK, Settle, FinishSuperseded, Finish, LockFree
<1>3. CASE running.superseded
  BY <1>2, <1>3 DEF ProbeIsGivenUp, NoMessage
<1>4. CASE ~running.superseded
  <2>1. Holds(pending, Against) \/ Holds(Drain(pending, rx), Against)
    BY <1>4 DEF IsSuperseded, Against
  <2>2. Holds(pending, Against) \/ Holds(rx, Against)
    BY <2>1, HoldsUnread
  <2> QED BY <1>1, <1>2, <2>2, HoldsConcat DEF NoNewConfig, Queued
<1> QED BY <1>3, <1>4

LEMMA GivenUpStep ==
  ASSUME TypeOK, RunningIsTheOperation, ProbeIsGivenUp, [Next]_vars
  PROVE  ProbeIsGivenUp'
<1> USE DEF Probing, Busy
<1>1. CASE Senders
  <2>1. /\ UNCHANGED <<pc, stage, pending, rx>> /\ sending = NoMessage
        /\ running'.superseded <=> running.superseded \/ sending'.kind \in Superseding(running.operation)
    BY <1>1 DEF Senders, Reconfigure, RunTarget, AskRefresh, DropBazel, Mark, LockFree, Hits, TypeOK
  <2>2. NoNewConfig' => NoNewConfig
    BY <2>1, NoMoreIsQueued
  <2>3. Probing => Superseding(running.operation) \subseteq {"configure", "stop"}
    BY DEF RunningIsTheOperation, Superseding
  <2> QED BY <2>1, <2>2, <2>3 DEF ProbeIsGivenUp, NoMessage
<1>2. CASE Deliver
  <2>1. UNCHANGED <<pc, stage, running>>
    BY <1>2 DEF Deliver, thread
  <2> QED BY <1>2, <2>1, SentIsQueued DEF ProbeIsGivenUp
<1>3. CASE Take
  <2>1. pc = "recv" /\ running' = running /\ pc' # "clear"
    BY <1>3 DEF Take, ReceiveStop, ReceiveSameConfiguration, ReceiveConfiguration,
                ReceiveRefresh, ReceiveRun, Receive
  <2> QED BY <2>1 DEF ProbeIsGivenUp, RunningIsTheOperation, Registered
<1>4. CASE Settle
  <2>1. UNCHANGED <<stage, pending, rx, running, sending>> /\ pc = "settle"
        /\ (pc' = "clear" => IsSuperseded(pending))
    BY <1>4 DEF Settle, mailbox
  <2>2. NoNewConfig' => NoNewConfig
    BY <2>1, NoMoreIsQueued
  <2>3. pc' = "clear" /\ Probing => ~NoNewConfig
    BY <1>4, <2>1, GivenUpHasACause
  <2> QED BY <2>1, <2>2, <2>3 DEF ProbeIsGivenUp
<1>5. CASE Edit \/ TakeWake \/ Serve \/ (\E ok \in BOOLEAN : Exit(ok)) \/ UNCHANGED vars
  <2>1. SUFFICES ASSUME ~Take, ~Settle
                 PROVE  ProbeIsGivenUp'
    BY <1>3, <1>4
  <2>2. /\ sending' = sending
        /\ Sweep \/ Clear \/ Finished \/ Adopt \/ UNCHANGED <<pending, rx>>
        /\ pc' = "clear" => pc = "clear"
        /\ running'.superseded => running.superseded
        /\ Probing' => Probing
    BY <1>5, <2>1 DEF Serve, Edit, TakeWake, Claim, Sweep, Clear, Spawn, SpawnFails,
       Register, Finished, FinishSuperseded, FinishProbe, FinishFlags, FinishRepos, Publish,
       Finish, Adopt, Exit, vars, mailbox, thread, asked, Operation, Idle, TypeOK
  <2> QED BY <2>2, NoMoreIsQueued DEF ProbeIsGivenUp
<1> QED BY <1>1, <1>2, <1>3, <1>4, <1>5 DEF Next, Joined

LEMMA EarnedStep ==
  ASSUME TypeOK, OwnersAgree, ClientIsEarned, [Next]_vars
  PROVE  ClientIsEarned'
<1> USE DEF ClientIsEarned, Busy, Probing, HasChild
<1>1. CASE Senders \/ Deliver \/ Edit \/ TakeWake \/ UNCHANGED vars
  <2>1. UNCHANGED <<pc, stage, client, next, reply, verdict, hasRoot>>
    BY <1>1 DEF Senders, Reconfigure, RunTarget, AskRefresh, DropBazel, Mark, Deliver, Edit,
                TakeWake, vars, thread, published, around, done
  <2> QED BY <2>1
<1>2. CASE Take
  <2> USE DEF Receive, published, around, Operation
  <2>1. CASE ReceiveStop
    BY <2>1 DEF ReceiveStop
  <2>2. CASE ReceiveSameConfiguration
    BY <2>2 DEF ReceiveSameConfiguration
  <2>3. CASE ReceiveConfiguration
    BY <2>3 DEF ReceiveConfiguration
  <2>4. CASE ReceiveRefresh
    BY <2>4 DEF ReceiveRefresh
  <2>5. CASE ReceiveRun
    BY <2>5 DEF ReceiveRun
  <2> QED BY <1>2, <2>1, <2>2, <2>3, <2>4, <2>5 DEF Take
<1>3. CASE Claim \/ Sweep \/ Settle \/ Clear \/ Spawn \/ SpawnFails \/ Register
  BY <1>3 DEF Claim, Sweep, Settle, Clear, Spawn, SpawnFails, Register, around, done
<1>4. ASSUME NEW ok \in BOOLEAN, Exit(ok)
      PROVE  ClientIsEarned'
  BY <1>4 DEF Exit, around, done, Operation
<1>5. CASE Adopt
  BY <1>5 DEF Adopt, around, done, OwnersAgree
<1>6. CASE Finished
  <2> USE DEF Finish, around, Operation
  <2>1. CASE FinishSuperseded
    BY <2>1 DEF FinishSuperseded
  <2>2. ASSUME NEW flags \in BOOLEAN, FinishProbe(flags)
        PROVE  ClientIsEarned'
    BY <2>2 DEF FinishProbe, OwnersAgree, TypeOK
  <2>3. CASE FinishFlags
    BY <2>3 DEF FinishFlags
  <2>4. CASE FinishRepos
    BY <2>4 DEF FinishRepos
  <2>5. CASE Publish
    BY <2>5 DEF Publish
  <2> QED BY <1>6, <2>1, <2>2, <2>3, <2>4, <2>5 DEF Finished
<1> QED BY <1>1, <1>2, <1>3, <1>4, <1>5, <1>6 DEF Next, Serve, Joined

LEMMA DecidedStep ==
  ASSUME TypeOK, OwnersAgree, ConfigIsCurrent, ProbeIsGivenUp, ClientIsEarned, AskIsDecided,
         [Next]_vars
  PROVE  AskIsDecided'
<1> USE DEF Probing, Busy
<1>1. CASE Deliver
  <2>1. UNCHANGED <<pc, stage, config, client, verdict, hasRoot>>
        /\ (sending.kind # "configure" => wanted' = wanted)
    BY <1>1 DEF Deliver, thread, done, around
  <2> QED BY <1>1, <2>1, SentIsQueued DEF AskIsDecided
<1>2. CASE Take
  <2>1. UNCHANGED <<wanted, verdict, hasRoot>> /\ pc = "recv"
    BY <1>2 DEF Take, ReceiveStop, ReceiveSameConfiguration, ReceiveConfiguration,
                ReceiveRefresh, ReceiveRun, Receive, asked, around
  <2>2. CASE ReceiveStop
    BY <2>2 DEF ReceiveStop, AskIsDecided
  <2>3. ASSUME ReceiveSameConfiguration \/ ReceiveConfiguration, NoNewConfig'
        PROVE  Upcoming.config = wanted
    BY <2>3, TakenIsQueued DEF ReceiveSameConfiguration, ReceiveConfiguration, ConfigIsCurrent
  <2>4. CASE ReceiveSameConfiguration
    <3>1. UNCHANGED <<config, client, pc, stage>>
          /\ config = Upcoming.config /\ (client # NoConfig \/ config \notin Enabled)
      BY <2>4 DEF ReceiveSameConfiguration, InForce
    <3> QED BY <2>1, <2>3, <2>4, <3>1 DEF AskIsDecided, ClientIsEarned
  <2>5. CASE ReceiveConfiguration
    <3>1. hasRoot => pc' = "claim" /\ stage' = "version"
      BY <2>5 DEF ReceiveConfiguration
    <3>2. ~hasRoot => config' = Upcoming.config
      BY <2>5 DEF ReceiveConfiguration
    <3> QED BY <2>1, <2>3, <2>5, <3>1, <3>2 DEF AskIsDecided, Operation
  <2>6. CASE ReceiveRefresh \/ ReceiveRun
    <3>1. UNCHANGED <<config, client>>
      BY <2>6 DEF ReceiveRefresh, ReceiveRun
    <3>2. NoNewConfig' => NoNewConfig
      BY <2>6, TakenIsQueued DEF ReceiveRefresh, ReceiveRun
    <3> QED BY <2>1, <3>1, <3>2 DEF AskIsDecided
  <2> QED BY <1>2, <2>2, <2>4, <2>5, <2>6 DEF Take
<1>3. CASE Clear \/ FinishSuperseded
  <2>1. /\ UNCHANGED <<config, client, wanted, verdict, hasRoot, stage>>
        /\ pc \in {"clear", "finish"} /\ sending = NoMessage
    BY <1>3 DEF Clear, FinishSuperseded, Finish, LockFree, asked, around, done
  <2>2. NoNewConfig' => NoNewConfig
    BY <1>3, NoMoreIsQueued DEF Finished
  <2>3. Probing => ~NoNewConfig
    <3>1. CASE Clear
      BY <2>1, <3>1 DEF ProbeIsGivenUp, NoMessage, Clear
    <3>2. CASE FinishSuperseded
      BY <3>2, GivenUpHasACause DEF FinishSuperseded, Finish
    <3> QED BY <1>3, <3>1, <3>2
  <2> QED BY <2>1, <2>2, <2>3 DEF AskIsDecided
<1>4. ASSUME NEW flags \in BOOLEAN, FinishProbe(flags)
      PROVE  AskIsDecided'
  <2>1. /\ UNCHANGED <<client, next, wanted, hasRoot>> /\ config' = next
        /\ verdict' = [config |-> next, ok |-> reply.ok] /\ Probing
        /\ ~reply.ok \/ Probing'
    BY <1>4 DEF FinishProbe, Finish, asked, around, Operation
  <2>2. NoNewConfig' => NoNewConfig
    BY <1>4, NoMoreIsQueued DEF Finished
  <2> QED BY <2>1, <2>2 DEF AskIsDecided, ConfigIsCurrent
<1>5. CASE Adopt
  <2>1. /\ UNCHANGED <<config, wanted>> /\ client' = next /\ config = next /\ Probing
    BY <1>5 DEF Adopt, asked, OwnersAgree
  <2>2. next # NoConfig
    <3>1. next \in Enabled
      BY <1>5 DEF ClientIsEarned, Adopt
    <3> QED BY <3>1, ActorAssumption, NoConfigAssumption
  <2>3. NoNewConfig' => NoNewConfig
    BY <1>5, NoMoreIsQueued
  <2> QED BY <2>1, <2>2, <2>3 DEF AskIsDecided, ConfigIsCurrent
<1>6. CASE Senders \/ Edit \/ TakeWake \/ Serve \/ (\E ok \in BOOLEAN : Exit(ok)) \/ UNCHANGED vars
  <2>1. SUFFICES ASSUME ~Take, ~Clear, ~FinishSuperseded, ~Adopt,
                        ~(\E flags \in BOOLEAN : FinishProbe(flags))
                 PROVE  AskIsDecided'
    BY <1>2, <1>3, <1>4, <1>5
  <2>2. /\ UNCHANGED <<config, client, wanted, verdict, hasRoot>>
        /\ Sweep \/ Finished \/ UNCHANGED <<pending, rx>>
        /\ pc' # "stopped" => pc # "stopped"
        /\ Probing => Probing'
    BY <1>6, <2>1 DEF Serve, Edit, TakeWake, Claim, Sweep, Settle, Spawn, SpawnFails,
       Register, Finished, FinishFlags, FinishRepos, Publish, Finish, Exit, vars, mailbox,
       thread, asked, around, done, Operation, Senders, Reconfigure, RunTarget, AskRefresh,
       DropBazel, Mark
  <2> QED BY <2>2, NoMoreIsQueued DEF AskIsDecided
<1> QED BY <1>1, <1>2, <1>3, <1>4, <1>5, <1>6 DEF Next, Joined

LEMMA KeptStep ==
  ASSUME TypeOK, OwnersAgree, AnswersAreCurrent, AnswerIsKept, [Next]_vars
  PROVE  AnswerIsKept'
<1> USE DEF Refreshing, Busy
<1>1. CASE Deliver
  <2>1. UNCHANGED <<pc, stage, client, answered>>
        /\ (sending.kind # "refresh" => requested' = requested)
    BY <1>1 DEF Deliver, thread, done
  <2> QED BY <1>1, <2>1, SentIsQueued DEF AnswerIsKept
<1>2. CASE Take
  <2>1. UNCHANGED <<requested, answered>> /\ pc = "recv"
    BY <1>2 DEF Take, ReceiveStop, ReceiveSameConfiguration, ReceiveConfiguration,
                ReceiveRefresh, ReceiveRun, Receive, asked
  <2>2. CASE ReceiveStop
    BY <2>2 DEF ReceiveStop, AnswerIsKept
  <2>3. CASE ReceiveConfiguration
    BY <2>3 DEF ReceiveConfiguration, AnswerIsKept
  <2>4. CASE ReceiveRefresh
    BY <2>4 DEF ReceiveRefresh, AnswerIsKept, Operation
  <2>5. CASE ReceiveSameConfiguration \/ ReceiveRun
    <3>1. client' = client
      BY <2>5 DEF ReceiveSameConfiguration, ReceiveRun
    <3>2. NoNewRefresh' => NoNewRefresh
      BY <2>5, TakenIsQueued DEF ReceiveSameConfiguration, ReceiveRun
    <3> QED BY <2>1, <3>1, <3>2 DEF AnswerIsKept
  <2> QED BY <1>2, <2>2, <2>3, <2>4, <2>5 DEF Take
<1>3. ASSUME Clear \/ FinishSuperseded, Refreshing
      PROVE  ~NoNewRefresh'
  <2>1. \A q \in Seq(Message) : Holds(Leftover(q), {"refresh", "stop"})
    BY <1>3, PreserveKeeps DEF Leftover
  <2>2. pending' \in Seq(Message) /\ rx' \in Seq(Message)
    BY <1>3, TypeStep DEF TypeOK, Next, Serve, Finished
  <2>3. pending' \in {Leftover(pending), Leftover(Drain(pending, rx))}
    BY <1>3 DEF Clear, FinishSuperseded
  <2>4. Holds(pending', {"refresh", "stop"})
    BY <2>1, <2>3, QueueTypes DEF TypeOK
  <2>5. Holds(pending' \o rx', {"refresh", "stop"})
    BY <2>2, <2>4, HoldsConcat
  <2>6. Holds(Queued', {"refresh", "stop"})
    BY <2>5 DEF Queued
  <2> QED BY <2>6 DEF NoNewRefresh, Holds
<1>4. CASE Publish
  <2>1. /\ client' = client /\ requested' = requested /\ Refreshing /\ pc = "finish"
        /\ answered' = [config |-> client, seen |-> reply.seen]
    BY <1>4 DEF Publish, Finish, asked, Operation
  <2>2. NoNewRefresh' => NoNewRefresh
    BY <1>4, NoMoreIsQueued DEF Finished
  <2> QED BY <2>1, <2>2 DEF AnswerIsKept, AnswersAreCurrent, TypeOK
<1>5. CASE Adopt
  <2> DEFINE p == CoalesceRefreshes(Append(pending, Refresh))
  <2>1. pending \in Seq(Message) /\ rx \in Seq(Message) /\ Refresh \in Message
    BY MessageTypes DEF TypeOK
  <2>2. p \in Seq(Message) /\ Holds(p, {"refresh", "stop"})
    <3>1. /\ Append(pending, Refresh) \in Seq(Message)
          /\ Append(pending, Refresh) = pending \o <<Refresh>>
      BY <2>1
    <3>2. Refresh.kind \in {"refresh", "stop"}
      BY DEF Refresh
    <3>3. Holds(Append(pending, Refresh), {"refresh", "stop"})
      BY <2>1, <3>1, <3>2, HoldsLast
    <3> QED BY <3>1, <3>3, CoalesceKeeps
  <2>3. Queued' = p \o rx
    BY <1>5 DEF Adopt, Queued, mailbox
  <2>4. Holds(p \o rx, {"refresh", "stop"})
    <3> HIDE DEF p
    <3> QED BY <2>1, <2>2, HoldsConcat
  <2>5. ~NoNewRefresh'
    <3> HIDE DEF p
    <3> QED BY <2>3, <2>4 DEF NoNewRefresh, Holds
  <2> QED BY <2>5 DEF AnswerIsKept
<1>6. CASE Senders \/ Edit \/ TakeWake \/ Serve \/ (\E ok \in BOOLEAN : Exit(ok)) \/ UNCHANGED vars
  <2>1. SUFFICES ASSUME ~Take, ~Publish, ~Adopt, ~((Clear \/ FinishSuperseded) /\ Refreshing)
                 PROVE  AnswerIsKept'
    BY <1>2, <1>3, <1>4, <1>5 DEF AnswerIsKept
  <2>2. /\ UNCHANGED <<client, requested, answered>>
        /\ Sweep \/ Clear \/ Finished \/ UNCHANGED <<pending, rx>>
        /\ pc' # "stopped" => pc # "stopped"
        /\ Refreshing => Refreshing'
    BY <1>6, <2>1 DEF Serve, Edit, TakeWake, Claim, Sweep, Settle, Clear, Spawn, SpawnFails,
       Register, Finished, FinishSuperseded, FinishProbe, FinishFlags, FinishRepos, Finish,
       Exit, vars, mailbox, thread, asked, around, done, Operation, Senders, Reconfigure,
       RunTarget, AskRefresh, DropBazel, Mark
  <2> QED BY <2>2, NoMoreIsQueued DEF AnswerIsKept
<1> QED BY <1>1, <1>2, <1>4, <1>5, <1>6 DEF Next, Joined

\* Whatever the clients send, whenever Bazel answers, fails or is interrupted,
\* a thread at rest has forgotten nothing: the last configuration sent is in
\* force, it has a client exactly if there is a workspace and its probe
\* succeeded, and that client has asked Bazel since the last refresh was sent
\* (actor.rs, serve, preserve_refresh and the refresh a new client queues).
THEOREM NothingAskedIsForgotten == Spec => []RestReflectsAsks
<1>1. Init => Inv /\ RestInv
  <2> SUFFICES ASSUME Init
               PROVE  RestInv
    BY InvInit
  <2> QED BY DEF Init, RestInv, ProbeIsGivenUp, ClientIsEarned, AskIsDecided, AnswerIsKept,
                 Probing, Busy, HasChild, Idle
<1>2. Inv /\ RestInv /\ [Next]_vars => (Inv /\ RestInv)'
  BY InvStep, GivenUpStep, EarnedStep, DecidedStep, KeptStep
     DEF Inv, PromiseInv, InterruptInv, RestInv
<1>3. Inv /\ RestInv => RestReflectsAsks
  <2> SUFFICES ASSUME Inv, RestInv, Quiet
               PROVE  /\ config = wanted
                      /\ client = IF hasRoot /\ verdict = [config |-> wanted, ok |-> TRUE]
                                  THEN wanted ELSE NoConfig
                      /\ client # NoConfig => answered.config = client /\ answered.seen >= requested
    BY DEF RestReflectsAsks
  <2>1. pc = "recv" /\ pending = <<>> /\ rx = <<>>
    BY DEF Quiet, Waiting
  <2>2. Queued = <<>>
    BY <2>1 DEF Queued
  <2>3. NoNewConfig /\ NoNewRefresh
    BY <2>2 DEF NoNewConfig, NoNewRefresh, Holds
  <2>4. ~Probing /\ ~Refreshing
    BY <2>1 DEF Probing, Refreshing, Busy
  <2>5. config = wanted /\ (client # NoConfig => client = config)
    BY <2>1, <2>3, <2>4 DEF RestInv, AskIsDecided, Inv, PromiseInv, OwnersAgree
  <2> QED BY <2>1, <2>3, <2>4, <2>5 DEF RestInv, AskIsDecided, ClientIsEarned, AnswerIsKept
<1> QED BY <1>1, <1>2, <1>3, PTL DEF Spec

=============================================================================
