-------------------------- MODULE GraphQueryProofs --------------------------
(***************************************************************************)
(* What the sink of a Bazel command is given is what the command wrote,    *)
(* whatever it writes, however much the pipes hold and however the reads   *)
(* cut it; and what the decoder makes of the chunks is what the output     *)
(* says as a whole.                                                        *)
(***************************************************************************)
EXTENDS GraphQuery, DataProofs

Types ==
    /\ output \in Seq(Byte) /\ written \in Seq(Byte) /\ out \in Seq(Byte) /\ got \in Seq(Byte)
    /\ status \in {"unborn", "running", "ok", "failed"}
    /\ pc \in {"spawning", "reading", "waiting", "joining", "returned", "failed"}

\* Nothing is written before the process is there, or after it is gone, and
\* the reading ends only when it is.
Ended ==
    /\ pc = "spawning" => status = "unborn"
    /\ pc \in {"waiting", "joining", "returned"} => out = <<>> /\ status \in {"ok", "failed"}
    /\ status = "ok" => output = <<>>

StreamInv == Types /\ Ended /\ written = got \o out

-----------------------------------------------------------------------------
\* A byte written goes to the end of what is written and of what the pipe holds.
LEMMA AppendToBoth ==
  \A s, t \in Seq(Byte) : \A e \in Byte : Append(s \o t, e) = s \o Append(t, e)
<1> TAKE s, t \in Seq(Byte)
<1> TAKE e \in Byte
<1> DEFINE l == Append(s \o t, e)
           r == s \o Append(t, e)
<1>1. l \in Seq(Byte) /\ Len(l) = Len(s) + Len(t) + 1
  OBVIOUS
<1>2. r \in Seq(Byte) /\ Len(r) = Len(s) + Len(t) + 1
  OBVIOUS
<1>3. \A i \in 1 .. Len(l) : l[i] = r[i]
  OBVIOUS
<1> QED
  BY <1>1, <1>2, <1>3, SeqEqual

LEMMA Associative ==
  \A s, t, u \in Seq(Byte) : (s \o t) \o u = s \o (t \o u)
  BY ConcatAssociative

\* A read takes the front of what the pipe holds.
LEMMA ReadCuts ==
  \A t \in Seq(Byte) : \A n \in 1 .. Len(t) :
      /\ SubSeq(t, 1, n) \in Seq(Byte) /\ SubSeq(t, n + 1, Len(t)) \in Seq(Byte)
      /\ SubSeq(t, 1, n) \o SubSeq(t, n + 1, Len(t)) = t
<1> TAKE t \in Seq(Byte)
<1> TAKE n \in 1 .. Len(t)
<1>1. Len(t) \in Nat /\ \A i \in 1 .. Len(t) : t[i] \in Byte
  BY LenProperties, ElementOfSeq
<1>2. SubSeq(t, 1, n) \in Seq(Byte)
  BY <1>1, SubSeqProperties
<1>3. SubSeq(t, n + 1, Len(t)) \in Seq(Byte)
  <2>1. n + 1 \in Int /\ Len(t) \in Int /\ \A i \in n + 1 .. Len(t) : t[i] \in Byte
    BY <1>1
  <2> QED
    BY <2>1, SubSeqProperties
<1>4. SubSeq(t, 1, n) \o SubSeq(t, n + 1, Len(t)) = SubSeq(t, 1, Len(t))
  <2>1. 1 \in 1 .. Len(t) + 1 /\ n \in 1 - 1 .. Len(t) /\ Len(t) \in n .. Len(t)
    BY <1>1
  <2> QED
    BY <2>1, ConcatAdjacentSubSeq
<1>5. SubSeq(t, 1, n) \o SubSeq(t, n + 1, Len(t)) = t
  BY <1>4, SubSeqFull
<1> QED
  BY <1>2, <1>3, <1>5

-----------------------------------------------------------------------------
LEMMA InitInv == StreamInit => StreamInv
<1> SUFFICES ASSUME StreamInit PROVE StreamInv
  OBVIOUS
<1>1. output \in Seq(Byte)
  BY StreamAssumption DEF StreamInit
<1>2. <<>> \in Seq(Byte) /\ <<>> \o <<>> = <<>>
  BY EmptySeq, ConcatEmptySeq
<1> QED
  BY <1>1, <1>2 DEF StreamInit, StreamInv, Types, Ended

LEMMA ProcessKeepsInv == StreamInv /\ Process => StreamInv'
<1> SUFFICES ASSUME StreamInv, Process PROVE StreamInv'
  OBVIOUS
<1> USE DEF StreamInv, Types, Ended
<1>1. CASE WriteOut
  <2>1. output # <<>> /\ Head(output) \in Byte /\ Tail(output) \in Seq(Byte)
    <3>1. output # <<>>
      BY <1>1 DEF WriteOut
    <3> QED
      BY <3>1, HeadTailProperties
  <2>2. Append(written, Head(output)) \in Seq(Byte) /\ Append(out, Head(output)) \in Seq(Byte)
    BY <2>1
  <2>3. got \in Seq(Byte) /\ out \in Seq(Byte)
    OBVIOUS
  <2>4. Append(got \o out, Head(output)) = got \o Append(out, Head(output))
    BY <2>1, <2>3, AppendToBoth, Zenon
  <2>5. Append(written, Head(output)) = got \o Append(out, Head(output))
    BY <2>4
  <2> QED
    BY <1>1, <2>1, <2>2, <2>5 DEF WriteOut
<1>2. CASE WriteErr
  BY <1>2 DEF WriteErr
<1>3. CASE Exit
  BY <1>3 DEF Exit
<1>4. CASE Abort
  BY <1>4 DEF Abort
<1> QED
  BY <1>1, <1>2, <1>3, <1>4 DEF Process

LEMMA ReaderKeepsInv == StreamInv /\ Reader => StreamInv'
<1> SUFFICES ASSUME StreamInv, Reader PROVE StreamInv'
  OBVIOUS
<1> USE DEF StreamInv, Types, Ended, process
<1>1. CASE Read
  <2>1. PICK n \in 1 .. Len(out) :
            /\ got' = got \o SubSeq(out, 1, n)
            /\ out' = SubSeq(out, n + 1, Len(out))
    BY <1>1 DEF Read
  <2>2. /\ SubSeq(out, 1, n) \in Seq(Byte) /\ SubSeq(out, n + 1, Len(out)) \in Seq(Byte)
        /\ SubSeq(out, 1, n) \o SubSeq(out, n + 1, Len(out)) = out
    BY ReadCuts, Zenon
  <2>3. got' \in Seq(Byte) /\ out' \in Seq(Byte)
    BY <2>1, <2>2, ConcatProperties
  <2>4. got' \o out' = got \o out
    <3>1. got \in Seq(Byte)
      OBVIOUS
    <3>2. (got \o SubSeq(out, 1, n)) \o SubSeq(out, n + 1, Len(out))
             = got \o (SubSeq(out, 1, n) \o SubSeq(out, n + 1, Len(out)))
      BY <2>2, <3>1, Associative, Zenon
    <3> QED
      BY <2>1, <2>2, <3>2
  <2> QED
    BY <1>1, <2>3, <2>4 DEF Read
<1>2. CASE SpawnFails \/ Spawn
  BY <1>2 DEF SpawnFails, Spawn
<1>3. CASE EndOfOutput \/ ReadFails
  BY <1>3 DEF EndOfOutput, ReadFails
<1>4. CASE Wait \/ Join
  BY <1>4 DEF Wait, Join
<1> QED
  BY <1>1, <1>2, <1>3, <1>4 DEF Reader

LEMMA DrainerKeepsInv == StreamInv /\ Drainer => StreamInv'
  BY DEF StreamInv, Types, Ended, process, Drainer, Drain, EndOfErrors

\* Whole at every moment: what was written is what the sink has had and what
\* the pipe still holds.
LEMMA InvIsWhole == StreamInv => StreamIsWhole
<1> SUFFICES ASSUME StreamInv PROVE StreamIsWhole
  OBVIOUS
<1>1. got \o <<>> = got
  BY ConcatEmptySeq DEF StreamInv, Types
<1> QED
  BY <1>1 DEF StreamInv, Ended, StreamIsWhole

-----------------------------------------------------------------------------
\* stream_with gives its sink all of what the command wrote, in order, before
\* it returns, whatever the command writes and the pipes hold.
THEOREM StreamIsAlwaysWhole == StreamSpec => []StreamIsWhole
<1>1. StreamInit => StreamInv
  BY InitInv
<1>2. StreamInv /\ [StreamNext]_streamVars => StreamInv'
  <2>1. CASE UNCHANGED streamVars
    BY <2>1 DEF StreamInv, Types, Ended, streamVars
  <2> QED
    BY <2>1, ProcessKeepsInv, ReaderKeepsInv, DrainerKeepsInv DEF StreamNext
<1>3. StreamInv => StreamIsWhole
  BY InvIsWhole
<1> QED
  BY <1>1, <1>2, <1>3, PTL DEF StreamSpec

-----------------------------------------------------------------------------
(* Functions given by their values at later places. *)

\* A function is given at some places, and at the others from its value after them.
DefinedBackward(f, L, over, base, step, after) ==
    \A p \in 0 .. L : f[p] = IF p \in over THEN base[p] ELSE step[<<p, f[after[p]]>>]

Onward(L, over, after) == \A p \in (0 .. L) \ over : after[p] > p

\* There is such a function.
LEMMA BackwardDefinition ==
  ASSUME NEW L \in Nat, NEW S, NEW over \in SUBSET (0 .. L), L \in over,
         NEW base \in [0 .. L -> S], NEW step \in [(0 .. L) \X S -> S],
         NEW after \in [0 .. L -> 0 .. L],
         Onward(L, over, after)
  PROVE  \E f \in [0 .. L -> S] : DefinedBackward(f, L, over, base, step, after)
<1> DEFINE Fits(f, n) ==
             \A p \in 0 .. L : p >= L - n =>
                 f[p] = IF p \in over THEN base[p] ELSE step[<<p, f[after[p]]>>]
           T == {n \in Nat : n <= L => \E f \in [0 .. L -> S] : Fits(f, n)}
<1>1. 0 \in T
  <2>1. Fits(base, 0)
    <3> TAKE p \in 0 .. L
    <3>1. p >= L - 0 => p = L
      OBVIOUS
    <3> QED
      BY <3>1
  <2> QED
    BY <2>1
<1>2. ASSUME NEW n \in Nat, n \in T PROVE n + 1 \in T
  <2>1. CASE ~(n + 1 <= L)
    BY <2>1
  <2>2. CASE n + 1 <= L
    <3>1. PICK f \in [0 .. L -> S] : Fits(f, n)
      BY <2>2, <1>2
    <3> DEFINE q == L - (n + 1)
               v == IF q \in over THEN base[q] ELSE step[<<q, f[after[q]]>>]
               g == [p \in 0 .. L |-> IF p = q THEN v ELSE f[p]]
    <3>2. q \in 0 .. L /\ \A p \in 0 .. L : p >= L - (n + 1) => p = q \/ p >= L - n
      BY <2>2
    <3>3. v \in S
      BY <3>2
    <3>4. g \in [0 .. L -> S]
      BY <3>3
    <3>5. \A p \in 0 .. L : p > q => g[p] = f[p]
      BY <3>2
    <3>6. \A p \in 0 .. L : p >= L - (n + 1) /\ p \notin over => after[p] \in 0 .. L /\ after[p] > q
      <4> TAKE p \in 0 .. L
      <4> HAVE p >= L - (n + 1) /\ p \notin over
      <4>1. after[p] \in 0 .. L /\ after[p] > p
        BY DEF Onward
      <4> QED
        BY <4>1, <3>2
    <3>7. Fits(g, n + 1)
      <4> SUFFICES ASSUME NEW p \in 0 .. L, p >= L - (n + 1)
                   PROVE  g[p] = IF p \in over THEN base[p] ELSE step[<<p, g[after[p]]>>]
        OBVIOUS
      <4>1. p \notin over => g[after[p]] = f[after[p]]
        BY <3>5, <3>6
      <4>2. CASE p = q
        BY <4>1, <4>2
      <4>3. CASE p # q /\ p >= L - n
        BY <4>1, <4>3, <3>1
      <4> QED
        BY <4>2, <4>3, <3>2
    <3> HIDE DEF g, Fits
    <3> QED
      BY <3>4, <3>7
  <2> QED
    BY <2>1, <2>2
<1>3. L \in T
  <2> HIDE DEF T
  <2> QED
    BY <1>1, <1>2, SetInduction
<1>4. PICK f \in [0 .. L -> S] : Fits(f, L)
  <2>1. L <= L
    OBVIOUS
  <2>2. \E f \in [0 .. L -> S] : Fits(f, L)
    <3> HIDE DEF Fits
    <3> QED
      BY <1>3, <2>1
  <2> HIDE DEF Fits
  <2> QED
    BY <2>2
<1>5. \A p \in 0 .. L : p >= L - L
  OBVIOUS
<1> QED
  BY <1>4, <1>5 DEF DefinedBackward

-----------------------------------------------------------------------------
(* What is left of an output, and what stands at its front. *)

LEMMA RestOf ==
  \A w \in Seq(Byte) : \A p \in 0 .. Len(w) :
      /\ Rest(w, p) \in Seq(Byte) /\ Len(Rest(w, p)) = Len(w) - p
      /\ \A i \in 1 .. Len(w) - p : Rest(w, p)[i] = w[p + i]
<1> TAKE w \in Seq(Byte)
<1> TAKE p \in 0 .. Len(w)
<1>1. Len(w) \in Nat /\ \A i \in 1 .. Len(w) : w[i] \in Byte
  BY LenProperties, ElementOfSeq
<1>2. p + 1 \in Int /\ Len(w) \in Int /\ \A i \in p + 1 .. Len(w) : w[i] \in Byte
  BY <1>1
<1>3. /\ SubSeq(w, p + 1, Len(w)) \in Seq(Byte)
      /\ Len(SubSeq(w, p + 1, Len(w))) = IF p + 1 <= Len(w) THEN Len(w) - (p + 1) + 1 ELSE 0
      /\ \A i \in 1 .. Len(w) - (p + 1) + 1 : SubSeq(w, p + 1, Len(w))[i] = w[(p + 1) + i - 1]
  BY <1>2, SubSeqProperties
<1>4. Len(w) - (p + 1) + 1 = Len(w) - p /\ (p + 1 <= Len(w) \/ Len(w) - p = 0)
  BY <1>1
<1>5. \A i \in 1 .. Len(w) - p : (p + 1) + i - 1 = p + i
  BY <1>1
<1> QED
  BY <1>3, <1>4, <1>5 DEF Rest

LEMMA RestOfRest ==
  \A w \in Seq(Byte) : \A p \in 0 .. Len(w) : \A q \in 0 .. Len(w) - p :
      p + q \in 0 .. Len(w) /\ Rest(Rest(w, p), q) = Rest(w, p + q)
<1> TAKE w \in Seq(Byte)
<1> TAKE p \in 0 .. Len(w)
<1> TAKE q \in 0 .. Len(w) - p
<1> DEFINE l == Rest(Rest(w, p), q)
           r == Rest(w, p + q)
<1>0. Len(w) \in Nat
  BY LenProperties
<1>1. p + q \in 0 .. Len(w)
  BY <1>0
<1>2. /\ Rest(w, p) \in Seq(Byte) /\ Len(Rest(w, p)) = Len(w) - p
      /\ \A i \in 1 .. Len(w) - p : Rest(w, p)[i] = w[p + i]
  BY RestOf, Zenon
<1>3. /\ l \in Seq(Byte) /\ Len(l) = (Len(w) - p) - q
      /\ \A i \in 1 .. (Len(w) - p) - q : l[i] = Rest(w, p)[q + i]
  <2>1. q \in 0 .. Len(Rest(w, p))
    BY <1>0, <1>2
  <2> QED
    BY <1>2, <2>1, RestOf, Zenon
<1>4. /\ r \in Seq(Byte) /\ Len(r) = Len(w) - (p + q)
      /\ \A i \in 1 .. Len(w) - (p + q) : r[i] = w[(p + q) + i]
  BY <1>1, RestOf, Zenon
<1>5. Len(l) = Len(r)
  <2>1. Len(l) = (Len(w) - p) - q /\ Len(r) = Len(w) - (p + q)
    BY <1>3, <1>4
  <2> HIDE DEF l, r
  <2> QED
    BY <1>0, <2>1
<1>6. \A i \in 1 .. Len(l) : l[i] = r[i]
  <2> TAKE i \in 1 .. Len(l)
  <2>1. i \in 1 .. (Len(w) - p) - q /\ i \in 1 .. Len(w) - (p + q) /\ q + i \in 1 .. Len(w) - p
    BY <1>0, <1>3
  <2>2. l[i] = w[p + (q + i)] /\ r[i] = w[(p + q) + i]
    BY <2>1, <1>2, <1>3, <1>4, Zenon
  <2>3. p + (q + i) = (p + q) + i
    BY <1>0, <2>1
  <2> QED
    BY <2>2, <2>3
<1> HIDE DEF l, r
<1>7. l = r
  BY <1>3, <1>4, <1>5, <1>6, SeqEqual
<1> QED
  BY <1>1, <1>7 DEF l, r

LEMMA RestOfMore ==
  \A w, c \in Seq(Byte) : \A p \in 0 .. Len(w) :
      p \in 0 .. Len(w \o c) /\ Rest(w \o c, p) = Rest(w, p) \o c
<1> TAKE w, c \in Seq(Byte)
<1> TAKE p \in 0 .. Len(w)
<1> DEFINE l == Rest(w \o c, p)
           r == Rest(w, p) \o c
<1>0. Len(w) \in Nat /\ Len(c) \in Nat
  BY LenProperties
<1>1. /\ w \o c \in Seq(Byte) /\ Len(w \o c) = Len(w) + Len(c)
      /\ \A i \in 1 .. Len(w) + Len(c) : (w \o c)[i] = IF i <= Len(w) THEN w[i] ELSE c[i - Len(w)]
  BY ConcatProperties
<1>2. p \in 0 .. Len(w \o c)
  BY <1>0, <1>1
<1>3. /\ Rest(w, p) \in Seq(Byte) /\ Len(Rest(w, p)) = Len(w) - p
      /\ \A i \in 1 .. Len(w) - p : Rest(w, p)[i] = w[p + i]
  BY RestOf, Zenon
<1>4. /\ l \in Seq(Byte) /\ Len(l) = Len(w \o c) - p
      /\ \A i \in 1 .. Len(w \o c) - p : l[i] = (w \o c)[p + i]
  BY <1>1, <1>2, RestOf, Zenon
<1>5. /\ r \in Seq(Byte) /\ Len(r) = Len(Rest(w, p)) + Len(c)
      /\ \A i \in 1 .. Len(Rest(w, p)) + Len(c) :
            r[i] = IF i <= Len(Rest(w, p)) THEN Rest(w, p)[i] ELSE c[i - Len(Rest(w, p))]
  BY <1>3, ConcatProperties
<1>6. Len(l) = Len(r)
  BY <1>0, <1>1, <1>3, <1>4, <1>5
<1>7. \A i \in 1 .. Len(l) : l[i] = r[i]
  <2> TAKE i \in 1 .. Len(l)
  <2>1. i \in Nat /\ i >= 1 /\ i <= Len(w) + Len(c) - p
    BY <1>0, <1>1, <1>4
  <2>2. l[i] = (w \o c)[p + i]
    BY <1>4
  <2>3. CASE i <= Len(w) - p
    <3>1. p + i \in 1 .. Len(w) + Len(c) /\ p + i <= Len(w) /\ i \in 1 .. Len(w) - p
      BY <1>0, <2>1, <2>3
    <3>2. (w \o c)[p + i] = w[p + i]
      BY <1>1, <3>1
    <3>3. r[i] = Rest(w, p)[i]
      BY <1>0, <1>3, <1>5, <2>1, <2>3
    <3> QED
      BY <1>3, <2>2, <3>1, <3>2, <3>3
  <2>4. CASE ~(i <= Len(w) - p)
    <3>1. p + i \in 1 .. Len(w) + Len(c) /\ ~(p + i <= Len(w)) /\ (p + i) - Len(w) = i - (Len(w) - p)
      BY <1>0, <2>1, <2>4
    <3>2. (w \o c)[p + i] = c[(p + i) - Len(w)]
      BY <1>1, <3>1
    <3>3. r[i] = c[i - (Len(w) - p)]
      BY <1>0, <1>3, <1>5, <2>1, <2>4
    <3> QED
      BY <2>2, <3>1, <3>2, <3>3
  <2> QED
    BY <2>3, <2>4
<1> HIDE DEF l, r
<1>8. l = r
  BY <1>4, <1>5, <1>6, <1>7, SeqEqual
<1> QED
  BY <1>2, <1>8 DEF l, r

\* The length ends at the first byte no other follows, if that comes in time.
LEMMA HeaderOf ==
  \A b \in Seq(Byte) :
      /\ Header(b) \in 0 .. Len(b)
      /\ Header(b) > 0 => /\ Header(b) <= MaxVarint /\ b[Header(b)] < Base
                          /\ \A i \in 1 .. Len(b) : i <= MaxVarint /\ b[i] < Base => Header(b) <= i
      /\ Header(b) = 0 => \A i \in 1 .. Len(b) : i <= MaxVarint => ~(b[i] < Base)
<1> TAKE b \in Seq(Byte)
<1> DEFINE ends == {i \in DOMAIN b : i <= MaxVarint /\ b[i] < Base}
<1>1. DOMAIN b = 1 .. Len(b) /\ Len(b) \in Nat
  BY LenProperties
<1>2. CASE ends = {}
  <2>1. Header(b) = 0
    BY <1>2 DEF Header
  <2>2. \A i \in 1 .. Len(b) : i <= MaxVarint => ~(b[i] < Base)
    BY <1>1, <1>2
  <2> QED
    BY <1>1, <2>1, <2>2
<1>3. CASE ends # {}
  <2>1. ends \subseteq Nat
    BY <1>1
  <2>2. \E n \in ends : \A m \in ends : n <= m
    <3> HIDE DEF ends
    <3> QED
      BY <1>3, <2>1, LeastOf
  <2>3. Header(b) = Min(ends)
    BY <1>3 DEF Header
  <2>4. Header(b) \in ends /\ \A m \in ends : Header(b) <= m
    <3> HIDE DEF ends
    <3> QED
      BY <2>2, <2>3 DEF Min
  <2> QED
    BY <1>1, <2>4
<1> QED
  BY <1>2, <1>3

LEMMA FrontOf ==
  \A b \in Seq(Byte) : \A h \in 0 .. Len(b) :
      /\ SubSeq(b, 1, h) \in Seq(Byte) /\ Len(SubSeq(b, 1, h)) = h
      /\ \A i \in 1 .. h : SubSeq(b, 1, h)[i] = b[i]
<1> TAKE b \in Seq(Byte)
<1> TAKE h \in 0 .. Len(b)
<1>1. Len(b) \in Nat /\ \A i \in 1 .. Len(b) : b[i] \in Byte
  BY LenProperties, ElementOfSeq
<1>2. 1 \in Int /\ h \in Int /\ \A i \in 1 .. h : b[i] \in Byte
  BY <1>1
<1>3. /\ SubSeq(b, 1, h) \in Seq(Byte)
      /\ Len(SubSeq(b, 1, h)) = IF 1 <= h THEN h - 1 + 1 ELSE 0
      /\ \A i \in 1 .. h - 1 + 1 : SubSeq(b, 1, h)[i] = b[1 + i - 1]
  BY <1>2, SubSeqProperties
<1> QED
  BY <1>1, <1>3

\* The number some bytes stand for is a natural one.
LEMMA NumberIsNatural ==
  \A d \in Seq(Byte) : Number(d) \in Nat
<1> TAKE d \in Seq(Byte)
<1> DEFINE L == Len(d)
           Body(f) == [i \in 0 .. L |-> IF i = L THEN 0 ELSE (d[i + 1] % Base) + Base * f[i + 1]]
           over == {L}
           base == [i \in 0 .. L |-> 0]
           step == [x \in (0 .. L) \X Nat |-> IF x[1] = L THEN 0 ELSE (d[x[1] + 1] % Base) + Base * x[2]]
           after == [i \in 0 .. L |-> IF i = L THEN L ELSE i + 1]
<1>1. L \in Nat /\ Base \in Nat /\ Base > 0 /\ \A i \in 1 .. L : d[i] \in Nat
  BY LenProperties, ElementOfSeq, QueryAssumption
<1>2. step \in [(0 .. L) \X Nat -> Nat]
  <2> SUFFICES ASSUME NEW i \in 0 .. L, NEW n \in Nat, i # L PROVE (d[i + 1] % Base) + Base * n \in Nat
    OBVIOUS
  <2>1. d[i + 1] \in Nat
    BY <1>1
  <2>2. d[i + 1] % Base \in Nat
    BY <1>1, <2>1
  <2>3. Base * n \in Nat
    BY <1>1
  <2> QED
    BY <2>2, <2>3
<1>3. over \in SUBSET (0 .. L) /\ L \in over /\ base \in [0 .. L -> Nat] /\ after \in [0 .. L -> 0 .. L]
  BY <1>1
<1>4. Onward(L, over, after)
  BY <1>1 DEF Onward
<1>5. PICK f \in [0 .. L -> Nat] : DefinedBackward(f, L, over, base, step, after)
  <2>1. L \in Nat /\ over \in SUBSET (0 .. L) /\ L \in over
    BY <1>1, <1>3
  <2>2. base \in [0 .. L -> Nat] /\ after \in [0 .. L -> 0 .. L]
    BY <1>3
  <2> HIDE DEF L, over, base, step, after, Body
  <2> QED
    BY <1>2, <2>1, <2>2, <1>4, BackwardDefinition, Zenon
<1>6. f = Body(f)
  <2>1. \A p \in 0 .. L : f[p] = IF p = L THEN 0 ELSE (d[p + 1] % Base) + Base * f[p + 1]
    <3> TAKE p \in 0 .. L
    <3>1. CASE p = L
      BY <1>5, <3>1 DEF DefinedBackward
    <3>2. CASE p # L
      <4>1. after[p] = p + 1 /\ f[p + 1] \in Nat
        BY <1>1, <3>2
      <4>2. f[p] = step[<<p, f[after[p]]>>]
        BY <1>5, <3>2 DEF DefinedBackward
      <4> QED
        BY <3>2, <4>1, <4>2
    <3> QED
      BY <3>1, <3>2
  <2> QED
    BY <2>1
<1> DEFINE g == CHOOSE h : h = Body(h)
<1>7. g = Body(g)
  <2> HIDE DEF Body
  <2> QED
    BY <1>6
<1>8. Number(d) = g[0]
  BY DEF Number
<1>9. \A i \in 0 .. L : g[i] = IF i = L THEN 0 ELSE (d[i + 1] % Base) + Base * g[i + 1]
  <2> HIDE DEF g
  <2> QED
    BY <1>7
<1> DEFINE T == {n \in Nat : n <= L => g[L - n] \in Nat}
<1>10. 0 \in T
  <2> HIDE DEF g
  <2> QED
    BY <1>1, <1>9
<1>11. ASSUME NEW n \in Nat, n \in T PROVE n + 1 \in T
  <2> HIDE DEF g
  <2> SUFFICES ASSUME n + 1 <= L PROVE g[L - (n + 1)] \in Nat
    OBVIOUS
  <2>1. L - (n + 1) \in 0 .. L /\ L - (n + 1) # L /\ (L - (n + 1)) + 1 = L - n /\ n <= L
    BY <1>1
  <2>2. g[L - n] \in Nat
    BY <1>11, <2>1
  <2>3. g[L - (n + 1)] = step[<<L - (n + 1), g[L - n]>>]
    BY <1>9, <2>1, <2>2
  <2> HIDE DEF step
  <2> QED
    BY <1>2, <2>1, <2>2, <2>3
<1>12. L \in T
  <2> HIDE DEF T
  <2> QED
    BY <1>1, <1>10, <1>11, SetInduction
<1> QED
  <2> HIDE DEF g
  <2> QED
    BY <1>1, <1>8, <1>12

LEMMA ExtentOf ==
  \A b \in Seq(Byte) :
      Length(b) \in Nat /\ Extent(b) \in Nat /\ Extent(b) >= Header(b) /\ Header(b) \in 0 .. Len(b)
<1> TAKE b \in Seq(Byte)
<1>1. Header(b) \in 0 .. Len(b) /\ Len(b) \in Nat
  BY HeaderOf, LenProperties
<1>2. SubSeq(b, 1, Header(b)) \in Seq(Byte)
  BY <1>1, FrontOf, Zenon
<1>3. Length(b) \in Nat
  BY <1>2, NumberIsNatural, Zenon DEF Length
<1> QED
  BY <1>1, <1>3 DEF Extent

-----------------------------------------------------------------------------
(* More of an output changes nothing of the messages that have arrived. *)

LEMMA HeaderOfMore ==
  \A b, c \in Seq(Byte) : Header(b) > 0 => Header(b \o c) = Header(b)
<1> TAKE b, c \in Seq(Byte)
<1> HAVE Header(b) > 0
<1> DEFINE m == b \o c
           h == Header(b)
           k == Header(m)
<1>1. /\ m \in Seq(Byte) /\ Len(m) = Len(b) + Len(c) /\ Len(b) \in Nat /\ Len(c) \in Nat
      /\ \A i \in 1 .. Len(b) : m[i] = b[i]
  BY ConcatProperties, LenProperties
<1>2. /\ h \in 0 .. Len(b) /\ h <= MaxVarint /\ b[h] < Base
      /\ \A i \in 1 .. Len(b) : i <= MaxVarint /\ b[i] < Base => h <= i
  BY HeaderOf
<1>3. h \in 1 .. Len(b) /\ h \in 1 .. Len(m) /\ m[h] < Base
  BY <1>1, <1>2
<1>4. k # 0
  <2>1. k = 0 => \A i \in 1 .. Len(m) : i <= MaxVarint => ~(m[i] < Base)
    BY <1>1, HeaderOf, Zenon
  <2> HIDE DEF m, h, k
  <2> QED
    BY <2>1, <1>2, <1>3
<1>5. k \in 0 .. Len(m)
  BY <1>1, HeaderOf, Zenon
<1>6. /\ k <= MaxVarint /\ m[k] < Base
      /\ \A i \in 1 .. Len(m) : i <= MaxVarint /\ m[i] < Base => k <= i
  <2>1. k > 0
    BY <1>4, <1>5, <1>1
  <2> QED
    BY <2>1, <1>1, HeaderOf, Zenon
<1> HIDE DEF m, h, k
<1>7. k <= h /\ k \in 1 .. Len(b)
  BY <1>1, <1>2, <1>3, <1>4, <1>5, <1>6
<1>8. h <= k
  BY <1>1, <1>2, <1>6, <1>7
<1>9. k = h
  BY <1>1, <1>2, <1>5, <1>7, <1>8
<1> QED
  BY <1>9 DEF m, h, k

LEMMA NoHeaderInMore ==
  \A b, c \in Seq(Byte) : Header(b) = 0 /\ Len(b) >= MaxVarint => Header(b \o c) = 0
<1> TAKE b, c \in Seq(Byte)
<1> HAVE Header(b) = 0 /\ Len(b) >= MaxVarint
<1> DEFINE m == b \o c
           k == Header(m)
<1>1. /\ m \in Seq(Byte) /\ Len(m) = Len(b) + Len(c) /\ Len(b) \in Nat /\ Len(c) \in Nat
      /\ \A i \in 1 .. Len(b) : m[i] = b[i]
  BY ConcatProperties, LenProperties
<1>2. \A i \in 1 .. Len(b) : i <= MaxVarint => ~(b[i] < Base)
  BY HeaderOf
<1>3. k \in 0 .. Len(m) /\ (k > 0 => k <= MaxVarint /\ m[k] < Base)
  BY <1>1, HeaderOf, Zenon
<1>4. MaxVarint \in Nat
  BY QueryAssumption
<1>5. Len(b) >= MaxVarint
  OBVIOUS
<1> HIDE DEF m, k
<1>6. k = 0
  BY <1>1, <1>2, <1>3, <1>4, <1>5
<1> QED
  BY <1>6 DEF m, k

LEMMA ExtentOfMore ==
  \A b, c \in Seq(Byte) : Header(b) > 0 => Extent(b \o c) = Extent(b)
<1> TAKE b, c \in Seq(Byte)
<1> HAVE Header(b) > 0
<1>1. Header(b \o c) = Header(b)
  BY HeaderOfMore
<1>2. Header(b) \in 1 .. Len(b)
  BY HeaderOf
<1>3. SubSeq(b \o c, 1, Header(b)) = SubSeq(b, 1, Header(b))
  <2>1. 1 \in 1 .. Len(b)
    BY <1>2, LenProperties
  <2> QED
    BY <1>2, <2>1, SubSeqOfConcat1
<1> QED
  BY <1>1, <1>3 DEF Extent, Length

LEMMA ArrivedInMore ==
  \A b, c \in Seq(Byte) : Arrived(b) =>
      Arrived(b \o c) /\ Extent(b \o c) = Extent(b) /\ Message(b \o c) = Message(b)
<1> TAKE b, c \in Seq(Byte)
<1> HAVE Arrived(b)
<1>1. Header(b) > 0 /\ Extent(b) <= Len(b)
  BY DEF Arrived
<1>2. Header(b \o c) = Header(b) /\ Extent(b \o c) = Extent(b)
  BY <1>1, HeaderOfMore, ExtentOfMore
<1>3. b \o c \in Seq(Byte) /\ Len(b \o c) = Len(b) + Len(c) /\ Len(b) \in Nat /\ Len(c) \in Nat
  BY ConcatProperties, LenProperties
<1>4. Header(b) \in 0 .. Len(b) /\ Extent(b) \in Nat /\ Extent(b) >= Header(b)
  BY ExtentOf, Zenon
<1>5. SubSeq(b \o c, Header(b) + 1, Extent(b)) = SubSeq(b, Header(b) + 1, Extent(b))
  <2>1. CASE Header(b) + 1 <= Extent(b)
    <3>1. Header(b) + 1 \in 1 .. Len(b) /\ Extent(b) \in 1 .. Len(b)
      BY <1>1, <1>3, <1>4, <2>1
    <3> QED
      BY <3>1, SubSeqOfConcat1
  <2>2. CASE ~(Header(b) + 1 <= Extent(b))
    <3>1. Header(b) + 1 \in Int /\ Extent(b) \in Int /\ Extent(b) < Header(b) + 1
      BY <1>3, <1>4, <2>2
    <3> QED
      BY <3>1, SubSeqEmpty
  <2> QED
    BY <2>1, <2>2
<1>6. Extent(b) <= Len(b \o c)
  BY <1>1, <1>3, <1>4
<1> QED
  BY <1>1, <1>2, <1>5, <1>6 DEF Arrived, Message

LEMMA WrongInMore ==
  \A b, c \in Seq(Byte) : Wrong(b, FALSE) => Wrong(b \o c, FALSE)
<1> TAKE b, c \in Seq(Byte)
<1> HAVE Wrong(b, FALSE)
<1>1. CASE Arrived(b) /\ Declared[Message(b)] = Malformed
  BY <1>1, ArrivedInMore DEF Wrong
<1>2. CASE b # <<>> /\ Header(b) = 0 /\ Len(b) >= MaxVarint
  <2>1. Header(b \o c) = 0
    BY <1>2, NoHeaderInMore
  <2>2. b \o c # <<>>
    BY <1>2, ConcatEqualIffEmpty
  <2>3. Len(b \o c) >= MaxVarint
    <3>1. Len(b \o c) = Len(b) + Len(c) /\ Len(b) \in Nat /\ Len(c) \in Nat /\ MaxVarint \in Nat
      BY ConcatProperties, LenProperties, QueryAssumption
    <3> QED
      BY <1>2, <3>1
  <2> QED
    BY <2>1, <2>2, <2>3 DEF Wrong
<1> QED
  BY <1>1, <1>2 DEF Wrong

-----------------------------------------------------------------------------
(* The way a drain goes through an output. *)

\* A message has arrived whole there, and it is one.
Good(w, p) == Arrived(Rest(w, p)) /\ ~Wrong(Rest(w, p), FALSE)

Closed(w, p, C) == p \in C /\ \A q \in C : q \in 0 .. Len(w) => Past(w, q) \in C

\* From p on, V are the places passed, each reached from p, up to e.
Path(w, p, V, e) ==
    /\ V \subseteq 0 .. Len(w) /\ p \in V /\ e \in V
    /\ \A q \in V : p <= q /\ q <= e
    /\ \A q \in V \ {e} : Good(w, q) /\ Past(w, q) \in V
    /\ \A C \in SUBSET Nat : Closed(w, p, C) => V \subseteq C

SaidOf(w, V) == {Declared[Message(Rest(w, q))] : q \in V}

LEMMA PastOf ==
  \A w \in Seq(Byte) : \A p \in 0 .. Len(w) :
      /\ Past(w, p) \in 0 .. Len(w) /\ p <= Past(w, p)
      /\ Arrived(Rest(w, p)) => Past(w, p) = p + Extent(Rest(w, p)) /\ p < Past(w, p)
      /\ ~Arrived(Rest(w, p)) => Past(w, p) = p
<1> TAKE w \in Seq(Byte)
<1> TAKE p \in 0 .. Len(w)
<1>1. Len(w) \in Nat /\ p \in 0 .. Len(w)
  BY LenProperties
<1>2. Rest(w, p) \in Seq(Byte) /\ Len(Rest(w, p)) = Len(w) - p
  BY RestOf, Zenon
<1>3. Header(Rest(w, p)) \in 0 .. Len(Rest(w, p)) /\ Extent(Rest(w, p)) \in Nat /\ Extent(Rest(w, p)) >= Header(Rest(w, p))
  BY <1>2, ExtentOf, Zenon
<1>4. CASE Arrived(Rest(w, p))
  <2>1. Past(w, p) = p + Extent(Rest(w, p))
    BY <1>4 DEF Past
  <2>2. Header(Rest(w, p)) > 0 /\ Extent(Rest(w, p)) <= Len(Rest(w, p))
    BY <1>4 DEF Arrived
  <2> QED
    BY <1>1, <1>2, <1>3, <1>4, <2>1, <2>2
<1>5. CASE ~Arrived(Rest(w, p))
  <2>1. Past(w, p) = p
    BY <1>5 DEF Past
  <2> QED
    BY <1>1, <1>5, <2>1
<1> QED
  BY <1>4, <1>5

LEMMA GoodIsWhateverTheEnd ==
  \A b : \A eof \in BOOLEAN : Arrived(b) => (Wrong(b, eof) <=> Declared[Message(b)] = Malformed)
<1> TAKE b
<1> TAKE eof \in BOOLEAN
<1> HAVE Arrived(b)
<1>1. Header(b) > 0
  BY DEF Arrived
<1>2. ~(Header(b) = 0)
  BY <1>1
<1> QED
  BY <1>2 DEF Wrong

LEMMA PathStays ==
  \A w \in Seq(Byte) : \A p \in 0 .. Len(w) : Path(w, p, {p}, p)
<1> TAKE w \in Seq(Byte)
<1> TAKE p \in 0 .. Len(w)
<1>1. \A C \in SUBSET Nat : Closed(w, p, C) => {p} \subseteq C
  BY DEF Closed
<1> QED
  BY <1>1 DEF Path

LEMMA PathBegins ==
  \A w \in Seq(Byte) : \A p \in 0 .. Len(w) : \A V, e :
      Good(w, p) /\ Path(w, Past(w, p), V, e) =>
          Path(w, p, V \cup {p}, e) /\ (V \cup {p}) \ {e} = (V \ {e}) \cup {p}
<1> TAKE w \in Seq(Byte)
<1> TAKE p \in 0 .. Len(w)
<1> TAKE V, e
<1> HAVE Good(w, p) /\ Path(w, Past(w, p), V, e)
<1>1. Past(w, p) \in 0 .. Len(w) /\ p < Past(w, p) /\ Len(w) \in Nat
  BY PastOf, LenProperties DEF Good
<1>2. /\ V \subseteq 0 .. Len(w) /\ Past(w, p) \in V /\ e \in V
      /\ \A q \in V : Past(w, p) <= q /\ q <= e
      /\ \A q \in V \ {e} : Good(w, q) /\ Past(w, q) \in V
  BY DEF Path
<1>3. \A C \in SUBSET Nat : Closed(w, Past(w, p), C) => V \subseteq C
  BY DEF Path
<1>4. \A q \in V \cup {p} : p <= q /\ q <= e
  BY <1>1, <1>2
<1>5. p # e
  BY <1>1, <1>2
<1>6. ASSUME NEW C \in SUBSET Nat, Closed(w, p, C) PROVE V \cup {p} \subseteq C
  <2>1. p \in C /\ Past(w, p) \in C
    BY <1>6 DEF Closed
  <2>2. Closed(w, Past(w, p), C)
    BY <1>6, <2>1 DEF Closed
  <2> QED
    BY <1>3, <2>1, <2>2
<1>7. \A q \in (V \cup {p}) \ {e} : Good(w, q) /\ Past(w, q) \in V \cup {p}
  BY <1>2
<1> QED
  BY <1>2, <1>4, <1>5, <1>6, <1>7 DEF Path

LEMMA PathsJoin ==
  \A w \in Seq(Byte) : \A V, W, p, o, e :
      Path(w, p, V, o) /\ Path(w, o, W, e) =>
          Path(w, p, V \cup W, e) /\ (V \cup W) \ {e} = (V \ {o}) \cup (W \ {e})
<1> TAKE w \in Seq(Byte)
<1> TAKE V, W, p, o, e
<1> HAVE Path(w, p, V, o) /\ Path(w, o, W, e)
<1>0. Len(w) \in Nat
  BY LenProperties
<1>1. /\ V \subseteq 0 .. Len(w) /\ p \in V /\ o \in V
      /\ \A q \in V : p <= q /\ q <= o
      /\ \A q \in V \ {o} : Good(w, q) /\ Past(w, q) \in V
  BY DEF Path
<1>2. /\ W \subseteq 0 .. Len(w) /\ o \in W /\ e \in W
      /\ \A q \in W : o <= q /\ q <= e
      /\ \A q \in W \ {e} : Good(w, q) /\ Past(w, q) \in W
  BY DEF Path
<1>3. \A q \in V \ {o} : q # e
  <2> TAKE q \in V \ {o}
  <2>1. q <= o /\ o <= e /\ q # o /\ q \in Nat /\ o \in Nat /\ e \in Nat
    BY <1>0, <1>1, <1>2
  <2> QED
    BY <2>1
<1>4. (V \cup W) \ {e} = (V \ {o}) \cup (W \ {e})
  BY <1>1, <1>2, <1>3
<1>5. \A q \in V \cup W : p <= q /\ q <= e
  <2> TAKE q \in V \cup W
  <2>1. p <= o /\ o <= e /\ p \in Nat /\ o \in Nat /\ e \in Nat /\ q \in Nat
    BY <1>0, <1>1, <1>2
  <2>2. CASE q \in V
    <3>1. p <= q /\ q <= o
      BY <1>1, <2>2
    <3> QED
      BY <2>1, <3>1
  <2>3. CASE q \in W
    <3>1. o <= q /\ q <= e
      BY <1>2, <2>3
    <3> QED
      BY <2>1, <3>1
  <2> QED
    BY <2>2, <2>3
<1>6. \A q \in (V \cup W) \ {e} : Good(w, q) /\ Past(w, q) \in V \cup W
  BY <1>1, <1>2, <1>4
<1>7. ASSUME NEW C \in SUBSET Nat, Closed(w, p, C) PROVE V \cup W \subseteq C
  <2>1. V \subseteq C
    BY <1>7 DEF Path
  <2>2. Closed(w, o, C)
    BY <1>1, <1>7, <2>1 DEF Closed
  <2>3. W \subseteq C
    BY <2>2 DEF Path
  <2> QED
    BY <2>1, <2>3
<1>8. V \cup W \subseteq 0 .. Len(w) /\ p \in V \cup W /\ e \in V \cup W
  BY <1>1, <1>2
<1> QED
  BY <1>4, <1>5, <1>6, <1>7, <1>8 DEF Path

\* The way through an output is the way through more of it.
LEMMA PathInMore ==
  \A w, c \in Seq(Byte) : \A V, p, e :
      Path(w, p, V, e) => Path(w \o c, p, V, e) /\ SaidOf(w \o c, V \ {e}) = SaidOf(w, V \ {e})
<1> TAKE w, c \in Seq(Byte)
<1> TAKE V, p, e
<1> HAVE Path(w, p, V, e)
<1>0. w \o c \in Seq(Byte) /\ Len(w) \in Nat /\ Len(w \o c) \in Nat /\ Len(w) <= Len(w \o c)
  BY ConcatProperties, LenProperties
<1>1. /\ V \subseteq 0 .. Len(w) /\ p \in V /\ e \in V
      /\ \A q \in V : p <= q /\ q <= e
      /\ \A q \in V \ {e} : Good(w, q) /\ Past(w, q) \in V
  BY DEF Path
<1>2. \A q \in 0 .. Len(w) : q \in 0 .. Len(w \o c) /\ Rest(w \o c, q) = Rest(w, q) \o c /\ Rest(w, q) \in Seq(Byte)
  BY RestOfMore, RestOf, Zenon
<1>3. \A q \in 0 .. Len(w) : Arrived(Rest(w, q)) =>
          /\ Arrived(Rest(w \o c, q)) /\ Message(Rest(w \o c, q)) = Message(Rest(w, q))
          /\ Past(w \o c, q) = Past(w, q)
  <2> TAKE q \in 0 .. Len(w)
  <2> HAVE Arrived(Rest(w, q))
  <2>1. Arrived(Rest(w, q) \o c) /\ Extent(Rest(w, q) \o c) = Extent(Rest(w, q)) /\ Message(Rest(w, q) \o c) = Message(Rest(w, q))
    BY <1>2, ArrivedInMore
  <2>2. Rest(w \o c, q) = Rest(w, q) \o c
    BY <1>2
  <2> QED
    BY <2>1, <2>2 DEF Past
<1>4. \A q \in 0 .. Len(w) : Good(w, q) => Good(w \o c, q)
  <2> TAKE q \in 0 .. Len(w)
  <2> HAVE Good(w, q)
  <2>1. Arrived(Rest(w, q)) /\ ~Wrong(Rest(w, q), FALSE)
    BY DEF Good
  <2>2. Arrived(Rest(w \o c, q)) /\ Message(Rest(w \o c, q)) = Message(Rest(w, q))
    BY <1>3, <2>1
  <2> QED
    BY <2>1, <2>2, GoodIsWhateverTheEnd DEF Good
<1>5. ASSUME NEW C \in SUBSET Nat, Closed(w \o c, p, C) PROVE V \subseteq C
  <2>1. p \in C /\ \A q \in C : q \in 0 .. Len(w \o c) => Past(w \o c, q) \in C
    BY <1>5 DEF Closed
  <2>2. ASSUME NEW q \in C, q \in 0 .. Len(w) PROVE Past(w, q) \in C
    <3>1. CASE Arrived(Rest(w, q))
      BY <1>2, <1>3, <2>1, <2>2, <3>1
    <3>2. CASE ~Arrived(Rest(w, q))
      BY <2>2, <3>2, PastOf
    <3> QED
      BY <3>1, <3>2
  <2>3. Closed(w, p, C)
    BY <2>1, <2>2 DEF Closed
  <2> QED
    BY <2>3 DEF Path
<1>6. V \subseteq 0 .. Len(w \o c)
  BY <1>1, <1>2
<1>7. \A q \in V \ {e} : Good(w \o c, q) /\ Past(w \o c, q) \in V
  <2> TAKE q \in V \ {e}
  <2>1. q \in 0 .. Len(w) /\ Good(w, q) /\ Past(w, q) \in V
    BY <1>1
  <2>2. Arrived(Rest(w, q))
    BY <2>1 DEF Good
  <2> QED
    BY <1>3, <1>4, <2>1, <2>2
<1>8. Path(w \o c, p, V, e)
  BY <1>1, <1>5, <1>6, <1>7 DEF Path
<1>9. \A q \in V \ {e} : Message(Rest(w \o c, q)) = Message(Rest(w, q))
  <2> TAKE q \in V \ {e}
  <2>1. q \in 0 .. Len(w) /\ Arrived(Rest(w, q))
    BY <1>1 DEF Good
  <2> QED
    BY <1>3, <2>1
<1>10. SaidOf(w \o c, V \ {e}) = SaidOf(w, V \ {e})
  BY <1>9 DEF SaidOf
<1> QED
  BY <1>8, <1>10

-----------------------------------------------------------------------------
(* Decoder::drain goes the way there is, to its end. *)

\* What draining an output from o on comes to, e being where it stops.
Drained(w, o, targets, eof, r) ==
    \E e \in 0 .. Len(w) : \E V \in SUBSET (0 .. Len(w)) :
        /\ Path(w, o, V, e) /\ ~Good(w, e)
        /\ r = State(Rest(w, e), targets \cup (SaidOf(w, V \ {e}) \ {NoTarget}), Wrong(Rest(w, e), eof))

LEMMA StateWithMore ==
  \A left, said, more : \A wrong \in BOOLEAN :
      Adding(State(left, said, wrong), more) = State(left, said \cup more, wrong)
  BY DEF State, Adding

LEMMA DrainStops ==
  ASSUME NEW w \in Seq(Byte), NEW p \in 0 .. Len(w), NEW targets, NEW eof \in BOOLEAN, ~Good(w, p)
  PROVE  Drained(w, p, targets, eof, State(Rest(w, p), targets, Wrong(Rest(w, p), eof)))
<1>1. Path(w, p, {p}, p) /\ {p} \in SUBSET (0 .. Len(w))
  BY PathStays
<1>2. targets \cup (SaidOf(w, {p} \ {p}) \ {NoTarget}) = targets
  BY DEF SaidOf
<1> QED
  BY <1>1, <1>2 DEF Drained

LEMMA DrainGoesOn ==
  ASSUME NEW w \in Seq(Byte), NEW p \in 0 .. Len(w), NEW targets, NEW eof \in BOOLEAN, Good(w, p),
         NEW r, Drained(w, Past(w, p), targets, eof, r)
  PROVE  Drained(w, p, targets, eof, Adding(r, Declares(Rest(w, p))))
<1>1. PICK e \in 0 .. Len(w) : \E V \in SUBSET (0 .. Len(w)) :
          /\ Path(w, Past(w, p), V, e) /\ ~Good(w, e)
          /\ r = State(Rest(w, e), targets \cup (SaidOf(w, V \ {e}) \ {NoTarget}), Wrong(Rest(w, e), eof))
  BY DEF Drained
<1>2. PICK V \in SUBSET (0 .. Len(w)) :
          /\ Path(w, Past(w, p), V, e) /\ ~Good(w, e)
          /\ r = State(Rest(w, e), targets \cup (SaidOf(w, V \ {e}) \ {NoTarget}), Wrong(Rest(w, e), eof))
  BY <1>1
<1> DEFINE said == SaidOf(w, V \ {e})
           more == SaidOf(w, (V \cup {p}) \ {e})
<1>3. Path(w, p, V \cup {p}, e) /\ (V \cup {p}) \ {e} = (V \ {e}) \cup {p}
  BY <1>2, PathBegins
<1>4. more = said \cup {Declared[Message(Rest(w, p))]}
  BY <1>3 DEF SaidOf
<1>5. Adding(r, Declares(Rest(w, p)))
         = State(Rest(w, e), (targets \cup (said \ {NoTarget})) \cup Declares(Rest(w, p)), Wrong(Rest(w, e), eof))
  <2>1. Wrong(Rest(w, e), eof) \in BOOLEAN
    BY DEF Wrong
  <2> DEFINE left == Rest(w, e)
             told == targets \cup (said \ {NoTarget})
             wrong == Wrong(Rest(w, e), eof)
             new == Declares(Rest(w, p))
  <2>2. r = State(left, told, wrong)
    BY <1>2
  <2>3. wrong \in BOOLEAN
    BY <2>1
  <2> HIDE DEF left, told, wrong, new
  <2>4. Adding(State(left, told, wrong), new) = State(left, told \cup new, wrong)
    BY <2>3, StateWithMore
  <2>5. Adding(r, new) = State(left, told \cup new, wrong)
    BY <2>2, <2>4
  <2> QED
    BY <2>5 DEF left, told, wrong, new
<1>6. (targets \cup (said \ {NoTarget})) \cup Declares(Rest(w, p)) = targets \cup (more \ {NoTarget})
  <2> HIDE DEF more, said
  <2> QED
    BY <1>4 DEF Declares
<1>7. V \cup {p} \in SUBSET (0 .. Len(w))
  OBVIOUS
<1>8. ~Good(w, e)
  BY <1>2
<1> QED
  BY <1>3, <1>5, <1>6, <1>7, <1>8 DEF Drained

LEMMA Drains ==
  ASSUME NEW w \in Seq(Byte), NEW o \in 0 .. Len(w), NEW targets, NEW eof \in BOOLEAN
  PROVE  Drained(w, o, targets, eof, DrainMessages(Rest(w, o), targets, eof))
<1> DEFINE b == Rest(w, o)
           L == Len(b)
           Here(p) == Arrived(Rest(b, p)) /\ ~Wrong(Rest(b, p), eof)
           Body(f) == [p \in 0 .. L |->
                         IF Here(p)
                         THEN Adding(f[p + Extent(Rest(b, p))], Declares(Rest(b, p)))
                         ELSE State(Rest(b, p), targets, Wrong(Rest(b, p), eof))]
           S == [pending : Seq(Byte), tier : SUBSET (targets \cup UNION {Declares(Rest(b, p)) : p \in 0 .. L}),
                 failed : BOOLEAN]
           over == {p \in 0 .. L : ~Here(p)}
           base == [p \in 0 .. L |-> State(Rest(b, p), targets, Wrong(Rest(b, p), eof))]
           step == [x \in (0 .. L) \X S |-> Adding(x[2], Declares(Rest(b, x[1])))]
           after == [p \in 0 .. L |-> Past(b, p)]
<1>1. b \in Seq(Byte) /\ L \in Nat /\ L = Len(w) - o
  BY RestOf, LenProperties, Zenon
<1>2. \A p \in 0 .. L : Rest(b, p) \in Seq(Byte) /\ Wrong(Rest(b, p), eof) \in BOOLEAN
  BY <1>1, RestOf, Zenon DEF Wrong
<1>3. \A p \in 0 .. L : Past(b, p) \in 0 .. L /\ (Here(p) => Past(b, p) = p + Extent(Rest(b, p)) /\ p < Past(b, p))
  BY <1>1, PastOf
<1>4. \A p \in 0 .. L : o + p \in 0 .. Len(w) /\ Rest(b, p) = Rest(w, o + p)
  <2> TAKE p \in 0 .. L
  <2>1. p \in 0 .. Len(w) - o
    BY <1>1
  <2> QED
    BY <2>1, RestOfRest, Zenon
<1>5. \A p \in 0 .. L : Here(p) <=> Good(w, o + p)
  BY <1>4, GoodIsWhateverTheEnd DEF Good
<1>6. L \notin {p \in 0 .. L : Here(p)}
  <2>1. ~(L < Past(b, L))
    BY <1>1, <1>3
  <2> QED
    BY <1>1, <1>3, <2>1
<1>7. over \in SUBSET (0 .. L) /\ L \in over
  BY <1>1, <1>6
<1>8. base \in [0 .. L -> S]
  BY <1>2 DEF State
<1>9. step \in [(0 .. L) \X S -> S]
  <2> SUFFICES ASSUME NEW p \in 0 .. L, NEW s \in S PROVE Adding(s, Declares(Rest(b, p))) \in S
    OBVIOUS
  <2>1. Declares(Rest(b, p)) \subseteq UNION {Declares(Rest(b, q)) : q \in 0 .. L}
    OBVIOUS
  <2> QED
    BY <2>1 DEF Adding
<1>10. after \in [0 .. L -> 0 .. L] /\ Onward(L, over, after)
  BY <1>3 DEF Onward
<1>11. PICK f \in [0 .. L -> S] : DefinedBackward(f, L, over, base, step, after)
  <2>1. L \in Nat
    BY <1>1
  <2> HIDE DEF b, L, Here, Body, S, over, base, step, after
  <2> QED
    BY <2>1, <1>7, <1>8, <1>9, <1>10, BackwardDefinition, Zenon
<1>12. f = Body(f)
  <2>1. ASSUME NEW p \in 0 .. L
        PROVE f[p] = IF Here(p)
                     THEN Adding(f[p + Extent(Rest(b, p))], Declares(Rest(b, p)))
                     ELSE State(Rest(b, p), targets, Wrong(Rest(b, p), eof))
    <3>1. f[p] = IF p \in over THEN base[p] ELSE step[<<p, f[after[p]]>>]
      BY <1>11 DEF DefinedBackward
    <3>2. CASE Here(p)
      <4>1. p \notin over /\ after[p] = p + Extent(Rest(b, p)) /\ after[p] \in 0 .. L
        BY <1>3, <3>2
      <4>2. f[p] = step[<<p, f[after[p]]>>] /\ f[after[p]] \in S
        BY <3>1, <4>1
      <4>3. step[<<p, f[after[p]]>>] = Adding(f[after[p]], Declares(Rest(b, p)))
        <5> HIDE DEF S, after
        <5> QED
          BY <4>2
      <4> HIDE DEF step
      <4> QED
        BY <3>2, <4>1, <4>2, <4>3
    <3>3. CASE ~Here(p)
      BY <3>1, <3>3
    <3> QED
      BY <3>2, <3>3
  <2> QED
    <3> HIDE DEF Here
    <3> QED
      BY <2>1
<1> DEFINE g == CHOOSE h : h = Body(h)
<1>13. g = Body(g)
  <2> HIDE DEF Body
  <2> QED
    BY <1>12
<1>14. DrainMessages(b, targets, eof) = g[0]
  BY DEF DrainMessages
<1>15. \A p \in 0 .. L : g[p] = IF Here(p)
                                THEN Adding(g[p + Extent(Rest(b, p))], Declares(Rest(b, p)))
                                ELSE State(Rest(b, p), targets, Wrong(Rest(b, p), eof))
  <2> HIDE DEF g, Here
  <2> QED
    BY <1>13
<1> HIDE DEF g, Here, Body, S, over, base, step, after
<1> DEFINE Holds(p) == Drained(w, o + p, targets, eof, g[p])
           T == {n \in Nat : \A p \in 0 .. L : p >= L - n => Holds(p)}
<1>16. ASSUME NEW p \in 0 .. L, \A q \in 0 .. L : q > p => Holds(q) PROVE Holds(p)
  <2>1. CASE ~Here(p)
    <3>1. ~Good(w, o + p) /\ o + p \in 0 .. Len(w) /\ Rest(b, p) = Rest(w, o + p)
      BY <1>4, <1>5, <2>1
    <3>2. g[p] = State(Rest(w, o + p), targets, Wrong(Rest(w, o + p), eof))
      BY <1>15, <2>1, <3>1
    <3> QED
      BY <3>1, <3>2, DrainStops
  <2>2. CASE Here(p)
    <3> DEFINE q == p + Extent(Rest(b, p))
    <3>1. Good(w, o + p) /\ o + p \in 0 .. Len(w) /\ Rest(b, p) = Rest(w, o + p)
      BY <1>4, <1>5, <2>2
    <3>2. q \in 0 .. L /\ p < q
      BY <1>3, <2>2
    <3>3. g[p] = Adding(g[q], Declares(Rest(w, o + p)))
      BY <1>15, <2>2, <3>1
    <3>4. Past(w, o + p) = o + q
      <4>1. Past(w, o + p) = (o + p) + Extent(Rest(w, o + p))
        BY <3>1, PastOf DEF Good
      <4>2. Extent(Rest(w, o + p)) \in Nat /\ o \in Nat /\ p \in Nat
        <5>1. o \in Nat /\ p \in Nat
          BY <1>1, LenProperties
        <5>2. Rest(w, o + p) \in Seq(Byte)
          BY <1>2, <3>1
        <5> QED
          BY <5>1, <5>2, ExtentOf, Zenon
      <4> QED
        BY <3>1, <4>1, <4>2
    <3>5. Holds(q)
      <4>1. q > p
        BY <3>2, <1>1
      <4> HIDE DEF q, Holds
      <4> QED
        BY <1>16, <3>2, <4>1
    <3>6. Drained(w, Past(w, o + p), targets, eof, g[q])
      BY <3>4, <3>5
    <3> HIDE DEF q
    <3> QED
      BY <3>1, <3>3, <3>6, DrainGoesOn
  <2> QED
    BY <2>1, <2>2
<1> HIDE DEF Holds
<1>17. 0 \in T
  <2> SUFFICES ASSUME NEW p \in 0 .. L, p >= L - 0 PROVE Holds(p)
    OBVIOUS
  <2>1. \A q \in 0 .. L : ~(q > p)
    BY <1>1
  <2> QED
    BY <1>16, <2>1
<1>18. ASSUME NEW n \in Nat, n \in T PROVE n + 1 \in T
  <2>1. \A p \in 0 .. L : p >= L - n => Holds(p)
    BY <1>18
  <2> SUFFICES ASSUME NEW p \in 0 .. L, p >= L - (n + 1) PROVE Holds(p)
    OBVIOUS
  <2>2. \A q \in 0 .. L : q > p => q >= L - n
    BY <1>1
  <2> QED
    BY <1>16, <2>1, <2>2
<1>19. L \in T
  <2>1. L \in Nat
    BY <1>1
  <2> HIDE DEF T, L
  <2> QED
    BY <2>1, <1>17, <1>18, SetInduction
<1>20. Holds(0)
  <2>1. 0 \in 0 .. L /\ 0 >= L - L
    BY <1>1
  <2> HIDE DEF L
  <2> QED
    BY <1>19, <2>1
<1>21. o + 0 = o
  BY LenProperties
<1> QED
  BY <1>14, <1>20, <1>21 DEF Holds

-----------------------------------------------------------------------------
(* What an output says as a whole is read where the way through it stops. *)

LEMMA WholeIsReadAtTheEnd ==
  ASSUME NEW w \in Seq(Byte), NEW V, NEW e, Path(w, 0, V, e), ~Good(w, e)
  PROVE  SaysAsAWhole(w) = IF Wrong(Rest(w, e), TRUE) \/ Rest(w, e) # <<>>
                           THEN [says |-> "error", targets |-> {}]
                           ELSE [says |-> "tier", targets |-> SaidOf(w, V \ {e}) \ {NoTarget}]
<1> DEFINE places == 0 .. Len(w)
           past   == [p \in places |-> Past(w, p)]
           closed == {C \in SUBSET places : 0 \in C /\ \A p \in C : past[p] \in C}
           starts == Starts(w)
           said   == {Declared[Message(Rest(w, p))] : p \in starts \ {Len(w)}}
<1>1. Len(w) \in Nat /\ V \subseteq places /\ 0 \in V /\ e \in V /\ (\A q \in V : q <= e)
      /\ \A q \in V \ {e} : Good(w, q) /\ Past(w, q) \in V
  BY LenProperties DEF Path
<1>2. starts = {p \in places : \A C \in closed : p \in C}
  BY DEF Starts
<1>3. V \subseteq starts
  <2> SUFFICES ASSUME NEW C \in closed PROVE V \subseteq C
    BY <1>1, <1>2
  <2>1. C \subseteq places /\ 0 \in C /\ \A p \in C : past[p] \in C
    OBVIOUS
  <2>2. \A p \in C : Past(w, p) \in C
    BY <2>1
  <2>3. C \in SUBSET Nat /\ Closed(w, 0, C)
    BY <1>1, <2>1, <2>2 DEF Closed
  <2> QED
    BY <2>3 DEF Path
<1>4. ~Arrived(Rest(w, e)) => starts = V
  <2> SUFFICES ASSUME ~Arrived(Rest(w, e)) PROVE starts \subseteq V
    BY <1>3
  <2>1. Past(w, e) = e
    BY <1>1, PastOf
  <2>2. V \in closed
    BY <1>1, <2>1
  <2> QED
    BY <1>2, <2>2
<1>5. SaysAsAWhole(w) = IF Len(w) \in starts /\ Malformed \notin said
                        THEN [says |-> "tier", targets |-> said \ {NoTarget}]
                        ELSE [says |-> "error", targets |-> {}]
  BY DEF SaysAsAWhole
<1>6. Rest(w, e) \in Seq(Byte) /\ Len(Rest(w, e)) = Len(w) - e /\ (Rest(w, e) = <<>> <=> e = Len(w))
  <2>1. Rest(w, e) \in Seq(Byte) /\ Len(Rest(w, e)) = Len(w) - e
    BY <1>1, RestOf
  <2>2. Rest(w, e) = <<>> <=> Len(Rest(w, e)) = 0
    BY <2>1, EmptySeq
  <2> QED
    BY <1>1, <2>1, <2>2
<1>7. CASE Arrived(Rest(w, e))
  <2>1. Wrong(Rest(w, e), FALSE) /\ Declared[Message(Rest(w, e))] = Malformed /\ Wrong(Rest(w, e), TRUE)
    BY <1>7, GoodIsWhateverTheEnd DEF Good
  <2>2. e # Len(w)
    <3>1. e < Past(w, e) /\ Past(w, e) \in 0 .. Len(w)
      BY <1>1, <1>7, PastOf
    <3> QED
      BY <1>1, <3>1
  <2>3. Malformed \in said
    BY <1>1, <1>3, <2>1, <2>2
  <2> HIDE DEF said, starts
  <2> QED
    BY <1>5, <2>1, <2>3
<1>8. CASE ~Arrived(Rest(w, e)) /\ Rest(w, e) # <<>>
  <2>1. e # Len(w) /\ starts = V
    BY <1>4, <1>6, <1>8
  <2>2. Len(w) \notin starts
    BY <1>1, <2>1
  <2> HIDE DEF said, starts
  <2> QED
    BY <1>5, <1>8, <2>2
<1>9. CASE ~Arrived(Rest(w, e)) /\ Rest(w, e) = <<>>
  <2>1. e = Len(w) /\ starts = V /\ ~Wrong(Rest(w, e), TRUE)
    BY <1>4, <1>6, <1>9 DEF Wrong
  <2>2. said = SaidOf(w, V \ {e})
    BY <2>1 DEF SaidOf
  <2>3. \A q \in V \ {e} : Declared[Message(Rest(w, q))] # Malformed
    BY <1>1, GoodIsWhateverTheEnd DEF Good
  <2>4. Malformed \notin said
    BY <2>2, <2>3 DEF SaidOf
  <2>5. Len(w) \in starts
    BY <1>1, <2>1
  <2> HIDE DEF said, starts
  <2> QED
    BY <1>5, <1>9, <2>1, <2>2, <2>4, <2>5
<1> QED
  BY <1>7, <1>8, <1>9

-----------------------------------------------------------------------------
(* The decoder. *)

\* It stands at the end of the way through what it was given, or has failed there.
DecodesAt(w, left, told, wrong, V, e) ==
    /\ Path(w, 0, V, e) /\ ~Good(w, e)
    /\ wrong = Wrong(Rest(w, e), FALSE)
    /\ ~wrong => left = Rest(w, e) /\ told = SaidOf(w, V \ {e}) \ {NoTarget}

DecodesTo(w, left, told, wrong) ==
    \E e \in 0 .. Len(w) : \E V \in SUBSET (0 .. Len(w)) : DecodesAt(w, left, told, wrong, V, e)

Decodes == DecodesTo(got, pending, tier, failed)

LEMMA InitDecodes == Init => Decodes
<1> SUFFICES ASSUME Init PROVE Decodes
  OBVIOUS
<1>1. got = <<>> /\ pending = <<>> /\ tier = {} /\ failed = FALSE
  BY DEF Init, StreamInit
<1>2. got \in Seq(Byte) /\ Len(got) = 0 /\ 0 \in 0 .. Len(got)
  BY <1>1, EmptySeq
<1>3. Rest(got, 0) \in Seq(Byte) /\ Len(Rest(got, 0)) = 0
  <2>1. Len(Rest(got, 0)) = Len(got) - 0 /\ Rest(got, 0) \in Seq(Byte)
    BY <1>2, RestOf
  <2> QED
    BY <1>2, <2>1
<1>4. Rest(got, 0) = <<>>
  BY <1>3, EmptySeq
<1>5. ~Arrived(Rest(got, 0))
  <2>1. Header(Rest(got, 0)) \in 0 .. Len(Rest(got, 0))
    BY <1>3, HeaderOf
  <2> QED
    BY <1>3, <2>1 DEF Arrived
<1>6. Path(got, 0, {0}, 0)
  BY <1>2, PathStays
<1>7. SaidOf(got, {0} \ {0}) \ {NoTarget} = {}
  BY DEF SaidOf
<1>8. DecodesAt(got, pending, tier, failed, {0}, 0)
  BY <1>1, <1>4, <1>5, <1>6, <1>7 DEF DecodesAt, Good, Wrong
<1> QED
  BY <1>2, <1>8 DEF Decodes, DecodesTo

\* Decoder::push keeps it so.
LEMMA PushDecodes ==
  ASSUME got \in Seq(Byte), NEW c \in Seq(Byte), Decodes, Push(c), got' = got \o c
  PROVE  Decodes'
<1>1. PICK e \in 0 .. Len(got) : \E V \in SUBSET (0 .. Len(got)) : DecodesAt(got, pending, tier, failed, V, e)
  BY DEF Decodes, DecodesTo
<1>2. PICK V \in SUBSET (0 .. Len(got)) : DecodesAt(got, pending, tier, failed, V, e)
  BY <1>1
<1> DEFINE w == got \o c
<1>3. w \in Seq(Byte) /\ Len(got) \in Nat /\ Len(w) \in Nat /\ Len(got) <= Len(w)
  BY ConcatProperties, LenProperties
<1>4. e \in 0 .. Len(w) /\ V \in SUBSET (0 .. Len(w)) /\ Rest(w, e) = Rest(got, e) \o c /\ Rest(got, e) \in Seq(Byte)
  BY <1>3, RestOfMore, RestOf
<1>5. Path(w, 0, V, e) /\ SaidOf(w, V \ {e}) = SaidOf(got, V \ {e})
  BY <1>2, PathInMore DEF DecodesAt
<1>6. CASE failed
  <2>1. failed' = failed
    BY <1>6 DEF Push, decoder
  <2>2. Wrong(Rest(w, e), FALSE)
    BY <1>2, <1>4, <1>6, WrongInMore DEF DecodesAt
  <2>3. failed' = Wrong(Rest(w, e), FALSE)
    BY <1>2, <1>6, <2>1, <2>2 DEF DecodesAt, Wrong
  <2>4. ~Good(w, e)
    BY <2>2 DEF Good
  <2>5. DecodesAt(w, pending', tier', failed', V, e)
    <3>1. Path(w, 0, V, e)
      BY <1>5
    <3>2. failed' <=> TRUE
      BY <1>6, <2>1
    <3> HIDE DEF w
    <3> QED
      BY <2>3, <2>4, <3>1, <3>2 DEF DecodesAt
  <2>6. got' = w
    OBVIOUS
  <2> HIDE DEF w
  <2> QED
    BY <1>4, <2>5, <2>6 DEF Decodes, DecodesTo
<1>7. CASE ~failed
  <2> DEFINE next == DrainMessages(pending \o c, tier, FALSE)
  <2>1. pending = Rest(got, e) /\ tier = SaidOf(got, V \ {e}) \ {NoTarget}
    BY <1>2, <1>7 DEF DecodesAt
  <2>2. pending' = next.pending /\ tier' = next.tier /\ failed' = next.failed
    BY <1>7 DEF Push
  <2>3. Drained(w, e, tier, FALSE, next)
    <3>1. next = DrainMessages(Rest(w, e), tier, FALSE)
      BY <1>4, <2>1
    <3> HIDE DEF next, w
    <3> QED
      BY <1>3, <1>4, <3>1, Drains
  <2> HIDE DEF next, w
  <2>4. PICK d \in 0 .. Len(w) : \E W \in SUBSET (0 .. Len(w)) :
            /\ Path(w, e, W, d) /\ ~Good(w, d)
            /\ next = State(Rest(w, d), tier \cup (SaidOf(w, W \ {d}) \ {NoTarget}), Wrong(Rest(w, d), FALSE))
    BY <2>3 DEF Drained
  <2>5. PICK W \in SUBSET (0 .. Len(w)) :
            /\ Path(w, e, W, d) /\ ~Good(w, d)
            /\ next = State(Rest(w, d), tier \cup (SaidOf(w, W \ {d}) \ {NoTarget}), Wrong(Rest(w, d), FALSE))
    BY <2>4
  <2>6. Path(w, 0, V \cup W, d) /\ (V \cup W) \ {d} = (V \ {e}) \cup (W \ {d})
    <3>1. Path(w, 0, V, e) /\ Path(w, e, W, d) /\ w \in Seq(Byte)
      BY <1>3, <1>5, <2>5
    <3> DEFINE Joined(X, Y, p, o, q) ==
                 Path(w, p, X \cup Y, q) /\ (X \cup Y) \ {q} = (X \ {o}) \cup (Y \ {q})
    <3>2. \A X, Y, p, o, q : Path(w, p, X, o) /\ Path(w, o, Y, q) => Joined(X, Y, p, o, q)
      BY <3>1, PathsJoin
    <3>3. Joined(V, W, 0, e, d)
      <4> HIDE DEF Joined
      <4> QED
        BY <3>1, <3>2, Zenon
    <3> QED
      BY <3>3
  <2>7. SaidOf(w, (V \cup W) \ {d}) = SaidOf(w, V \ {e}) \cup SaidOf(w, W \ {d})
    BY <2>6 DEF SaidOf
  <2>8. pending' = Rest(w, d) /\ failed' = Wrong(Rest(w, d), FALSE)
        /\ tier' = tier \cup (SaidOf(w, W \ {d}) \ {NoTarget})
    BY <2>2, <2>5 DEF State
  <2>9. tier' = SaidOf(w, (V \cup W) \ {d}) \ {NoTarget}
    BY <1>5, <2>1, <2>7, <2>8
  <2>10. DecodesAt(w, pending', tier', failed', V \cup W, d)
    BY <2>5, <2>6, <2>8, <2>9 DEF DecodesAt
  <2>11. got' = w /\ V \cup W \in SUBSET (0 .. Len(w))
    BY <1>4 DEF w
  <2> QED
    BY <2>10, <2>11 DEF Decodes, DecodesTo
<1> QED
  BY <1>6, <1>7

\* Decoder::finish answers what the whole of it says.
LEMMA FinishedSaysTheWhole ==
  ASSUME got \in Seq(Byte), Decodes
  PROVE  Finished = SaysAsAWhole(got)
<1>1. PICK e \in 0 .. Len(got) : \E V \in SUBSET (0 .. Len(got)) : DecodesAt(got, pending, tier, failed, V, e)
  BY DEF Decodes, DecodesTo
<1>2. PICK V \in SUBSET (0 .. Len(got)) : DecodesAt(got, pending, tier, failed, V, e)
  BY <1>1
<1>3. Path(got, 0, V, e) /\ ~Good(got, e) /\ failed = Wrong(Rest(got, e), FALSE)
  BY <1>2 DEF DecodesAt
<1>4. SaysAsAWhole(got) = IF Wrong(Rest(got, e), TRUE) \/ Rest(got, e) # <<>>
                          THEN [says |-> "error", targets |-> {}]
                          ELSE [says |-> "tier", targets |-> SaidOf(got, V \ {e}) \ {NoTarget}]
  BY <1>3, WholeIsReadAtTheEnd
<1> DEFINE last == DrainMessages(pending, tier, TRUE)
<1>5. Finished = IF failed \/ last.failed \/ last.pending # <<>> THEN [says |-> "error", targets |-> {}]
                 ELSE [says |-> "tier", targets |-> last.tier]
  BY DEF Finished
<1> HIDE DEF last
<1>6. CASE failed
  <2>1. Wrong(Rest(got, e), TRUE)
    BY <1>3, <1>6 DEF Wrong
  <2> QED
    BY <1>4, <1>5, <1>6, <2>1
<1>7. CASE ~failed
  <2>1. pending = Rest(got, e) /\ tier = SaidOf(got, V \ {e}) \ {NoTarget}
    BY <1>2, <1>7 DEF DecodesAt
  <2>2. Drained(got, e, tier, TRUE, last)
    BY <2>1, Drains DEF last
  <2>3. PICK d \in 0 .. Len(got) : \E W \in SUBSET (0 .. Len(got)) :
            /\ Path(got, e, W, d) /\ ~Good(got, d)
            /\ last = State(Rest(got, d), tier \cup (SaidOf(got, W \ {d}) \ {NoTarget}), Wrong(Rest(got, d), TRUE))
    BY <2>2 DEF Drained
  <2>4. PICK W \in SUBSET (0 .. Len(got)) :
            /\ Path(got, e, W, d) /\ ~Good(got, d)
            /\ last = State(Rest(got, d), tier \cup (SaidOf(got, W \ {d}) \ {NoTarget}), Wrong(Rest(got, d), TRUE))
    BY <2>3
  <2>5. d = e
    BY <1>3, <2>4 DEF Path
  <2>6. W \ {d} = {}
    <3>1. \A q \in W : q \in Nat /\ e <= q /\ q <= d /\ e \in Nat /\ d \in Nat
      BY <2>4, LenProperties DEF Path
    <3> QED
      BY <2>5, <3>1
  <2>7. tier \cup (SaidOf(got, W \ {d}) \ {NoTarget}) = tier
    BY <2>6 DEF SaidOf
  <2>8. last.pending = Rest(got, e) /\ last.failed = Wrong(Rest(got, e), TRUE) /\ last.tier = tier
    BY <2>4, <2>5, <2>7 DEF State
  <2> QED
    BY <1>4, <1>5, <1>7, <2>1, <2>8
<1> QED
  BY <1>3, <1>6, <1>7 DEF Wrong

-----------------------------------------------------------------------------
(* The query. *)

QueryInv == StreamInv /\ Decodes

LEMMA InitQueryInv == Init => QueryInv
  BY InitInv, InitDecodes DEF Init, QueryInv

LEMMA AloneKeepsDecodes == Decodes /\ UNCHANGED <<got, decoder>> => Decodes'
  BY DEF Decodes, decoder

LEMMA ReadChunkDecodes == StreamInv /\ Decodes /\ ReadChunk => Decodes'
<1> SUFFICES ASSUME StreamInv, Decodes, ReadChunk PROVE Decodes'
  OBVIOUS
<1>1. got \in Seq(Byte) /\ out \in Seq(Byte)
  BY DEF StreamInv, Types
<1>2. PICK n \in 1 .. Len(out) : got' = got \o SubSeq(out, 1, n)
  BY DEF ReadChunk, Read
<1> DEFINE c == SubSeq(out, 1, n)
<1>3. c \in Seq(Byte)
  BY <1>1, ReadCuts
<1>4. Rest(got', Len(got)) = c
  <2>1. Len(got) \in 0 .. Len(got)
    BY <1>1, LenProperties
  <2>2. Rest(got \o c, Len(got)) = Rest(got, Len(got)) \o c
    BY <1>1, <1>3, <2>1, RestOfMore
  <2>3. Rest(got, Len(got)) \in Seq(Byte) /\ Len(Rest(got, Len(got))) = Len(got) - Len(got)
    BY <1>1, <2>1, RestOf
  <2>4. Rest(got, Len(got)) = <<>>
    <3>1. Len(Rest(got, Len(got))) = 0
      BY <1>1, <2>3, LenProperties
    <3> QED
      BY <2>3, <3>1, EmptySeq
  <2> HIDE DEF c
  <2> QED
    BY <1>2, <1>3, <2>2, <2>4, ConcatEmptySeq DEF c
<1>5. Push(c)
  BY <1>4 DEF ReadChunk
<1> QED
  <2> HIDE DEF c
  <2> QED
    BY <1>1, <1>2, <1>3, <1>5, PushDecodes DEF c

LEMMA NextKeepsQueryInv == QueryInv /\ [Next]_vars => QueryInv'
<1> SUFFICES ASSUME QueryInv, [Next]_vars PROVE QueryInv'
  OBVIOUS
<1> USE DEF QueryInv
<1>1. CASE UNCHANGED streamVars /\ UNCHANGED <<got, decoder>>
  <2>1. StreamInv'
    BY <1>1 DEF StreamInv, Types, Ended, streamVars
  <2> QED
    BY <1>1, <2>1, AloneKeepsDecodes
<1>2. CASE Alone(Process)
  <2>1. UNCHANGED <<got, decoder>>
    BY <1>2 DEF Alone, Process, WriteOut, WriteErr, Exit, Abort
  <2> QED
    BY <1>2, <2>1, ProcessKeepsInv, AloneKeepsDecodes DEF Alone
<1>3. CASE Alone(Drainer)
  <2>1. UNCHANGED <<got, decoder>>
    BY <1>3 DEF Alone, Drainer, Drain, EndOfErrors
  <2> QED
    BY <1>3, <2>1, DrainerKeepsInv, AloneKeepsDecodes DEF Alone
<1>4. CASE Alone(SpawnFails \/ Spawn \/ EndOfOutput \/ ReadFails \/ Wait \/ Join)
  <2>1. UNCHANGED <<got, decoder>>
    BY <1>4 DEF Alone, SpawnFails, Spawn, EndOfOutput, ReadFails, Wait, Join
  <2>2. Reader
    BY <1>4 DEF Alone, Reader
  <2> QED
    BY <2>1, <2>2, ReaderKeepsInv, AloneKeepsDecodes
<1>5. CASE ReadChunk
  <2>1. Reader
    BY <1>5 DEF ReadChunk, Reader
  <2> QED
    BY <1>5, <2>1, ReaderKeepsInv, ReadChunkDecodes
<1>6. CASE Return
  BY <1>1, <1>6 DEF Return, streamVars
<1>7. CASE Over
  BY <1>1, <1>7 DEF Over, vars, streamVars
<1>8. CASE UNCHANGED vars
  BY <1>1, <1>8 DEF vars, streamVars
<1> QED
  BY <1>2, <1>3, <1>4, <1>5, <1>6, <1>7, <1>8 DEF Next

promised == <<written, status, pc = "failed", answer>>

\* Every step of the query is one the promise allows, or none to it.
LEMMA StepKeepsThePromise == QueryInv /\ [Next]_vars => [Promise!Next]_promised
<1> SUFFICES ASSUME QueryInv, [Next]_vars PROVE [Promise!Next]_promised
  OBVIOUS
<1> USE DEF promised, Promise!Next
<1>0. Types /\ Ended /\ written = got \o out
  BY DEF QueryInv, StreamInv
<1>1. CASE UNCHANGED promised
  BY <1>1
<1>2. CASE Alone(Process)
  <2>1. status = "running" /\ UNCHANGED <<pc, answer>>
    BY <1>2 DEF Alone, Process, WriteOut, WriteErr, Exit, Abort
  <2>2. CASE WriteOut
    <3>1. Head(output) \in Byte
      BY <1>0, <2>2, HeadTailProperties DEF WriteOut, Types
    <3>2. written' = Append(written, Head(output)) /\ UNCHANGED status
      BY <2>2 DEF WriteOut
    <3>3. Promise!Command
      BY <2>1, <3>1, <3>2 DEF Promise!Command
    <3> QED
      BY <3>3
  <2>3. CASE WriteErr
    BY <1>1, <2>1, <2>3 DEF WriteErr
  <2>4. CASE Exit \/ Abort
    <3>1. status' \in {"running", "ok", "failed"} /\ UNCHANGED written
      BY <2>4 DEF Exit, Abort
    <3>2. Promise!Command
      BY <2>1, <3>1 DEF Promise!Command
    <3> QED
      BY <3>2
  <2> QED
    BY <1>2, <2>2, <2>3, <2>4 DEF Alone, Process
<1>3. CASE Alone(Drainer)
  BY <1>1, <1>3 DEF Alone, Drainer, Drain, EndOfErrors, process
<1>4. CASE Alone(SpawnFails \/ Spawn \/ EndOfOutput \/ ReadFails \/ Wait \/ Join)
  <2>1. UNCHANGED answer
    BY <1>4 DEF Alone
  <2>2. CASE SpawnFails \/ ReadFails
    <3>1. pc' = "failed" /\ UNCHANGED <<written, status>>
      BY <2>2 DEF SpawnFails, ReadFails, process
    <3>2. Promise!Lose
      BY <2>1, <3>1 DEF Promise!Lose
    <3> QED
      BY <3>2
  <2>3. CASE Spawn
    <3>1. status = "unborn" /\ status' = "running" /\ UNCHANGED written /\ pc # "failed" /\ pc' # "failed"
      BY <1>0, <2>3 DEF Spawn, Ended
    <3>2. Promise!Command
      BY <2>1, <3>1 DEF Promise!Command
    <3> QED
      BY <3>2
  <2>4. CASE EndOfOutput \/ Wait \/ Join
    <3>1. pc # "failed" /\ pc' # "failed" /\ UNCHANGED <<written, status>>
      BY <2>4 DEF EndOfOutput, Wait, Join, process
    <3> QED
      BY <1>1, <2>1, <3>1
  <2> QED
    BY <1>4, <2>2, <2>3, <2>4 DEF Alone
<1>5. CASE ReadChunk
  BY <1>1, <1>5 DEF ReadChunk, Read, process
<1>6. CASE Return
  <2>1. answer = Promise!None /\ UNCHANGED <<written, status, pc>>
    BY <1>6 DEF Return, NoAnswer, Promise!None, streamVars
  <2>2. CASE pc = "failed" /\ answer' = [says |-> "error", targets |-> {}]
    BY <2>1, <2>2 DEF Promise!Answer, Promise!Error
  <2>3. CASE pc = "returned" /\ status # "ok" /\ answer' = [says |-> "tier", targets |-> {}]
    <3>1. status = "failed"
      BY <1>0, <2>3 DEF Ended
    <3> QED
      BY <2>1, <2>3, <3>1 DEF Promise!Answer, Promise!Empty
  <2>4. CASE pc = "returned" /\ status = "ok" /\ answer' = Finished
    <3>1. written = got
      BY InvIsWhole, <2>4 DEF QueryInv, StreamIsWhole
    <3>2. Finished = SaysAsAWhole(got)
      BY <1>0, FinishedSaysTheWhole DEF QueryInv, Types
    <3> QED
      BY <2>1, <2>4, <3>1, <3>2 DEF Promise!Answer
  <2> QED
    BY <1>6, <2>2, <2>3, <2>4 DEF Return
<1>7. CASE Over \/ UNCHANGED vars
  BY <1>1, <1>7 DEF Over, vars, streamVars
<1> QED
  BY <1>2, <1>3, <1>4, <1>5, <1>6, <1>7 DEF Next

LEMMA InitKeepsThePromise == Init => Promise!Init
  BY DEF Init, StreamInit, NoAnswer, Promise!Init, Promise!None

\* query answers what the whole of a command's output says, in whatever chunks
\* that comes, and with nothing of a command that did not succeed (graph.rs,
\* "Every boundary has to behave the same"): for any bytes, lengths and outputs.
THEOREM QueryKeepsItsPromise == Spec => AnswersTheWhole
<1>1. Spec => []QueryInv
  BY InitQueryInv, NextKeepsQueryInv, PTL DEF Spec
<1> QED
  BY <1>1, InitKeepsThePromise, StepKeepsThePromise, PTL
  DEF Spec, AnswersTheWhole, Promise!Spec, promised
=============================================================================
