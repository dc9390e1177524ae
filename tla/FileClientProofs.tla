--------------------------- MODULE FileClientProofs ---------------------------
(***************************************************************************)
(* Proofs about a client's open file (FileClient), for any files, sizes,   *)
(* units and numbers of calls and breaks: what is on the two streams of a  *)
(* session is what its two ends expect (the inductive invariant), so what  *)
(* the slave sends is what was asked for, and who opens a file for writing *)
(* is told its size.                                                       *)
(***************************************************************************)
EXTENDS OpenFiles, Integers, Sequences, SequenceTheorems, FiniteSetTheorems, WellFoundedInduction, TLAPS

-----------------------------------------------------------------------------
(* The data of a client's file. *)

\* Taking the first element off a sequence.
LEMMA TailElements ==
  ASSUME NEW S, NEW q \in Seq(S), q # <<>>
  PROVE  /\ Head(q) = q[1] /\ 1 \in 1 .. Len(q) /\ Head(q) \in S
         /\ Tail(q) \in Seq(S)
         /\ Len(Tail(q)) = Len(q) - 1
         /\ \A j \in 1 .. Len(q) - 1 : Tail(q)[j] = q[j + 1]
  OBVIOUS

\* A beginning, element by element.
LEMMA PrefixElements ==
  ASSUME NEW s \in Seq(Nat), NEW t \in Seq(Nat)
  PROVE  C!IsPrefix(s, t) <=> Len(s) <= Len(t) /\ \A i \in 1 .. Len(s) : s[i] = t[i]
<1>1. /\ Len(s) \in Nat /\ Len(t) \in Nat
      /\ \A i \in 1 .. Len(s) : s[i] \in Nat
      /\ \A i \in 1 .. Len(t) : t[i] \in Nat
  BY LenProperties, ElementOfSeq
<1>2. SubSeq(s, 1, Len(s)) = s
  BY SubSeqFull
<1>3. ASSUME Len(s) <= Len(t)
      PROVE  /\ SubSeq(t, 1, Len(s)) \in Seq(Nat) /\ Len(SubSeq(t, 1, Len(s))) = Len(s)
             /\ \A i \in 1 .. Len(s) : SubSeq(t, 1, Len(s))[i] = t[i]
  <2>1. \A i \in 1 .. Len(s) : t[i] \in Nat
    BY <1>1, <1>3
  <2> HIDE <1>3
  <2> QED BY <1>1, <2>1, SubSeqProperties
<1>4. ASSUME Len(s) <= Len(t), \A i \in 1 .. Len(s) : s[i] = t[i]
      PROVE  s = SubSeq(t, 1, Len(s))
  <2>1. \A i \in 1 .. Len(s) : s[i] = SubSeq(t, 1, Len(s))[i]
    BY <1>3, <1>4
  <2> QED BY <1>3, <1>4, <2>1, SeqEqual
<1> QED BY <1>2, <1>3, <1>4 DEF C!IsPrefix

LEMMA PrefixOfItself ==
  ASSUME NEW s \in Seq(Nat)
  PROVE  C!IsPrefix(s, s)
BY PrefixElements, LenProperties

LEMMA EmptyPrefix ==
  ASSUME NEW s \in Seq(Nat)
  PROVE  C!IsPrefix(<<>>, s)
<1>1. <<>> \in Seq(Nat) /\ Len(<<>>) = 0 /\ Len(s) \in Nat
  BY LenProperties, EmptySeq
<1>2. Len(<<>>) <= Len(s) /\ \A i \in 1 .. Len(<<>>) : <<>>[i] = s[i]
  BY <1>1
<1> QED BY <1>1, <1>2, PrefixElements

LEMMA PrefixThrough ==
  ASSUME NEW r \in Seq(Nat), NEW s \in Seq(Nat), NEW t \in Seq(Nat), C!IsPrefix(r, s), C!IsPrefix(s, t)
  PROVE  C!IsPrefix(r, t)
<1>1. Len(r) \in Nat /\ Len(s) \in Nat /\ Len(t) \in Nat
  BY LenProperties
<1>2. Len(r) <= Len(s) /\ \A i \in 1 .. Len(r) : r[i] = s[i]
  BY PrefixElements
<1>3. Len(s) <= Len(t) /\ \A i \in 1 .. Len(s) : s[i] = t[i]
  BY PrefixElements
<1>4. Len(r) <= Len(t) /\ \A i \in 1 .. Len(r) : r[i] = t[i]
  BY <1>1, <1>2, <1>3
<1> QED BY <1>4, PrefixElements

LEMMA PrefixAsLong ==
  ASSUME NEW s \in Seq(Nat), NEW t \in Seq(Nat), C!IsPrefix(s, t), Len(t) <= Len(s)
  PROVE  s = t
<1>1. Len(s) \in Nat /\ Len(t) \in Nat
  BY LenProperties
<1>2. Len(s) = Len(t) /\ \A i \in 1 .. Len(s) : s[i] = t[i]
  BY <1>1, PrefixElements
<1> QED BY <1>2, SeqEqual

LEMMA PrefixOfLonger ==
  ASSUME NEW s \in Seq(Nat), NEW t \in Seq(Nat), C!IsPrefix(s, t), NEW e \in Nat
  PROVE  Append(t, e) \in Seq(Nat) /\ Len(Append(t, e)) = Len(t) + 1 /\ C!IsPrefix(s, Append(t, e))
<1>1. Len(s) \in Nat /\ Len(t) \in Nat
  BY LenProperties
<1>2. /\ Append(t, e) \in Seq(Nat) /\ Len(Append(t, e)) = Len(t) + 1
      /\ \A j \in 1 .. Len(t) : Append(t, e)[j] = t[j]
  BY AppendProperties
<1>3. Len(s) <= Len(t) /\ \A i \in 1 .. Len(s) : s[i] = t[i]
  BY PrefixElements
<1>4. Len(s) <= Len(Append(t, e)) /\ \A i \in 1 .. Len(s) : s[i] = Append(t, e)[i]
  BY <1>1, <1>2, <1>3
<1> QED BY <1>2, <1>4, PrefixElements

\* A piece of a file has the length that was asked for.
LEMMA PieceType ==
  ASSUME NEW s \in Seq(Nat), NEW o \in Nat, NEW n \in Int
  PROVE  /\ C!Piece(s, o, n) \in Seq(Nat)
         /\ Len(C!Piece(s, o, n)) = IF n >= 0 THEN n ELSE 0
<1> DEFINE m == IF n >= 0 THEN n ELSE 0
           p == [i \in 1 .. m |-> IF o + i \in DOMAIN s THEN s[o + i] ELSE 0]
<1>1. m \in Nat /\ 1 .. n = 1 .. m
  OBVIOUS
<1>2. C!Piece(s, o, n) = p
  BY <1>1 DEF C!Piece, C!Garbage
<1>3. \A i \in DOMAIN s : s[i] \in Nat
  BY LenProperties, ElementOfSeq
<1>4. \A i \in 1 .. m : (IF o + i \in DOMAIN s THEN s[o + i] ELSE 0) \in Nat
  BY <1>3
<1> HIDE DEF m
<1>5. p \in [1 .. m -> Nat]
  BY <1>4
<1>6. p \in Seq(Nat) /\ Len(p) = m
  BY <1>1, <1>5
<1> QED BY <1>2, <1>6 DEF m

\* Within a beginning of a file, a piece of it is one of the file.
LEMMA PieceOfPrefix ==
  ASSUME NEW s \in Seq(Nat), NEW t \in Seq(Nat), C!IsPrefix(s, t),
         NEW o \in Nat, NEW n \in Nat, o + n <= Len(s)
  PROVE  C!Piece(t, o, n) = C!Piece(s, o, n)
<1>1. /\ Len(s) \in Nat /\ Len(t) \in Nat /\ DOMAIN s = 1 .. Len(s) /\ DOMAIN t = 1 .. Len(t)
      /\ Len(s) <= Len(t) /\ \A i \in 1 .. Len(s) : s[i] = t[i]
  BY LenProperties, PrefixElements
<1>2. \A i \in 1 .. n : o + i \in 1 .. Len(s) /\ o + i \in 1 .. Len(t)
  BY <1>1
<1>3. \A i \in 1 .. n : (IF o + i \in DOMAIN t THEN t[o + i] ELSE C!Garbage)
                          = (IF o + i \in DOMAIN s THEN s[o + i] ELSE C!Garbage)
  BY <1>1, <1>2
<1> QED BY <1>3 DEF C!Piece

\* What a write leaves.
LEMMA WrittenType ==
  ASSUME NEW s \in Seq(Nat), NEW o \in Nat, NEW d \in Seq(Nat)
  PROVE  /\ C!Written(s, o, d) \in Seq(Nat)
         /\ Len(C!Written(s, o, d)) >= Len(s) /\ Len(C!Written(s, o, d)) >= o + Len(d)
         /\ Len(C!Written(s, o, d)) \in Nat
         /\ \A i \in 1 .. Len(s) : i <= o => C!Written(s, o, d)[i] = s[i]
<1> DEFINE m == IF o + Len(d) > Len(s) THEN o + Len(d) ELSE Len(s)
           e(i) == IF i \in o + 1 .. o + Len(d) THEN d[i - o] ELSE IF i \in DOMAIN s THEN s[i] ELSE 0
           w == [i \in 1 .. m |-> e(i)]
<1>1. /\ Len(s) \in Nat /\ Len(d) \in Nat /\ DOMAIN s = 1 .. Len(s) /\ DOMAIN d = 1 .. Len(d)
      /\ \A i \in 1 .. Len(s) : s[i] \in Nat
      /\ \A i \in 1 .. Len(d) : d[i] \in Nat
  BY LenProperties, ElementOfSeq
<1>2. C!Written(s, o, d) = w
  BY DEF C!Written, C!Garbage
<1>3. m \in Nat /\ m >= Len(s) /\ m >= o + Len(d)
  BY <1>1
<1>4. \A i \in 1 .. m : e(i) \in Nat
  <2> TAKE i \in 1 .. m
  <2>1. i \in o + 1 .. o + Len(d) => i - o \in 1 .. Len(d)
    BY <1>1
  <2> QED BY <1>1, <2>1
<1>5. \A i \in 1 .. Len(s) : i <= o => e(i) = s[i]
  BY <1>1
<1>6. \A i \in 1 .. Len(s) : i \in 1 .. m
  BY <1>1, <1>3
<1> HIDE DEF m, e
<1>7. w \in [1 .. m -> Nat]
  BY <1>4
<1>8. w \in Seq(Nat) /\ Len(w) = m
  BY <1>3, <1>7
<1> QED BY <1>2, <1>3, <1>5, <1>6, <1>8

\* A beginning up to where a write begins stays one.
LEMMA PrefixWritten ==
  ASSUME NEW r \in Seq(Nat), NEW s \in Seq(Nat), NEW o \in Nat, NEW d \in Seq(Nat), C!IsPrefix(r, s), Len(r) <= o
  PROVE  C!IsPrefix(r, C!Written(s, o, d))
<1>1. Len(r) \in Nat /\ Len(s) \in Nat /\ Len(r) <= Len(s) /\ \A i \in 1 .. Len(r) : r[i] = s[i]
  BY LenProperties, PrefixElements
<1>2. /\ C!Written(s, o, d) \in Seq(Nat) /\ Len(C!Written(s, o, d)) \in Nat
      /\ Len(C!Written(s, o, d)) >= Len(s)
      /\ \A i \in 1 .. Len(s) : i <= o => C!Written(s, o, d)[i] = s[i]
  BY WrittenType
<1>3. \A i \in 1 .. Len(r) : r[i] = C!Written(s, o, d)[i]
  <2> TAKE i \in 1 .. Len(r)
  <2>1. i \in 1 .. Len(s) /\ i <= o
    BY <1>1
  <2> QED BY <1>1, <1>2, <2>1
<1>4. Len(r) <= Len(C!Written(s, o, d))
  BY <1>1, <1>2
<1> QED BY <1>2, <1>3, <1>4, PrefixElements

\* The blocks of some data: a first one, and those of the rest.
LEMMA BlocksType ==
  ASSUME ClientAssumption, NEW s \in Seq(Nat)
  PROVE  C!Blocks(s) \in Seq([t : {"data"}, d : Seq(Nat)])
<1> DEFINE n == (Len(s) + Unit - 1) \div Unit
           e(i) == C!Block(SubSeq(s, (i - 1) * Unit + 1, C!Lower(i * Unit, Len(s))))
<1>1. Unit \in Nat /\ Unit > 0 /\ Len(s) \in Nat /\ \A i \in 1 .. Len(s) : s[i] \in Nat
  BY LenProperties, ElementOfSeq DEF ClientAssumption
<1>2. n \in Nat
  BY <1>1
<1>3. ASSUME NEW i \in 1 .. n
      PROVE  e(i) \in [t : {"data"}, d : Seq(Nat)]
  <2>1. (i - 1) * Unit + 1 \in Nat /\ (i - 1) * Unit + 1 >= 1 /\ i * Unit \in Nat
    BY <1>1, <1>2
  <2>2. C!Lower(i * Unit, Len(s)) \in Nat /\ C!Lower(i * Unit, Len(s)) <= Len(s)
    BY <1>1, <2>1 DEF C!Lower
  <2>3. \A k \in (i - 1) * Unit + 1 .. C!Lower(i * Unit, Len(s)) : s[k] \in Nat
    <3> DEFINE a == (i - 1) * Unit + 1
               b == C!Lower(i * Unit, Len(s))
    <3>1. a \in Nat /\ a >= 1 /\ b \in Nat /\ b <= Len(s)
      BY <2>1, <2>2
    <3> HIDE DEF a, b
    <3>2. \A k \in a .. b : s[k] \in Nat
      BY <1>1, <3>1
    <3> QED BY <3>2 DEF a, b
  <2>4. SubSeq(s, (i - 1) * Unit + 1, C!Lower(i * Unit, Len(s))) \in Seq(Nat)
    BY <2>1, <2>2, <2>3, SubSeqProperties
  <2> QED BY <2>4 DEF C!Block
<1> HIDE DEF n, e
<1>4. [i \in 1 .. n |-> e(i)] \in Seq([t : {"data"}, d : Seq(Nat)])
  BY <1>2, <1>3
<1> QED BY <1>4 DEF C!Blocks, n, e

LEMMA NoBlocks ==
  ASSUME ClientAssumption
  PROVE  C!Blocks(<<>>) = <<>>
<1>1. Unit \in Nat /\ Unit > 0
  BY DEF ClientAssumption
<1>2. (0 + Unit - 1) \div Unit = 0
  BY <1>1
<1>3. Len(<<>>) = 0
  OBVIOUS
<1> QED BY <1>2, <1>3 DEF C!Blocks

LEMMA Divided ==
  ASSUME NEW n \in Nat, NEW u \in Nat, u > 0
  PROVE  /\ (n + u - 1) \div u \in Nat
         /\ n > u => (n - u + u - 1) \div u = (n + u - 1) \div u - 1
<1>1. (n + u - 1) \div u \in Nat
  OBVIOUS
<1>2. n > u => (n - u + u - 1) \div u = (n + u - 1) \div u - 1
  OBVIOUS
<1> QED BY <1>1, <1>2

LEMMA FirstBlock ==
  ASSUME ClientAssumption, NEW s \in Seq(Nat), s # <<>>, NEW m, m = C!Lower(Unit, Len(s))
  PROVE  /\ m \in 1 .. Len(s)
         /\ C!Blocks(s) # <<>>
         /\ Head(C!Blocks(s)) = C!Block(SubSeq(s, 1, m))
         /\ Tail(C!Blocks(s)) = C!Blocks(SubSeq(s, m + 1, Len(s)))
<1> DEFINE n == (Len(s) + Unit - 1) \div Unit
           r == SubSeq(s, m + 1, Len(s))
           e(i) == C!Block(SubSeq(s, (i - 1) * Unit + 1, C!Lower(i * Unit, Len(s))))
           f(i) == C!Block(SubSeq(r, (i - 1) * Unit + 1, C!Lower(i * Unit, Len(r))))
<1>1. /\ Unit \in Nat /\ Unit > 0 /\ Len(s) \in Nat /\ Len(s) > 0
      /\ \A i \in 1 .. Len(s) : s[i] \in Nat
  BY LenProperties, ElementOfSeq, EmptySeq DEF ClientAssumption
<1>2. m \in Nat /\ m \in 1 .. Len(s) /\ m <= Unit /\ (m < Unit => m = Len(s))
  BY <1>1 DEF C!Lower
<1>3. r \in Seq(Nat) /\ Len(r) = Len(s) - m /\ \A i \in 1 .. Len(s) - m : r[i] = s[m + i]
  <2>1. m + 1 \in Int /\ Len(s) \in Int /\ \A i \in m + 1 .. Len(s) : s[i] \in Nat
    BY <1>1, <1>2
  <2>2. /\ r \in Seq(Nat) /\ Len(r) = IF m + 1 <= Len(s) THEN Len(s) - (m + 1) + 1 ELSE 0
        /\ \A i \in 1 .. Len(s) - (m + 1) + 1 : r[i] = s[(m + 1) + i - 1]
    BY <2>1, SubSeqProperties
  <2> HIDE DEF r
  <2>3. Len(r) = Len(s) - m
    BY <1>1, <1>2, <2>2
  <2>4. \A i \in 1 .. Len(s) - m : r[i] = s[m + i]
    <3> TAKE i \in 1 .. Len(s) - m
    <3>1. i \in 1 .. Len(s) - (m + 1) + 1 /\ (m + 1) + i - 1 = m + i
      BY <1>1, <1>2
    <3> QED BY <2>2, <3>1
  <2> QED BY <2>2, <2>3, <2>4
<1> HIDE DEF n, e, f, r
<1>4. n \in Nat /\ n >= 1 /\ (Len(r) + Unit - 1) \div Unit = n - 1
      /\ (n > 1 => Len(s) > Unit)
  <2>1. CASE Len(s) > Unit
    <3>1. (Len(s) - Unit + Unit - 1) \div Unit = (Len(s) + Unit - 1) \div Unit - 1
      BY <1>1, <2>1, Divided
    <3>2. Len(r) = Len(s) - Unit
      <4>1. ~(m < Unit)
        BY <1>1, <1>2, <2>1
      <4>2. m = Unit
        BY <1>1, <1>2, <4>1
      <4> QED BY <1>3, <4>2
    <3>3. (Len(s) - Unit + Unit - 1) \div Unit \in Nat /\ (Len(s) + Unit - 1) \div Unit \in Nat
      <4>1. Len(s) - Unit \in Nat
        BY <1>1, <2>1
      <4> QED BY <1>1, <4>1, Divided
    <3> QED BY <2>1, <3>1, <3>2, <3>3 DEF n
  <2>2. CASE Len(s) <= Unit
    <3>1. (Len(s) + Unit - 1) \div Unit = 1 /\ (0 + Unit - 1) \div Unit = 0
      BY <1>1, <2>2
    <3>2. Len(r) = 0
      BY <1>1, <1>2, <1>3, <2>2
    <3> QED BY <3>1, <3>2 DEF n
  <2> QED BY <1>1, <2>1, <2>2
<1>5. C!Blocks(s) = [i \in 1 .. n |-> e(i)] /\ C!Blocks(r) = [i \in 1 .. n - 1 |-> f(i)]
  BY <1>4 DEF C!Blocks, n, e, f
<1>6. e(1) = C!Block(SubSeq(s, 1, m))
  <2>1. (1 - 1) * Unit + 1 = 1 /\ 1 * Unit = Unit
    BY <1>1
  <2> QED BY <2>1 DEF e
<1>7. ASSUME NEW i \in 1 .. n - 1
      PROVE  e(i + 1) = f(i)
  <2> DEFINE a == (i - 1) * Unit
             c == C!Lower(i * Unit, Len(r))
  <2>1. n - 1 >= 1
    BY <1>4
  <2>2. m = Unit /\ Len(s) > Unit
    BY <1>1, <1>2, <1>4, <2>1
  <2>3. a \in Nat /\ i * Unit \in Nat /\ i * Unit = a + Unit /\ (i + 1 - 1) * Unit = a + Unit
        /\ (i + 1) * Unit = a + Unit + Unit
    BY <1>1, <1>4
  <2>4. c \in Nat /\ c <= Len(r) /\ C!Lower((i + 1) * Unit, Len(s)) = c + Unit
    BY <1>1, <1>3, <2>2, <2>3 DEF C!Lower
  <2>5. SubSeq(s, a + Unit + 1, c + Unit) = SubSeq(r, a + 1, c)
    <3> HIDE DEF a, c
    <3>1. \A k \in a + Unit + 1 .. c + Unit : s[k] \in Nat
      BY <1>1, <1>3, <2>2, <2>3, <2>4
    <3>2. \A k \in a + 1 .. c : k \in 1 .. Len(r) /\ r[k] = s[k + Unit] /\ r[k] \in Nat
      <4> TAKE k \in a + 1 .. c
      <4>1. k \in 1 .. Len(r)
        BY <1>1, <1>3, <2>3, <2>4
      <4>2. r[k] \in Nat
        BY <1>3, <4>1, ElementOfSeq
      <4>3. k \in 1 .. Len(s) - m /\ m + k = k + Unit
        BY <1>1, <1>3, <2>2, <4>1
      <4> QED BY <1>3, <4>1, <4>2, <4>3
    <3>3. /\ SubSeq(s, a + Unit + 1, c + Unit) \in Seq(Nat)
          /\ Len(SubSeq(s, a + Unit + 1, c + Unit)) = IF a + Unit + 1 <= c + Unit THEN c + Unit - (a + Unit + 1) + 1 ELSE 0
          /\ \A k \in 1 .. c + Unit - (a + Unit + 1) + 1 :
               SubSeq(s, a + Unit + 1, c + Unit)[k] = s[a + Unit + 1 + k - 1]
      BY <1>1, <2>3, <2>4, <3>1, SubSeqProperties
    <3>4. /\ SubSeq(r, a + 1, c) \in Seq(Nat)
          /\ Len(SubSeq(r, a + 1, c)) = IF a + 1 <= c THEN c - (a + 1) + 1 ELSE 0
          /\ \A k \in 1 .. c - (a + 1) + 1 : SubSeq(r, a + 1, c)[k] = r[a + 1 + k - 1]
      <4>1. a + 1 \in Nat /\ c \in Nat /\ \A k \in a + 1 .. c : r[k] \in Nat
        BY <2>3, <2>4, <3>2
      <4> QED BY <4>1, SubSeqProperties
    <3>5. Len(SubSeq(s, a + Unit + 1, c + Unit)) = Len(SubSeq(r, a + 1, c))
      BY <1>1, <2>3, <2>4, <3>3, <3>4
    <3>6. ASSUME NEW k \in 1 .. Len(SubSeq(r, a + 1, c))
          PROVE  SubSeq(s, a + Unit + 1, c + Unit)[k] = SubSeq(r, a + 1, c)[k]
      <4>1. k \in 1 .. c - (a + 1) + 1 /\ k \in 1 .. c + Unit - (a + Unit + 1) + 1 /\ a + k \in a + 1 .. c
        BY <1>1, <2>3, <2>4, <3>4
      <4>2. SubSeq(s, a + Unit + 1, c + Unit)[k] = s[a + Unit + 1 + k - 1] /\ SubSeq(r, a + 1, c)[k] = r[a + 1 + k - 1]
        BY <3>3, <3>4, <4>1
      <4>3. a + Unit + 1 + k - 1 = (a + k) + Unit /\ a + 1 + k - 1 = a + k
        BY <1>1, <2>3, <4>1
      <4> QED BY <3>2, <4>1, <4>2, <4>3
    <3> QED BY <3>3, <3>4, <3>5, <3>6, SeqEqual
  <2>6. e(i + 1) = C!Block(SubSeq(s, a + Unit + 1, c + Unit))
    BY <2>3, <2>4 DEF e
  <2>7. f(i) = C!Block(SubSeq(r, a + 1, c))
    BY DEF f
  <2> QED BY <2>5, <2>6, <2>7
<1>8. C!Blocks(s) # <<>> /\ Head(C!Blocks(s)) = e(1)
  <2> DEFINE q == [i \in 1 .. n |-> e(i)]
  <2>1. q[1] = e(1) /\ 1 \in DOMAIN q
    BY <1>4
  <2>2. q # <<>>
    BY <2>1
  <2> QED BY <1>5, <2>1, <2>2
<1>9. Tail(C!Blocks(s)) = C!Blocks(r)
  <2>1. Tail([i \in 1 .. n |-> e(i)]) = [i \in 1 .. n - 1 |-> e(i + 1)]
    BY <1>4
  <2> QED BY <1>5, <1>7, <2>1
<1> QED BY <1>2, <1>6, <1>8, <1>9 DEF r

-----------------------------------------------------------------------------
(* The calls and what is sent. *)

LEMMA CallShapes ==
  ASSUME NEW c \in C!Calls
  PROVE  /\ c.k = "idle" <=> c = C!Idle
         /\ c.k \in {"idle", "read", "prefetch", "download", "write", "upload", "close"}
         /\ c # C!Idle => c.at \in {"consent", "data"}
         /\ c.k = "read" => c \in [k : {"read"}, at : {"consent", "data"}, n : Int]
         /\ c.k = "prefetch" => c \in [k : {"prefetch"}, at : {"consent", "data"}, n : Int, ahead : Int]
         /\ c.k = "download" => c \in [k : {"download"}, at : {"consent", "data"}, left : Nat]
         /\ c.k \in {"write", "upload"} => c \in [k : {"write", "upload"}, at : {"consent"}, d : Seq(Nat)]
         /\ c.k = "close" => c \in [k : {"close"}, at : {"consent"}]
BY DEF C!Calls, C!Idle

LEMMA ItemShapes ==
  ASSUME NEW x \in C!ToSlave
  PROVE  /\ x.t \in {"cmd", "req", "data"}
         /\ x.t = "cmd" => x.c \in C!Commands
         /\ x.t = "req" => x.off \in Nat /\ x.n \in Int
         /\ x.t = "data" => x.d \in Seq(Nat)
BY DEF C!ToSlave

LEMMA AnswerShapes ==
  ASSUME NEW x \in C!ToClient
  PROVE  /\ x.t \in {"consent", "data"}
         /\ x.t = "consent" => x.ok \in BOOLEAN
         /\ C!AsConsent(x) \in BOOLEAN
         /\ C!AsData(x) \in Seq(Nat)
<1>1. /\ x.t \in {"consent", "data"} /\ (x.t = "consent" => x.ok \in BOOLEAN)
      /\ (x.t = "data" => x.d \in Seq(Nat))
  BY DEF C!ToClient
<1>2. <<0>> \in Seq(Nat)
  OBVIOUS
<1> QED BY <1>1, <1>2 DEF C!AsConsent, C!AsData, C!Garbage

LEMMA ItemsTyped ==
  /\ \A c \in C!Commands : C!Cmd(c) \in C!ToSlave /\ C!Cmd(c).t = "cmd" /\ C!Cmd(c).c = c
  /\ \A o \in Nat, n \in Int : C!Req(o, n) \in C!ToSlave /\ C!Req(o, n).t = "req" /\ C!Req(o, n).off = o /\ C!Req(o, n).n = n
  /\ \A d \in Seq(Nat) : /\ C!Block(d) \in C!ToSlave /\ C!Block(d) \in C!ToClient
                         /\ C!Block(d).t = "data" /\ C!Block(d).d = d
<1>1. \A c \in C!Commands : C!Cmd(c) \in C!ToSlave /\ C!Cmd(c).t = "cmd" /\ C!Cmd(c).c = c
  BY DEF C!Cmd, C!ToSlave
<1>2. \A o \in Nat, n \in Int : C!Req(o, n) \in C!ToSlave /\ C!Req(o, n).t = "req" /\ C!Req(o, n).off = o /\ C!Req(o, n).n = n
  BY DEF C!Req, C!ToSlave
<1>3. \A d \in Seq(Nat) : /\ C!Block(d) \in C!ToSlave /\ C!Block(d) \in C!ToClient
                          /\ C!Block(d).t = "data" /\ C!Block(d).d = d
  BY DEF C!Block, C!ToSlave, C!ToClient
<1> QED BY <1>1, <1>2, <1>3

LEMMA OneMore ==
  ASSUME NEW S, NEW q \in Seq(S), NEW x \in S
  PROVE  /\ q \o <<x>> = Append(q, x) /\ q \o <<x>> \in Seq(S) /\ Len(q \o <<x>>) = Len(q) + 1
         /\ (q \o <<x>>)[Len(q) + 1] = x
         /\ \A i \in 1 .. Len(q) : (q \o <<x>>)[i] = q[i]
OBVIOUS

LEMMA TwoOnes ==
  ASSUME NEW S, NEW x \in S, NEW y \in S
  PROVE  <<x>> \o <<y>> = <<x, y>>
<1>1. <<x>> \in Seq(S) /\ <<y>> \in Seq(S) /\ <<x, y>> \in Seq(S) /\ Len(<<x>>) = 1 /\ Len(<<y>>) = 1 /\ Len(<<x, y>>) = 2
  OBVIOUS
<1>2. /\ <<x>> \o <<y>> \in Seq(S) /\ Len(<<x>> \o <<y>>) = 2
      /\ \A i \in 1 .. 2 : (<<x>> \o <<y>>)[i] = IF i <= 1 THEN <<x>>[i] ELSE <<y>>[i - 1]
  BY <1>1, ConcatProperties
<1>3. (<<x>> \o <<y>>)[1] = x /\ (<<x>> \o <<y>>)[2] = y
  BY <1>2
<1>4. \A i \in 1 .. 2 : (<<x>> \o <<y>>)[i] = <<x, y>>[i]
  BY <1>3
<1> QED BY <1>1, <1>2, <1>4, SeqEqual

LEMMA TwoMore ==
  ASSUME NEW S, NEW q \in Seq(S), NEW x \in S, NEW y \in S
  PROVE  /\ q \o <<x>> \in Seq(S) /\ q \o <<x, y>> \in Seq(S)
         /\ q \o <<x, y>> = (q \o <<x>>) \o <<y>>
<1>1. q \o <<x>> \in Seq(S) /\ q \o <<x, y>> \in Seq(S)
  BY ConcatProperties
<1>2. <<x>> \in Seq(S) /\ <<y>> \in Seq(S)
  OBVIOUS
<1>3. (q \o <<x>>) \o <<y>> = q \o (<<x>> \o <<y>>)
  BY <1>2, ConcatAssociative
<1> QED BY <1>1, <1>3, TwoOnes

\* One more of what is expected.
LEMMA OneMoreInARow ==
  ASSUME NEW st, NEW q \in Seq(C!ToSlave), C!InARow(st, q), NEW x \in C!ToSlave,
         x.t = IF C!Comes(st, q) = "size" THEN "req" ELSE C!Comes(st, q)
  PROVE  /\ C!InARow(st, q \o <<x>>)
         /\ C!Comes(st, q \o <<x>>) =
              C!AfterItem(x, C!OfWrite(st, q, Len(q)))
         /\ C!OfWrite(st, q \o <<x>>, Len(q \o <<x>>)) <=> (x.t = "cmd" /\ x.c \in {"write", "upload"})
<1> DEFINE r == q \o <<x>>
<1>1. /\ Len(q) \in Nat /\ r \in Seq(C!ToSlave) /\ Len(r) = Len(q) + 1 /\ r[Len(q) + 1] = x
      /\ \A i \in 1 .. Len(q) : r[i] = q[i]
  BY OneMore, LenProperties
<1> HIDE DEF r
<1>2. \A i \in 0 .. Len(q) : C!OfWrite(st, r, i) = C!OfWrite(st, q, i)
  BY <1>1 DEF C!OfWrite
<1>3. ASSUME NEW i \in 1 .. Len(q) + 1
      PROVE  C!Expected(st, r, i) = C!Expected(st, q, i)
  <2>1. CASE i = 1
    BY <2>1 DEF C!Expected
  <2>2. CASE i # 1
    <3>1. i - 1 \in 1 .. Len(q) /\ i - 2 \in 0 .. Len(q)
      BY <1>1, <2>2
    <3>2. r[i - 1] = q[i - 1] /\ C!OfWrite(st, r, i - 2) = C!OfWrite(st, q, i - 2)
      BY <1>1, <1>2, <3>1
    <3> QED BY <2>2, <3>2 DEF C!Expected
  <2> QED BY <2>1, <2>2
<1>4. C!InARow(st, r)
  <2> SUFFICES ASSUME NEW i \in 1 .. Len(r)
               PROVE  r[i].t = IF C!Expected(st, r, i) = "size" THEN "req" ELSE C!Expected(st, r, i)
    BY DEF C!InARow
  <2>1. i \in 1 .. Len(q) + 1
    BY <1>1
  <2>2. CASE i = Len(q) + 1
    BY <1>1, <1>3, <2>1, <2>2 DEF C!Comes
  <2>3. CASE i # Len(q) + 1
    <3>1. i \in 1 .. Len(q) /\ r[i] = q[i]
      BY <1>1, <2>1, <2>3
    <3> QED BY <1>3, <2>1, <3>1 DEF C!InARow
  <2> QED BY <2>2, <2>3
<1>5. Len(r) + 1 # 1 /\ Len(r) + 1 - 1 = Len(q) + 1 /\ Len(r) + 1 - 2 = Len(q) /\ Len(q) \in 0 .. Len(q)
  BY <1>1
<1>6. C!Comes(st, r) =
              C!AfterItem(x, C!OfWrite(st, q, Len(q)))
  <2>1. r[Len(r) + 1 - 1] = x /\ C!OfWrite(st, r, Len(r) + 1 - 2) = C!OfWrite(st, q, Len(q))
    BY <1>1, <1>2, <1>5
  <2> QED BY <1>5, <2>1 DEF C!Expected, C!Comes
<1>7. C!OfWrite(st, r, Len(r)) <=> (x.t = "cmd" /\ x.c \in {"write", "upload"})
  BY <1>1 DEF C!OfWrite
<1> QED BY <1>4, <1>6, <1>7 DEF r

\* What is expected at the end, and what was there before.
LEMMA ExpectedAtEnd ==
  ASSUME NEW st, NEW q \in Seq(C!ToSlave)
  PROVE  /\ C!Comes(st, q) = "req" => ~C!OfWrite(st, q, Len(q))
         /\ C!Comes(st, q) = "size" => C!OfWrite(st, q, Len(q))
<1>1. Len(q) \in Nat
  BY LenProperties
<1>2. CASE Len(q) = 0
  <2>1. C!Comes(st, q) = IF st = "cmd" THEN "cmd" ELSE C!AfterCommand(st)
    BY <1>2 DEF C!Expected, C!Comes
  <2>2. C!OfWrite(st, q, Len(q)) <=> st \in {"write", "upload"}
    BY <1>2 DEF C!OfWrite
  <2> QED BY <2>1, <2>2 DEF C!AfterCommand
<1>3. CASE Len(q) # 0
  <2>1. q[Len(q)].t \in {"cmd", "req", "data"}
    BY <1>1, <1>3, ElementOfSeq, ItemShapes
  <2>2. Len(q) + 1 # 1 /\ Len(q) + 1 - 1 = Len(q)
    BY <1>1, <1>3
  <2>3. C!OfWrite(st, q, Len(q)) <=> q[Len(q)].t = "cmd" /\ q[Len(q)].c \in {"write", "upload"}
    BY <1>3 DEF C!OfWrite
  <2>4. CASE q[Len(q)].t = "cmd"
    <3>1. C!Comes(st, q) = C!AfterCommand(q[Len(q)].c)
      BY <2>2, <2>4 DEF C!Expected, C!Comes, C!AfterItem
    <3> QED BY <2>3, <2>4, <3>1 DEF C!AfterCommand
  <2>5. CASE q[Len(q)].t # "cmd"
    <3>1. C!Comes(st, q) \in {"cmd", "data"}
      BY <2>1, <2>2, <2>5 DEF C!Expected, C!Comes, C!AfterItem
    <3> QED BY <2>3, <2>5, <3>1
  <2> QED BY <2>4, <2>5
<1> QED BY <1>2, <1>3

\* What the client may send.
LEMMA CommandInARow ==
  ASSUME NEW st, NEW q \in Seq(C!ToSlave), C!InARow(st, q), C!Comes(st, q) = "cmd",
         NEW c \in C!Commands, NEW r, r = q \o <<C!Cmd(c)>>
  PROVE  /\ r \in Seq(C!ToSlave) /\ C!InARow(st, r) /\ C!Comes(st, r) = C!AfterCommand(c)
         /\ C!OfWrite(st, r, Len(r)) <=> c \in {"write", "upload"}
BY ItemsTyped, OneMore, OneMoreInARow DEF C!AfterItem

LEMMA RequestInARow ==
  ASSUME NEW st, NEW q \in Seq(C!ToSlave), C!InARow(st, q), C!Comes(st, q) \in {"req", "size"},
         NEW o \in Nat, NEW n \in Int, NEW r, r = q \o <<C!Req(o, n)>>
  PROVE  /\ r \in Seq(C!ToSlave) /\ C!InARow(st, r)
         /\ C!Comes(st, r) = IF C!OfWrite(st, q, Len(q)) THEN "data" ELSE "cmd"
<1>1. C!Req(o, n) \in C!ToSlave /\ C!Req(o, n).t = "req"
  BY ItemsTyped
<1> QED BY <1>1, OneMore, OneMoreInARow DEF C!AfterItem

LEMMA DataInARow ==
  ASSUME NEW st, NEW q \in Seq(C!ToSlave), C!InARow(st, q), C!Comes(st, q) = "data",
         NEW d \in Seq(Nat), NEW r, r = q \o <<C!Block(d)>>
  PROVE  r \in Seq(C!ToSlave) /\ C!InARow(st, r) /\ C!Comes(st, r) = "cmd"
<1>1. C!Block(d) \in C!ToSlave /\ C!Block(d).t = "data"
  BY ItemsTyped
<1>2. r \in Seq(C!ToSlave)
  BY <1>1, OneMore
<1>3. C!InARow(st, r) /\ C!Comes(st, r) = C!AfterItem(C!Block(d), C!OfWrite(st, q, Len(q)))
  BY <1>1, OneMoreInARow
<1> QED BY <1>1, <1>2, <1>3 DEF C!AfterItem

\* A call with an offset and a size, and what is to be sent after them.
Parametric == {"read", "download", "write", "upload"}
Follows(c) == IF c \in {"write", "upload"} THEN "data" ELSE "cmd"

LEMMA CallInARow ==
  ASSUME NEW st, NEW q \in Seq(C!ToSlave), C!InARow(st, q), C!Comes(st, q) = "cmd",
         NEW c \in Parametric, NEW o \in Nat, NEW n \in Int
  PROVE  LET r == q \o <<C!Cmd(c), C!Req(o, n)>>
         IN  r \in Seq(C!ToSlave) /\ C!InARow(st, r) /\ C!Comes(st, r) = Follows(c)
<1> DEFINE p == q \o <<C!Cmd(c)>>
           r == q \o <<C!Cmd(c), C!Req(o, n)>>
<1>1. c \in C!Commands
  BY DEF C!Commands, Parametric
<1>2. /\ p \in Seq(C!ToSlave) /\ C!InARow(st, p) /\ C!Comes(st, p) = C!AfterCommand(c)
      /\ C!OfWrite(st, p, Len(p)) <=> c \in {"write", "upload"}
  BY <1>1, CommandInARow
<1>3. r = p \o <<C!Req(o, n)>>
  <2>1. C!Cmd(c) \in C!ToSlave /\ C!Req(o, n) \in C!ToSlave
    BY <1>1, ItemsTyped
  <2> QED BY <2>1, TwoMore
<1> HIDE DEF p, r
<1>4. C!AfterCommand(c) \in {"req", "size"}
  BY DEF C!AfterCommand, Parametric
<1>5. r \in Seq(C!ToSlave) /\ C!InARow(st, r) /\ C!Comes(st, r) = Follows(c)
  BY <1>2, <1>3, <1>4, RequestInARow DEF Follows
<1> QED BY <1>5 DEF r

\* The slave takes the first k items, and is where they have led.
LEMMA TakenInARow ==
  ASSUME NEW st, NEW q \in Seq(C!ToSlave), C!InARow(st, q), NEW k \in 1 .. Len(q), NEW to,
         C!Expected(to, <<>>, 1) = C!Expected(st, q, k + 1),
         to \in {"write", "upload"} <=> C!OfWrite(st, q, k)
  PROVE  LET r == SubSeq(q, k + 1, Len(q))
         IN  /\ r \in Seq(C!ToSlave) /\ C!InARow(to, r)
             /\ C!Comes(to, r) = C!Comes(st, q)
<1> DEFINE r == SubSeq(q, k + 1, Len(q))
<1>1. /\ Len(q) \in Nat /\ k \in Nat /\ r \in Seq(C!ToSlave) /\ Len(r) = Len(q) - k
      /\ \A i \in 1 .. Len(q) - k : r[i] = q[k + i]
  <2>1. Len(q) \in Nat /\ \A i \in 1 .. Len(q) : q[i] \in C!ToSlave
    BY LenProperties, ElementOfSeq
  <2>2. \A i \in k + 1 .. Len(q) : q[i] \in C!ToSlave
    BY <2>1
  <2>3. /\ r \in Seq(C!ToSlave) /\ Len(r) = IF k + 1 <= Len(q) THEN Len(q) - (k + 1) + 1 ELSE 0
        /\ \A i \in 1 .. Len(q) - (k + 1) + 1 : r[i] = q[k + 1 + i - 1]
    BY <2>1, <2>2, SubSeqProperties
  <2> HIDE DEF r
  <2>4. Len(r) = Len(q) - k
    BY <2>1, <2>3
  <2>5. \A i \in 1 .. Len(q) - k : r[i] = q[k + i]
    <3> TAKE i \in 1 .. Len(q) - k
    <3>1. i \in 1 .. Len(q) - (k + 1) + 1 /\ k + 1 + i - 1 = k + i
      BY <2>1
    <3> QED BY <2>3, <3>1
  <2> QED BY <2>1, <2>3, <2>4, <2>5
<1> HIDE DEF r
<1>2. ASSUME NEW i \in 0 .. Len(r)
      PROVE  C!OfWrite(to, r, i) <=> C!OfWrite(st, q, k + i)
  <2>1. CASE i = 0
    BY <1>1, <2>1 DEF C!OfWrite
  <2>2. CASE i # 0
    BY <1>1, <2>2 DEF C!OfWrite
  <2> QED BY <2>1, <2>2
<1>3. ASSUME NEW i \in 1 .. Len(r) + 1
      PROVE  C!Expected(to, r, i) = C!Expected(st, q, k + i)
  <2>1. CASE i = 1
    <3>1. C!Expected(to, r, 1) = C!Expected(to, <<>>, 1)
      BY DEF C!Expected
    <3> QED BY <2>1, <3>1
  <2>2. CASE i # 1
    <3>1. i - 1 \in 1 .. Len(r) /\ i - 2 \in 0 .. Len(r) /\ k + i # 1 /\ k + i - 1 = k + (i - 1) /\ k + i - 2 = k + (i - 2)
      BY <1>1, <2>2
    <3>2. r[i - 1] = q[k + i - 1]
      BY <1>1, <3>1
    <3>3. C!OfWrite(to, r, i - 2) <=> C!OfWrite(st, q, k + i - 2)
      BY <1>2, <3>1
    <3>4. C!OfWrite(to, r, i - 2) = C!OfWrite(st, q, k + i - 2)
      BY <3>3 DEF C!OfWrite
    <3>5. C!Expected(to, r, i) = C!AfterItem(r[i - 1], C!OfWrite(to, r, i - 2))
      BY <2>2 DEF C!Expected
    <3>6. C!Expected(st, q, k + i) = C!AfterItem(q[k + i - 1], C!OfWrite(st, q, k + i - 2))
      BY <3>1 DEF C!Expected
    <3> QED BY <3>2, <3>4, <3>5, <3>6
  <2> QED BY <2>1, <2>2
<1>4. C!InARow(to, r)
  <2> SUFFICES ASSUME NEW i \in 1 .. Len(r)
               PROVE  r[i].t = IF C!Expected(to, r, i) = "size" THEN "req" ELSE C!Expected(to, r, i)
    BY DEF C!InARow
  <2>1. i \in 1 .. Len(r) + 1 /\ k + i \in 1 .. Len(q) /\ r[i] = q[k + i]
    BY <1>1
  <2> QED BY <1>3, <2>1 DEF C!InARow
<1>5. C!Comes(to, r) = C!Comes(st, q)
  <2>1. Len(r) + 1 \in 1 .. Len(r) + 1 /\ k + (Len(r) + 1) = Len(q) + 1
    BY <1>1
  <2> QED BY <1>3, <2>1 DEF C!Comes
<1> QED BY <1>1, <1>4, <1>5 DEF r

-----------------------------------------------------------------------------
(* Whatever the session is: types, sizes and commands. *)

ClientBasics == C!TypeOK /\ C!OneFile /\ C!SizesKnown /\ C!CommandsInARow

LEMMA SizesFrame ==
  ASSUME C!SizesKnown, UNCHANGED <<file, known, other, slave, ending>>
  PROVE  C!SizesKnown'
<1>1. \A f : C!WriteLocked(f) <=> C!WriteLocked(f)'
  BY DEF C!WriteLocked, C!Session
<1> QED BY <1>1 DEF C!SizesKnown

\* What the client sends is what comes next.
LEMMA Sending ==
  ASSUME C!TypeOK, C!OneFile, C!CommandsInARow, NEW items, C!Send(items), UNCHANGED <<slave, up>>,
         toClient' = toClient \/ (toClient # <<>> /\ toClient' = Tail(toClient)),
         \A q \in Seq(C!ToSlave) :
           C!InARow(slave.st, q) /\ C!Comes(slave.st, q) = C!Owes =>
             /\ q \o items \in Seq(C!ToSlave) /\ C!InARow(slave.st, q \o items)
             /\ C!Comes(slave.st, q \o items) = (C!Owes)'
  PROVE  /\ toSlave' \in Seq(C!ToSlave) /\ toClient' \in Seq(C!ToClient) /\ C!CommandsInARow'
         /\ slave.st = "off" => toSlave' = <<>>
         /\ ~up => toSlave' = toSlave
<1>1. toSlave \in Seq(C!ToSlave) /\ toClient \in Seq(C!ToClient) /\ Len(toClient) \in Nat
  BY LenProperties DEF C!TypeOK
<1>2. toSlave' = IF up /\ C!Serves THEN toSlave \o items ELSE toSlave
  BY DEF C!Send, C!Serves
<1>3. C!Serves' = C!Serves
  BY DEF C!Serves
<1>4. toClient' \in Seq(C!ToClient)
  BY <1>1, TailElements
<1>5. C!Serves => \A i \in 1 .. Len(toClient') : toClient'[i].t = "consent" => toClient'[i].ok
  <2>1. CASE toClient' = toClient
    BY <2>1 DEF C!CommandsInARow
  <2>2. CASE toClient # <<>> /\ toClient' = Tail(toClient)
    <3> SUFFICES ASSUME C!Serves, NEW i \in 1 .. Len(toClient')
                 PROVE  toClient'[i].t = "consent" => toClient'[i].ok
      OBVIOUS
    <3>1. toClient'[i] = toClient[i + 1] /\ i + 1 \in 1 .. Len(toClient)
      BY <1>1, <2>2, TailElements
    <3> QED BY <3>1 DEF C!CommandsInARow
  <2> QED BY <2>1, <2>2
<1>6. ASSUME C!Serves, up
      PROVE  /\ toSlave' \in Seq(C!ToSlave) /\ C!InARow(slave.st, toSlave')
             /\ C!Comes(slave.st, toSlave') = (C!Owes)'
  <2>1. C!InARow(slave.st, toSlave) /\ C!Comes(slave.st, toSlave) = C!Owes
    BY <1>6 DEF C!CommandsInARow
  <2> QED BY <1>1, <1>2, <1>6, <2>1
<1>7. toSlave' \in Seq(C!ToSlave)
  BY <1>1, <1>2, <1>6
<1>8. C!CommandsInARow'
  <2> SUFFICES ASSUME C!Serves
               PROVE  /\ C!InARow(slave.st, toSlave')
                      /\ up => C!Comes(slave.st, toSlave') = (C!Owes)'
                      /\ \A i \in 1 .. Len(toClient') : toClient'[i].t = "consent" => toClient'[i].ok
    <3>1. slave' = slave /\ up' = up
      OBVIOUS
    <3>2. slave.st' = slave.st
      BY <3>1
    <3> QED BY <1>3, <3>1, <3>2 DEF C!CommandsInARow
  <2>1. CASE up
    BY <1>5, <1>6, <2>1
  <2>2. CASE ~up
    <3>1. toSlave' = toSlave /\ C!InARow(slave.st, toSlave)
      BY <1>2, <2>2 DEF C!CommandsInARow
    <3> QED BY <1>5, <2>2, <3>1
  <2> QED BY <2>1, <2>2
<1>9. slave.st = "off" => toSlave' = <<>>
  BY <1>2 DEF C!Serves, C!OneFile
<1> QED BY <1>2, <1>4, <1>7, <1>8, <1>9

\* Nothing is sent, and nothing else is owed.
LEMMA NotSending ==
  ASSUME C!TypeOK, C!OneFile, C!CommandsInARow, UNCHANGED <<slave, toSlave>>, up' => up /\ (C!Owes)' = C!Owes,
         toClient' = toClient \/ (toClient # <<>> /\ toClient' = Tail(toClient))
  PROVE  toSlave' \in Seq(C!ToSlave) /\ toClient' \in Seq(C!ToClient) /\ C!CommandsInARow'
<1>1. toSlave \in Seq(C!ToSlave) /\ toClient \in Seq(C!ToClient) /\ Len(toClient) \in Nat
  BY LenProperties DEF C!TypeOK
<1>2. toClient' \in Seq(C!ToClient)
  BY <1>1, TailElements
<1>3. C!Serves' = C!Serves
  BY DEF C!Serves
<1>4. C!Serves => \A i \in 1 .. Len(toClient') : toClient'[i].t = "consent" => toClient'[i].ok
  <2>1. CASE toClient' = toClient
    BY <2>1 DEF C!CommandsInARow
  <2>2. CASE toClient # <<>> /\ toClient' = Tail(toClient)
    <3> SUFFICES ASSUME C!Serves, NEW i \in 1 .. Len(toClient')
                 PROVE  toClient'[i].t = "consent" => toClient'[i].ok
      OBVIOUS
    <3>1. toClient'[i] = toClient[i + 1] /\ i + 1 \in 1 .. Len(toClient)
      BY <1>1, <2>2, TailElements
    <3> QED BY <3>1 DEF C!CommandsInARow
  <2> QED BY <2>1, <2>2
<1>5. C!CommandsInARow'
  <2>1. slave' = slave /\ toSlave' = toSlave /\ slave.st' = slave.st
    OBVIOUS
  <2> QED BY <1>3, <1>4, <2>1 DEF C!CommandsInARow
<1> QED BY <1>1, <1>2, <1>5

LEMMA SendingCall ==
  ASSUME C!TypeOK, C!OneFile, C!CommandsInARow, UNCHANGED <<slave, up, toClient>>, C!Owes = "cmd",
         NEW c \in Parametric, NEW o \in Nat, NEW n \in Int,
         C!Send(<<C!Cmd(c), C!Req(o, n)>>), (C!Owes)' = Follows(c)
  PROVE  /\ toSlave' \in Seq(C!ToSlave) /\ toClient' \in Seq(C!ToClient) /\ C!CommandsInARow'
         /\ slave.st = "off" => toSlave' = <<>>
         /\ ~up => toSlave' = toSlave
<1> DEFINE s == <<C!Cmd(c), C!Req(o, n)>>
<1>1. ASSUME NEW q \in Seq(C!ToSlave), C!InARow(slave.st, q), C!Comes(slave.st, q) = C!Owes
      PROVE  q \o s \in Seq(C!ToSlave) /\ C!InARow(slave.st, q \o s) /\ C!Comes(slave.st, q \o s) = (C!Owes)'
  <2>1. C!InARow(slave.st, q) /\ C!Comes(slave.st, q) = "cmd"
    BY <1>1
  <2> QED BY <2>1, CallInARow
<1> HIDE DEF s
<1>2. C!Send(s)
  BY DEF s
<1> QED BY <1>1, <1>2, Sending

LEMMA SendingCommand ==
  ASSUME C!TypeOK, C!OneFile, C!CommandsInARow, UNCHANGED <<slave, up, toClient>>, C!Owes = "cmd",
         NEW c \in {"read", "close"}, C!Send(<<C!Cmd(c)>>), (C!Owes)' = C!AfterCommand(c)
  PROVE  /\ toSlave' \in Seq(C!ToSlave) /\ toClient' \in Seq(C!ToClient) /\ C!CommandsInARow'
         /\ slave.st = "off" => toSlave' = <<>>
         /\ ~up => toSlave' = toSlave
<1> DEFINE s == <<C!Cmd(c)>>
<1>1. ASSUME NEW q \in Seq(C!ToSlave), C!InARow(slave.st, q), C!Comes(slave.st, q) = C!Owes
      PROVE  /\ q \o s \in Seq(C!ToSlave) /\ C!InARow(slave.st, q \o s)
             /\ C!Comes(slave.st, q \o s) = (C!Owes)'
  <2> DEFINE r == q \o s
  <2>1. c \in C!Commands
    BY DEF C!Commands
  <2>2. r = q \o <<C!Cmd(c)>>
    OBVIOUS
  <2> HIDE DEF r, s
  <2>3. r \in Seq(C!ToSlave) /\ C!InARow(slave.st, r) /\ C!Comes(slave.st, r) = (C!Owes)'
    <3>1. C!InARow(slave.st, q) /\ C!Comes(slave.st, q) = "cmd"
      BY <1>1
    <3>2. r \in Seq(C!ToSlave) /\ C!InARow(slave.st, r) /\ C!Comes(slave.st, r) = C!AfterCommand(c)
      BY <2>1, <2>2, <3>1, CommandInARow
    <3> QED BY <3>2
  <2> QED BY <2>3 DEF r
<1> HIDE DEF s
<1>2. C!Send(s)
  BY DEF s
<1> QED BY <1>1, <1>2, Sending

LEMMA SendingRequest ==
  ASSUME C!TypeOK, C!OneFile, C!CommandsInARow, UNCHANGED <<slave, up>>,
         toClient' = toClient \/ (toClient # <<>> /\ toClient' = Tail(toClient)),
         C!Owes = "req", NEW o \in Nat, NEW n \in Int, C!Send(<<C!Req(o, n)>>), (C!Owes)' = "cmd"
  PROVE  /\ toSlave' \in Seq(C!ToSlave) /\ toClient' \in Seq(C!ToClient) /\ C!CommandsInARow'
         /\ slave.st = "off" => toSlave' = <<>>
         /\ ~up => toSlave' = toSlave
<1> DEFINE s == <<C!Req(o, n)>>
<1>1. ASSUME NEW q \in Seq(C!ToSlave), C!InARow(slave.st, q), C!Comes(slave.st, q) = C!Owes
      PROVE  /\ q \o s \in Seq(C!ToSlave) /\ C!InARow(slave.st, q \o s)
             /\ C!Comes(slave.st, q \o s) = (C!Owes)'
  <2>1. ~C!OfWrite(slave.st, q, Len(q))
    BY <1>1, ExpectedAtEnd
  <2> QED BY <1>1, <2>1, RequestInARow
<1> HIDE DEF s
<1>2. C!Send(s)
  BY DEF s
<1> QED BY <1>1, <1>2, Sending

LEMMA SendingData ==
  ASSUME C!TypeOK, C!OneFile, C!CommandsInARow, UNCHANGED <<slave, up>>,
         toClient' = toClient \/ (toClient # <<>> /\ toClient' = Tail(toClient)),
         C!Owes = "data", NEW d \in Seq(Nat), C!Send(<<C!Block(d)>>), (C!Owes)' = "cmd"
  PROVE  /\ toSlave' \in Seq(C!ToSlave) /\ toClient' \in Seq(C!ToClient) /\ C!CommandsInARow'
         /\ slave.st = "off" => toSlave' = <<>>
         /\ ~up => toSlave' = toSlave
<1> DEFINE s == <<C!Block(d)>>
<1>1. ASSUME NEW q \in Seq(C!ToSlave), C!InARow(slave.st, q), C!Comes(slave.st, q) = C!Owes
      PROVE  /\ q \o s \in Seq(C!ToSlave) /\ C!InARow(slave.st, q \o s)
             /\ C!Comes(slave.st, q \o s) = (C!Owes)'
  BY <1>1, DataInARow
<1> HIDE DEF s
<1>2. C!Send(s)
  BY DEF s
<1> QED BY <1>1, <1>2, Sending

LEMMA NothingComes ==
  C!InARow("cmd", <<>>) /\ C!Comes("cmd", <<>>) = "cmd"
BY DEF C!InARow, C!Comes, C!Expected

LEMMA OpenKeepsBasics ==
  ASSUME ClientBasics, C!FoundThere, C!Open
  PROVE  ClientBasics'
<1> DEFINE f == found.file  wr == found.wr
<1>1. C!TypeOK /\ C!OneFile /\ C!SizesKnown /\ C!CommandsInARow
  BY DEF ClientBasics
<1>2. /\ UNCHANGED <<file, known, other, asked, cache, download, breaks>>
      /\ f \in ClientFiles /\ wr \in BOOLEAN /\ found \in C!Opens /\ ~opened.open /\ asked = C!Idle
      /\ up' = TRUE /\ toSlave' = <<>> /\ toClient' = <<>> /\ skew' = FALSE
      /\ slave' = [st |-> "cmd", file |-> f, rd |-> found.rd, wr |-> wr] /\ did' = did
      /\ view' = file[f] /\ mixed' = (mixed \/ opened.file # f \/ skew)
      /\ ending' = (IF slave.st \in {"bye", "off"} THEN ending ELSE ending \cup {C!Session})
      /\ ~(wr /\ C!WriteLocked(f))
      /\ opened' = [open |-> TRUE, file |-> f, spelled |-> found.spelled, rd |-> found.rd, wr |-> wr, size |-> found.size,
                    rpos |-> 0, wpos |-> IF found.append THEN found.size ELSE 0, local |-> opened.local \/ f \in LocalFiles]
  <2>1. found \in C!Opens /\ ~opened.open
    BY DEF C!Open, C!FoundThere
  <2>2. f \in ClientFiles /\ wr \in BOOLEAN
    BY <2>1 DEF C!Opens
  <2>3. asked = C!Idle
    BY <1>1, <2>1 DEF C!OneFile
  <2> QED BY <2>1, <2>2, <2>3 DEF C!Open
<1> HIDE DEF f, wr
<1>3. C!TypeOK'
  <2>1. /\ file' \in [ClientFiles -> Seq(Nat)] /\ known' \in [ClientFiles -> Nat] /\ other' \subseteq ClientFiles
        /\ asked' \in C!Calls /\ up' \in BOOLEAN /\ download' \in Seq(Nat) /\ breaks' \in Nat /\ did' \in Nat
    BY <1>1, <1>2 DEF C!TypeOK
  <2>2. /\ toSlave' \in Seq(C!ToSlave) /\ toClient' \in Seq(C!ToClient) /\ view' \in Seq(Nat)
        /\ mixed' \in BOOLEAN /\ skew' \in BOOLEAN
    <3>1. mixed' \in BOOLEAN /\ skew' \in BOOLEAN
      BY <1>2
    <3>2. file[f] \in Seq(Nat) /\ <<>> \in Seq(C!ToSlave) /\ <<>> \in Seq(C!ToClient)
      <4>1. f \in ClientFiles
        BY <1>2
      <4> QED BY <1>1, <4>1 DEF C!TypeOK
    <3> QED BY <1>2, <3>1, <3>2
  <2>3. opened' \in C!Handles
    <3>1. found.size \in Nat /\ found.rd \in BOOLEAN /\ found.spelled \in BOOLEAN /\ opened.local \in BOOLEAN
      BY <1>1, <1>2 DEF C!TypeOK, C!Handles, C!Opens
    <3>2. (IF found.append THEN found.size ELSE 0) \in Nat /\ (opened.local \/ f \in LocalFiles) \in BOOLEAN
      BY <3>1
    <3> QED BY <1>2, <3>1, <3>2 DEF C!Handles
  <2>4. slave' \in [st : {"off", "cmd", "read", "write", "download", "upload", "end", "bye"},
                    file : ClientFiles, rd : BOOLEAN, wr : BOOLEAN]
    <3>1. found.rd \in BOOLEAN
      BY <1>2 DEF C!Opens
    <3> QED BY <1>2, <3>1
  <2>5. ending' \subseteq [file : ClientFiles, wr : BOOLEAN]
    BY <1>1, <1>2 DEF C!TypeOK, C!Session
  <2> QED BY <2>1, <2>2, <2>3, <2>4, <2>5 DEF C!TypeOK
<1>4. C!OneFile'
  BY <1>2 DEF C!OneFile
<1>5. C!SizesKnown'
  <2>1. \A g : C!WriteLocked(g) => C!WriteLocked(g)'
    BY <1>2 DEF C!WriteLocked
  <2>2. wr => f \notin other
    BY <1>2 DEF C!WriteLocked
  <2>3. \A g \in ClientFiles : known[g] <= Len(file[g]) /\ (known[g] # Len(file[g]) => C!WriteLocked(g)')
    BY <1>1, <2>1 DEF C!SizesKnown
  <2>4. slave'.wr /\ slave'.st \notin {"bye", "off"} => slave'.file \notin other
    BY <1>2, <2>2
  <2> QED BY <1>2, <2>3, <2>4 DEF C!SizesKnown
<1>6. C!CommandsInARow'
  <2>1. slave'.st = "cmd" /\ (C!Owes)' = "cmd" /\ toSlave' = <<>>
    BY <1>2 DEF C!Owes
  <2>2. 1 .. Len(toClient') = {}
    BY <1>2
  <2> QED BY <2>1, <2>2, NothingComes DEF C!CommandsInARow
<1> QED BY <1>3, <1>4, <1>5, <1>6 DEF ClientBasics

\* What is typed of the parts that the client's own steps leave alone.
LEMMA ClientTypes ==
  ASSUME ClientBasics, ClientAssumption, UNCHANGED <<file, known, other, slave, ending>>, did' \in Nat, breaks' = breaks,
         skew' = skew, up' \in BOOLEAN, mixed' \in BOOLEAN, view' \in Seq(Nat), download' \in Seq(Nat),
         toSlave' \in Seq(C!ToSlave), toClient' \in Seq(C!ToClient), asked' \in C!Calls,
         opened' \in C!Handles,
         opened'.file = opened.file, opened'.rd = opened.rd, opened'.wr = opened.wr,
         up' \/ asked' # C!Idle => opened'.open,
         slave.st = "off" => toSlave' = <<>>, opened'.open /\ ~up' => toSlave' = <<>> /\ toClient' = <<>>,
         C!CommandsInARow'
  PROVE  ClientBasics'
<1>1. C!TypeOK'
  BY DEF ClientBasics, C!TypeOK
<1>2. C!OneFile'
  BY DEF ClientBasics, C!OneFile
<1>3. C!SizesKnown'
  BY SizesFrame DEF ClientBasics
<1> QED BY <1>1, <1>2, <1>3 DEF ClientBasics

LEMMA HandleTypes ==
  ASSUME C!TypeOK
  PROVE  /\ opened.open \in BOOLEAN /\ opened.file \in ClientFiles /\ opened.rd \in BOOLEAN /\ opened.wr \in BOOLEAN
         /\ opened.size \in Nat /\ opened.rpos \in Nat /\ opened.wpos \in Nat /\ opened.local \in BOOLEAN
         /\ file[opened.file] \in Seq(Nat) /\ Len(file[opened.file]) \in Nat
         /\ Len(view) \in Nat /\ Len(download) \in Nat /\ Len(toSlave) \in Nat /\ Len(toClient) \in Nat
         /\ did \in Nat /\ up \in BOOLEAN /\ skew \in BOOLEAN
         /\ slave.st \in {"off", "cmd", "read", "write", "download", "upload", "end", "bye"}
         /\ slave.file \in ClientFiles /\ slave.rd \in BOOLEAN /\ slave.wr \in BOOLEAN
BY LenProperties DEF C!TypeOK, C!Handles

LEMMA MovedTypes ==
  ASSUME C!TypeOK, NEW n \in Nat, opened' = [opened EXCEPT !.rpos = @ + n]
  PROVE  /\ opened' \in C!Handles
         /\ opened'.file = opened.file /\ opened'.rd = opened.rd /\ opened'.wr = opened.wr /\ opened'.open = opened.open
         /\ opened'.size = opened.size /\ opened'.rpos = opened.rpos + n /\ opened'.wpos = opened.wpos
         /\ opened'.local = opened.local
<1>1. opened \in C!Handles
  BY DEF C!TypeOK
<1>2. opened.rpos + n \in Nat
  BY <1>1 DEF C!Handles
<1> QED BY <1>1, <1>2 DEF C!Handles

\* What a read asks for.
LEMMA ReadSize ==
  ASSUME C!TypeOK, NEW n \in Nat, NEW r, r = C!Lower(n, opened.size - opened.rpos)
  PROVE  r \in Int /\ r <= n /\ r <= opened.size - opened.rpos /\ (opened.rpos <= opened.size => 0 <= r)
BY HandleTypes DEF C!Lower

LEMMA ReadLengths ==
  ASSUME C!TypeOK, NEW r \in Int
  PROVE  /\ Len(C!Piece(file[opened.file], opened.rpos, r)) = IF r >= 0 THEN r ELSE 0
         /\ Len([i \in 1 .. r |-> C!Garbage]) = IF r >= 0 THEN r ELSE 0
         /\ \A b : Len(C!Cached(b, opened.rpos, r)) = IF r >= 0 THEN r ELSE 0
<1>1. Len(C!Piece(file[opened.file], opened.rpos, r)) = IF r >= 0 THEN r ELSE 0
  BY HandleTypes, PieceType
<1> DEFINE m == IF r >= 0 THEN r ELSE 0
<1>2. m \in Nat /\ 1 .. r = 1 .. m
  OBVIOUS
<1> HIDE DEF m
<1>3. Len([i \in 1 .. r |-> C!Garbage]) = m
  <2>1. Len([i \in 1 .. m |-> C!Garbage]) = m
    BY <1>2
  <2> QED BY <1>2, <2>1
<1>4. ASSUME NEW b
      PROVE  Len(C!Cached(b, opened.rpos, r)) = m
  <2> DEFINE e(i) == IF opened.rpos + i > b.off /\ opened.rpos + i <= b.off + Len(b.data) THEN b.data[opened.rpos + i - b.off] ELSE C!Garbage
  <2> HIDE DEF e
  <2>1. Len([i \in 1 .. m |-> e(i)]) = m
    BY <1>2
  <2> QED BY <1>2, <2>1 DEF C!Cached, e
<1> QED BY <1>1, <1>3, <1>4 DEF m

LEMMA ReadKeepsBasics ==
  ASSUME ClientBasics, ClientAssumption, NEW n \in 1 .. 2, NEW ahead \in {0, Ahead}, C!Read(n, ahead)
  PROVE  ClientBasics'
<1>1. C!TypeOK /\ C!OneFile /\ C!SizesKnown /\ C!CommandsInARow
  BY DEF ClientBasics
<1> DEFINE r == C!Lower(n, opened.size - opened.rpos)
<1>2. /\ UNCHANGED <<file, known, other, cache, stats, download, mixed, view, up, toClient, slave, ending, skew, breaks>>
      /\ opened.open /\ asked = C!Idle /\ did' = did + 1
  BY DEF C!Read, C!Ready, C!data
<1>3. r \in Int /\ ahead \in Nat
  BY <1>1, ReadSize DEF ClientAssumption
<1>4. \/ /\ \E d : /\ Len(d) = (IF r >= 0 THEN r ELSE 0) /\ opened' = [opened EXCEPT !.rpos = @ + Len(d)]
         /\ UNCHANGED <<asked, toSlave>>
      \/ /\ up /\ UNCHANGED opened
         /\ \/ /\ C!Send(<<C!Cmd("read")>>)
               /\ asked' = [k |-> "prefetch", at |-> "consent", n |-> r, ahead |-> C!Lower(ahead, opened.size - opened.rpos)]
            \/ C!Ask(r)
  <2> HIDE DEF r
  <2> USE <1>3, ReadLengths, <1>1
  <2>1. ASSUME NEW d, Len(d) = (IF r >= 0 THEN r ELSE 0), NEW from, C!ReadGives(d, from)
        PROVE  \E e : Len(e) = (IF r >= 0 THEN r ELSE 0) /\ opened' = [opened EXCEPT !.rpos = @ + Len(e)]
    BY <2>1 DEF C!ReadGives
  <2> QED BY <2>1 DEF C!Read, r
<1> HIDE DEF r
<1>5. CASE /\ \E d : /\ Len(d) = (IF r >= 0 THEN r ELSE 0) /\ opened' = [opened EXCEPT !.rpos = @ + Len(d)]
           /\ UNCHANGED <<asked, toSlave>>
  <2> PICK d : Len(d) = (IF r >= 0 THEN r ELSE 0) /\ opened' = [opened EXCEPT !.rpos = @ + Len(d)]
    BY <1>5
  <2>1. Len(d) \in Nat
    BY <1>3
  <2>2. (C!Owes)' = C!Owes
    BY <1>5 DEF C!Owes
  <2>3. toSlave' \in Seq(C!ToSlave) /\ toClient' \in Seq(C!ToClient) /\ C!CommandsInARow'
    BY <1>1, <1>2, <1>5, <2>2, NotSending
  <2>4. /\ did' \in Nat /\ up' \in BOOLEAN /\ mixed' \in BOOLEAN /\ view' \in Seq(Nat) /\ download' \in Seq(Nat)
        /\ asked' \in C!Calls
    BY <1>1, <1>2, <1>5 DEF C!TypeOK
  <2>5. /\ slave.st = "off" => toSlave' = <<>>
        /\ opened.open /\ ~up' => toSlave' = <<>> /\ toClient' = <<>>
        /\ up' \/ asked' # C!Idle => opened.open
    BY <1>1, <1>2, <1>5 DEF C!OneFile
  <2> QED BY <1>1, <1>2, <2>1, <2>3, <2>4, <2>5, MovedTypes, ClientTypes
<1>6. CASE /\ up /\ UNCHANGED opened
           /\ \/ /\ C!Send(<<C!Cmd("read")>>)
                 /\ asked' = [k |-> "prefetch", at |-> "consent", n |-> r, ahead |-> C!Lower(ahead, opened.size - opened.rpos)]
              \/ C!Ask(r)
  <2>1. C!Owes = "cmd"
    BY <1>2 DEF C!Owes
  <2>2. /\ toSlave' \in Seq(C!ToSlave) /\ toClient' \in Seq(C!ToClient) /\ C!CommandsInARow'
        /\ slave.st = "off" => toSlave' = <<>>
        /\ asked' \in C!Calls
    <3>1. CASE /\ C!Send(<<C!Cmd("read")>>)
               /\ asked' = [k |-> "prefetch", at |-> "consent", n |-> r, ahead |-> C!Lower(ahead, opened.size - opened.rpos)]
      <4>1. (C!Owes)' = C!AfterCommand("read")
        BY <3>1 DEF C!Owes, C!AfterCommand, C!Idle
      <4>2. C!Lower(ahead, opened.size - opened.rpos) \in Int
        BY <1>1, <1>3, ReadSize
      <4>3. asked' \in C!Calls
        BY <1>3, <3>1, <4>2 DEF C!Calls
      <4> QED BY <1>1, <1>2, <2>1, <3>1, <4>1, <4>3, SendingCommand
    <3>2. CASE C!Ask(r)
      <4>1. asked' = [k |-> "read", at |-> "consent", n |-> r] /\ C!Send(<<C!Cmd("read"), C!Req(opened.rpos, r)>>)
        BY <3>2 DEF C!Ask
      <4>2. (C!Owes)' = Follows("read") /\ "read" \in Parametric
        BY <4>1 DEF C!Owes, Follows, Parametric, C!Idle
      <4>3. asked' \in C!Calls
        BY <1>3, <4>1 DEF C!Calls
      <4>4. opened.rpos \in Nat
        BY <1>1, HandleTypes
      <4> QED BY <1>1, <1>2, <1>3, <2>1, <4>1, <4>2, <4>3, <4>4, SendingCall
    <3> QED BY <1>6, <3>1, <3>2
  <2>3. /\ did' \in Nat /\ up' \in BOOLEAN /\ mixed' \in BOOLEAN /\ view' \in Seq(Nat) /\ download' \in Seq(Nat)
        /\ opened' \in C!Handles
    BY <1>1, <1>2, <1>6 DEF C!TypeOK
  <2>4. /\ opened'.file = opened.file /\ opened'.rd = opened.rd /\ opened'.wr = opened.wr /\ opened'.open = opened.open
        /\ up' /\ opened.open
    BY <1>2, <1>6
  <2> QED BY <1>1, <1>2, <2>2, <2>3, <2>4, ClientTypes
<1> QED BY <1>4, <1>5, <1>6

LEMMA Same ==
  ASSUME NEW n \in Nat, NEW e \in Nat
  PROVE  [i \in 1 .. n |-> e] \in Seq(Nat) /\ Len([i \in 1 .. n |-> e]) = n
OBVIOUS

\* A write, a download or an upload sends its command and its parameters.
LEMMA CallKeepsBasics ==
  ASSUME ClientBasics, ClientAssumption, UNCHANGED <<file, known, other, slave, ending, up, toClient, skew, breaks, view, opened>>,
         C!Ready, up, did' \in Nat, mixed' \in BOOLEAN, download' \in Seq(Nat),
         NEW c \in Parametric, NEW o \in Nat, NEW n \in Int,
         C!Send(<<C!Cmd(c), C!Req(o, n)>>), asked' \in C!Calls, asked'.k = c, asked'.at = "consent"
  PROVE  ClientBasics'
<1>1. C!TypeOK /\ C!OneFile /\ C!SizesKnown /\ C!CommandsInARow /\ opened.open /\ asked = C!Idle
  BY DEF ClientBasics, C!Ready
<1>2. C!Owes = "cmd"
  BY <1>1 DEF C!Owes
<1>3. (C!Owes)' = Follows(c)
  BY CallShapes DEF C!Owes, Follows, Parametric, C!Idle
<1>4. /\ toSlave' \in Seq(C!ToSlave) /\ toClient' \in Seq(C!ToClient) /\ C!CommandsInARow'
      /\ slave.st = "off" => toSlave' = <<>>
  BY <1>1, <1>2, <1>3, SendingCall
<1>5. opened' \in C!Handles /\ view' \in Seq(Nat) /\ up' \in BOOLEAN
  BY <1>1 DEF C!TypeOK
<1> QED BY <1>1, <1>4, <1>5, ClientTypes

LEMMA WriteKeepsBasics ==
  ASSUME ClientBasics, ClientAssumption, NEW n \in 1 .. 2, C!Write(n)
  PROVE  ClientBasics'
<1> DEFINE d == [i \in 1 .. n |-> did + 2]
<1>1. /\ UNCHANGED <<file, known, other, slave, ending, up, toClient, skew, breaks, view, opened, download, mixed>>
      /\ C!Ready /\ up /\ did' = did + 1 /\ C!Send(<<C!Cmd("write"), C!Req(opened.wpos, n)>>)
      /\ asked' = [k |-> "write", at |-> "consent", d |-> d]
  BY DEF C!Write, C!data
<1>2. C!TypeOK
  BY DEF ClientBasics
<1>3. did \in Nat /\ opened.wpos \in Nat
  BY <1>2, HandleTypes
<1>4. d \in Seq(Nat)
  BY <1>3, Same
<1> HIDE DEF d
<1>5. asked' \in C!Calls /\ asked'.k = "write" /\ asked'.at = "consent"
  BY <1>1, <1>4 DEF C!Calls
<1>6. did' \in Nat /\ mixed' \in BOOLEAN /\ download' \in Seq(Nat) /\ "write" \in Parametric /\ n \in Int
  BY <1>1, <1>2, <1>3 DEF Parametric, C!TypeOK
<1> QED BY <1>1, <1>3, <1>5, <1>6, CallKeepsBasics

LEMMA UploadKeepsBasics ==
  ASSUME ClientBasics, ClientAssumption, C!Upload(2)
  PROVE  ClientBasics'
<1> DEFINE d == [i \in 1 .. 2 |-> did + 2]
<1>1. /\ UNCHANGED <<file, known, other, slave, ending, up, toClient, skew, breaks, view, opened, download, mixed>>
      /\ C!Ready /\ up /\ did' = did + 1 /\ C!Send(<<C!Cmd("upload"), C!Req(0, 2)>>)
      /\ asked' = [k |-> "upload", at |-> "consent", d |-> d]
  BY DEF C!Upload, C!data
<1>2. C!TypeOK
  BY DEF ClientBasics
<1>3. did \in Nat
  BY <1>2, HandleTypes
<1>4. d \in Seq(Nat)
  BY <1>3, Same
<1> HIDE DEF d
<1>5. asked' \in C!Calls /\ asked'.k = "upload" /\ asked'.at = "consent"
  BY <1>1, <1>4 DEF C!Calls
<1>6. did' \in Nat /\ mixed' \in BOOLEAN /\ download' \in Seq(Nat) /\ "upload" \in Parametric /\ 2 \in Int /\ 0 \in Nat
  BY <1>1, <1>2, <1>3 DEF Parametric, C!TypeOK
<1> QED BY <1>1, <1>3, <1>5, <1>6, CallKeepsBasics

LEMMA DownloadKeepsBasics ==
  ASSUME ClientBasics, ClientAssumption, NEW cont \in BOOLEAN, C!Download(cont)
  PROVE  ClientBasics'
<1> DEFINE l == IF opened.size > Len(download') THEN opened.size - Len(download') ELSE 0
<1>1. /\ UNCHANGED <<file, known, other, slave, ending, up, toClient, skew, breaks, view, opened>>
      /\ C!Ready /\ up /\ did' = did + 1 /\ C!Send(<<C!Cmd("download"), C!Req(Len(download'), 0)>>)
      /\ download' = (IF cont THEN download ELSE <<>>) /\ mixed' = (cont /\ mixed)
      /\ asked' = [k |-> "download", at |-> "consent", left |-> l]
  BY DEF C!Download, C!data
<1>2. C!TypeOK
  BY DEF ClientBasics
<1>3. did \in Nat /\ opened.size \in Nat
  BY <1>2, HandleTypes
<1>4. download' \in Seq(Nat)
  BY <1>1, <1>2 DEF C!TypeOK
<1>5. Len(download') \in Nat
  BY <1>4, LenProperties
<1>6. l \in Nat
  BY <1>3, <1>5
<1> HIDE DEF l
<1>7. asked' \in C!Calls /\ asked'.k = "download" /\ asked'.at = "consent"
  BY <1>1, <1>6 DEF C!Calls
<1>8. did' \in Nat /\ mixed' \in BOOLEAN /\ "download" \in Parametric /\ 0 \in Int
  BY <1>1, <1>2, <1>3 DEF Parametric, C!TypeOK
<1> QED BY <1>1, <1>4, <1>5, <1>7, <1>8, CallKeepsBasics

LEMMA SeekKeepsBasics ==
  ASSUME ClientBasics, ClientAssumption, NEW g \in BOOLEAN, NEW p \in {0, 1}, C!Seek(g, p)
  PROVE  ClientBasics'
<1>1. /\ UNCHANGED <<file, known, other, slave, ending, up, toSlave, toClient, skew, breaks, view, asked, download, mixed>>
      /\ did' = did + 1 /\ opened.open /\ asked = C!Idle
      /\ opened' = [opened EXCEPT !.wpos = p] \/ opened' = [opened EXCEPT !.rpos = p]
  BY DEF C!Seek, C!data, C!session, C!Ready
<1>2. C!TypeOK /\ C!OneFile /\ C!CommandsInARow
  BY DEF ClientBasics
<1>3. /\ opened' \in C!Handles /\ opened'.file = opened.file /\ opened'.rd = opened.rd
      /\ opened'.wr = opened.wr /\ opened'.open = opened.open
  <2>1. opened \in C!Handles
    BY <1>2 DEF C!TypeOK
  <2>2. CASE opened' = [opened EXCEPT !.wpos = p]
    BY <2>1, <2>2 DEF C!Handles
  <2>3. CASE opened' = [opened EXCEPT !.rpos = p]
    BY <2>1, <2>3 DEF C!Handles
  <2> QED BY <1>1, <2>2, <2>3
<1>4. toSlave' \in Seq(C!ToSlave) /\ toClient' \in Seq(C!ToClient) /\ C!CommandsInARow'
  <2>1. (C!Owes)' = C!Owes
    BY <1>1 DEF C!Owes
  <2> QED BY <1>1, <1>2, <2>1, NotSending
<1>5. /\ did' \in Nat /\ up' \in BOOLEAN /\ mixed' \in BOOLEAN /\ view' \in Seq(Nat) /\ download' \in Seq(Nat)
      /\ asked' \in C!Calls
  BY <1>1, <1>2 DEF C!TypeOK
<1>6. /\ slave.st = "off" => toSlave' = <<>>
      /\ opened'.open /\ ~up' => toSlave' = <<>> /\ toClient' = <<>>
      /\ up' \/ asked' # C!Idle => opened'.open
  BY <1>1, <1>2, <1>3 DEF C!OneFile
<1> QED BY <1>1, <1>3, <1>4, <1>5, <1>6, ClientTypes

LEMMA CloseKeepsBasics ==
  ASSUME ClientBasics, ClientAssumption, C!Close
  PROVE  ClientBasics'
<1>1. /\ UNCHANGED <<file, known, other, slave, ending, up, toClient, skew, breaks, view, opened, download, mixed, did>>
      /\ C!Send(<<C!Cmd("close")>>) /\ opened.open /\ asked = C!Idle
      /\ asked' = [k |-> "close", at |-> "consent"]
  BY DEF C!Close, C!data
<1>2. C!TypeOK /\ C!OneFile /\ C!CommandsInARow
  BY DEF ClientBasics
<1>3. C!Owes = "cmd" /\ (C!Owes)' = C!AfterCommand("close") /\ asked' \in C!Calls
  BY <1>1 DEF C!Owes, C!AfterCommand, C!Idle, C!Calls
<1>4. /\ toSlave' \in Seq(C!ToSlave) /\ toClient' \in Seq(C!ToClient) /\ C!CommandsInARow'
      /\ slave.st = "off" => toSlave' = <<>>
      /\ ~up => toSlave' = toSlave
  BY <1>1, <1>2, <1>3, SendingCommand
<1>5. /\ did' \in Nat /\ up' \in BOOLEAN /\ mixed' \in BOOLEAN /\ view' \in Seq(Nat) /\ download' \in Seq(Nat)
      /\ opened' \in C!Handles
  BY <1>1, <1>2 DEF C!TypeOK
<1>6. opened'.open /\ ~up' => toSlave' = <<>> /\ toClient' = <<>>
  BY <1>1, <1>2, <1>4 DEF C!OneFile
<1> QED BY <1>1, <1>3, <1>4, <1>5, <1>6, ClientTypes

\* Who is not served any more is not sent anything.
LEMMA NotServed ==
  ASSUME C!TypeOK, C!OneFile, ~C!Serves, UNCHANGED slave, toClient # <<>>, toClient' = Tail(toClient),
         UNCHANGED toSlave \/ \E items : C!Send(items)
  PROVE  /\ toSlave' \in Seq(C!ToSlave) /\ toClient' \in Seq(C!ToClient) /\ C!CommandsInARow'
         /\ toSlave' = toSlave
<1>1. toSlave' = toSlave
  BY DEF C!Send, C!Serves
<1>2. toSlave \in Seq(C!ToSlave) /\ toClient' \in Seq(C!ToClient)
  BY TailElements DEF C!TypeOK
<1>3. ~C!Serves'
  BY DEF C!Serves
<1> QED BY <1>1, <1>2, <1>3 DEF C!CommandsInARow

LEMMA RefusedNotServed ==
  ASSUME C!TypeOK, C!CommandsInARow, toClient # <<>>, ~C!AsConsent(Head(toClient))
  PROVE  ~C!Serves
<1>1. Head(toClient) = toClient[1] /\ 1 \in 1 .. Len(toClient) /\ Head(toClient) \in C!ToClient
  BY TailElements DEF C!TypeOK
<1>2. toClient[1].t = "consent" /\ ~toClient[1].ok
  BY <1>1, AnswerShapes DEF C!AsConsent
<1> QED BY <1>1, <1>2 DEF C!CommandsInARow

\* What the client does with an answer.
LEMMA ConsentStep ==
  ASSUME C!Consent
  PROVE  /\ asked # C!Idle /\ asked.at = "consent" /\ toClient # <<>> /\ toClient' = Tail(toClient)
         /\ UNCHANGED <<file, known, other, slave, ending, skew, did, breaks>>
BY DEF C!Consent, C!data

LEMMA WaitingIsUp ==
  ASSUME C!OneFile, asked # C!Idle, toClient # <<>>
  PROVE  opened.open /\ up
BY DEF C!OneFile

LEMMA ConsentKeepsBasics ==
  ASSUME ClientBasics, ClientAssumption, C!Consent
  PROVE  ClientBasics'
<1>1. C!TypeOK /\ C!OneFile /\ C!CommandsInARow
  BY DEF ClientBasics
<1>2. /\ asked # C!Idle /\ asked.at = "consent" /\ toClient # <<>> /\ toClient' = Tail(toClient)
      /\ UNCHANGED <<file, known, other, slave, ending, skew, did, breaks>>
  BY ConsentStep
<1>3. opened.open /\ (up = TRUE) /\ asked \in C!Calls /\ opened \in C!Handles
      /\ did' \in Nat /\ mixed \in BOOLEAN /\ download \in Seq(Nat) /\ view \in Seq(Nat)
  BY <1>1, <1>2, WaitingIsUp DEF C!TypeOK
<1>4. slave.st = "off" => toSlave = <<>>
  BY <1>1 DEF C!OneFile
<1>5. ASSUME asked.k = "close", C!ClosedNow, UNCHANGED <<download, mixed, view, out, toSlave>>
      PROVE  ClientBasics'
  <2>1. /\ opened' = [opened EXCEPT !.open = FALSE] /\ asked' = C!Idle /\ up' = FALSE
    BY <1>5 DEF C!ClosedNow
  <2>2. /\ opened' \in C!Handles /\ opened'.file = opened.file /\ opened'.rd = opened.rd
        /\ opened'.wr = opened.wr /\ ~opened'.open
    BY <1>3, <2>1 DEF C!Handles
  <2>3. toSlave' \in Seq(C!ToSlave) /\ toClient' \in Seq(C!ToClient) /\ C!CommandsInARow'
    BY <1>1, <1>2, <1>5, <2>1, NotSending
  <2>4. asked' \in C!Calls
    BY <2>1 DEF C!Calls
  <2>5. slave.st = "off" => toSlave' = <<>>
    BY <1>4, <1>5
  <2> QED BY <1>2, <1>3, <1>5, <2>1, <2>2, <2>3, <2>4, <2>5, ClientTypes
<1>6. ASSUME asked.k = "prefetch", C!Send(<<C!Req(opened.rpos, asked.ahead)>>), asked' = [asked EXCEPT !.at = "data"],
             UNCHANGED <<opened, cache, stats, download, mixed, view, out, up>>
      PROVE  ClientBasics'
  <2>1. asked \in [k : {"prefetch"}, at : {"consent", "data"}, n : Int, ahead : Int]
    BY <1>3, <1>6, CallShapes
  <2>2. asked' \in [k : {"prefetch"}, at : {"consent", "data"}, n : Int, ahead : Int] /\ asked'.at = "data"
    BY <1>6, <2>1
  <2>3. C!Owes = "req" /\ (C!Owes)' = "cmd"
    BY <1>2, <1>6, <2>2 DEF C!Owes
  <2>4. asked' \in C!Calls /\ asked.ahead \in Int /\ opened.rpos \in Nat
    BY <1>3, <2>1, <2>2 DEF C!Calls, C!Handles
  <2>5. /\ toSlave' \in Seq(C!ToSlave) /\ toClient' \in Seq(C!ToClient) /\ C!CommandsInARow'
        /\ slave.st = "off" => toSlave' = <<>>
    BY <1>1, <1>2, <1>6, <2>3, <2>4, SendingRequest
  <2> QED BY <1>2, <1>3, <1>6, <2>4, <2>5, ClientTypes
<1>7. ASSUME ~C!AsConsent(Head(toClient)), UNCHANGED toSlave \/ \E items : C!Send(items), asked' \in C!Calls,
             UNCHANGED <<opened, cache, stats, download, mixed, view, up>>
      PROVE  ClientBasics'
  <2>1. ~C!Serves
    BY <1>1, <1>2, <1>7, RefusedNotServed
  <2>2. /\ toSlave' \in Seq(C!ToSlave) /\ toClient' \in Seq(C!ToClient) /\ C!CommandsInARow' /\ toSlave' = toSlave
    BY <1>1, <1>2, <1>7, <2>1, NotServed
  <2> QED BY <1>2, <1>3, <1>4, <1>7, <2>2, ClientTypes
<1>8. ASSUME asked.k \in {"read", "download"}, asked' = [asked EXCEPT !.at = "data"],
             UNCHANGED <<opened, cache, stats, download, mixed, view, out, up, toSlave>>
      PROVE  ClientBasics'
  <2>1. asked' \in C!Calls /\ asked'.k = asked.k
    <3>1. asked \in [k : {"read"}, at : {"consent", "data"}, n : Int] \/ asked \in [k : {"download"}, at : {"consent", "data"}, left : Nat]
      BY <1>3, <1>8, CallShapes
    <3> QED BY <1>8, <3>1 DEF C!Calls
  <2>2. C!Owes = "cmd" /\ (C!Owes)' = "cmd"
    BY <1>8, <2>1 DEF C!Owes
  <2>3. toSlave' \in Seq(C!ToSlave) /\ toClient' \in Seq(C!ToClient) /\ C!CommandsInARow'
    BY <1>1, <1>2, <1>8, <2>2, NotSending
  <2> QED BY <1>2, <1>3, <1>4, <1>8, <2>1, <2>3, ClientTypes
<1>9. ASSUME asked.k \in {"write", "upload"}, C!Send(<<C!Block(asked.d)>>), asked' = C!Idle,
             NEW o \in Nat, view' = C!Written(view, o, asked.d), mixed' \in BOOLEAN, UNCHANGED <<download, up>>,
             \/ UNCHANGED opened
             \/ \E e \in Nat : opened' = [opened EXCEPT !.wpos = e, !.size = IF e > @ THEN e ELSE @]
      PROVE  ClientBasics'
  <2>1. asked \in [k : {"write", "upload"}, at : {"consent"}, d : Seq(Nat)]
    BY <1>3, <1>9, CallShapes
  <2>2. asked.d \in Seq(Nat) /\ view' \in Seq(Nat)
    BY <1>3, <1>9, <2>1, WrittenType
  <2>3. C!Owes = "data" /\ (C!Owes)' = "cmd" /\ asked' \in C!Calls
    BY <1>2, <1>9 DEF C!Owes, C!Idle, C!Calls
  <2>4. /\ toSlave' \in Seq(C!ToSlave) /\ toClient' \in Seq(C!ToClient) /\ C!CommandsInARow'
        /\ slave.st = "off" => toSlave' = <<>>
    BY <1>1, <1>2, <1>9, <2>2, <2>3, SendingData
  <2>5. /\ opened' \in C!Handles /\ opened'.file = opened.file /\ opened'.rd = opened.rd
        /\ opened'.wr = opened.wr /\ opened'.open = opened.open
    <3>1. CASE UNCHANGED opened
      BY <1>3, <3>1
    <3>2. CASE \E e \in Nat : opened' = [opened EXCEPT !.wpos = e, !.size = IF e > @ THEN e ELSE @]
      <4> PICK e \in Nat : opened' = [opened EXCEPT !.wpos = e, !.size = IF e > @ THEN e ELSE @]
        BY <3>2
      <4>1. (IF e > opened.size THEN e ELSE opened.size) \in Nat
        BY <1>3 DEF C!Handles
      <4>2. opened' = [opened EXCEPT !.wpos = e, !.size = IF e > opened.size THEN e ELSE opened.size]
        BY <1>3 DEF C!Handles
      <4> QED BY <1>3, <4>1, <4>2 DEF C!Handles
    <3> QED BY <1>9, <3>1, <3>2
  <2> QED BY <1>2, <1>3, <1>9, <2>2, <2>3, <2>4, <2>5, ClientTypes
<1> DEFINE ok == C!AsConsent(Head(toClient))
<1>10. /\ opened.wpos \in Nat /\ opened.rpos \in Nat
       /\ asked.k \in {"write", "upload"} => asked.d \in Seq(Nat) /\ Len(asked.d) \in Nat
       /\ asked.k = "prefetch" => asked.n \in Int
  <2>1. asked.k \in {"write", "upload"} => asked.d \in Seq(Nat)
    BY <1>3, CallShapes
  <2>2. asked.k = "prefetch" => asked.n \in Int
    BY <1>3, CallShapes
  <2> QED BY <1>3, <2>1, <2>2, LenProperties DEF C!Handles
<1>11. CASE asked.k = "prefetch" /\ ~ok /\ C!Ask(asked.n) /\ UNCHANGED <<opened, cache, stats, download, mixed, view, out, up>>
  <2>1. asked' \in C!Calls
    BY <1>10, <1>11 DEF C!Ask, C!Calls
  <2>2. \E items : C!Send(items)
    BY <1>11 DEF C!Ask
  <2> QED BY <1>7, <1>11, <2>1, <2>2
<1>12. CASE asked.k = "write" /\ ok /\ C!Send(<<C!Block(asked.d)>>) /\ asked' = C!Idle
            /\ opened' = [opened EXCEPT !.wpos = opened.wpos + Len(asked.d), !.size = IF opened.wpos + Len(asked.d) > @ THEN opened.wpos + Len(asked.d) ELSE @]
            /\ view' = C!Written(view, opened.wpos, asked.d) /\ mixed' = (mixed \/ opened.wpos < Len(download)) /\ UNCHANGED <<cache, download, up>>
  <2>1. mixed' \in BOOLEAN /\ opened.wpos + Len(asked.d) \in Nat
    BY <1>10, <1>12
  <2> QED BY <1>9, <1>10, <1>12, <2>1
<1>13. CASE asked.k = "upload" /\ ok /\ C!Send(<<C!Block(asked.d)>>) /\ asked' = C!Idle /\ out' = [k |-> "upload"]
            /\ view' = C!Written(view, 0, asked.d) /\ mixed' = (mixed \/ download # <<>>)
            /\ UNCHANGED <<opened, cache, stats, download, up>>
  <2>1. mixed' \in BOOLEAN /\ 0 \in Nat
    BY <1>13
  <2> QED BY <1>9, <1>13, <2>1
<1>14. CASE ~ok /\ C!Fails(asked.k) /\ UNCHANGED <<opened, cache, stats, download, mixed, view, up, toSlave>>
  <2>1. asked' \in C!Calls
    BY <1>14 DEF C!Fails, C!Calls
  <2> QED BY <1>7, <1>14, <2>1
<1> QED BY <1>5, <1>6, <1>8, <1>11, <1>12, <1>13, <1>14 DEF C!Consent

LEMMA ReceivedKeepsBasics ==
  ASSUME ClientBasics, ClientAssumption, C!Received
  PROVE  ClientBasics'
<1> DEFINE d == C!AsData(Head(toClient))
<1>1. C!TypeOK /\ C!OneFile /\ C!CommandsInARow
  BY DEF ClientBasics
<1>2. /\ asked # C!Idle /\ asked.at = "data" /\ toClient # <<>> /\ toClient' = Tail(toClient)
      /\ UNCHANGED <<file, known, other, stats, mixed, view, up, toSlave, slave, ending, skew, did, breaks>>
  BY DEF C!Received, C!data
<1>3. opened.open /\ up /\ asked \in C!Calls /\ opened \in C!Handles /\ up' \in BOOLEAN
      /\ did' \in Nat /\ mixed' \in BOOLEAN /\ download \in Seq(Nat) /\ view' \in Seq(Nat)
  BY <1>1, <1>2, WaitingIsUp DEF C!TypeOK
<1>4. d \in Seq(Nat) /\ Len(d) \in Nat
  BY <1>1, <1>2, TailElements, AnswerShapes, LenProperties DEF C!TypeOK
<1>5. /\ slave.st = "off" => toSlave' = <<>>
      /\ C!Owes = "cmd"
  BY <1>1, <1>2 DEF C!OneFile, C!Owes
<1>6. ASSUME asked' \in C!Calls, asked' = C!Idle \/ asked'.at = "data", download' \in Seq(Nat),
             opened' = opened \/ \E n \in Nat : opened' = [opened EXCEPT !.rpos = @ + n]
      PROVE  ClientBasics'
  <2>1. (C!Owes)' = C!Owes
    BY <1>5, <1>6 DEF C!Owes
  <2>2. toSlave' \in Seq(C!ToSlave) /\ toClient' \in Seq(C!ToClient) /\ C!CommandsInARow'
    BY <1>1, <1>2, <1>3, <2>1, NotSending
  <2>3. /\ opened' \in C!Handles /\ opened'.file = opened.file /\ opened'.rd = opened.rd
        /\ opened'.wr = opened.wr /\ opened'.open = opened.open
    BY <1>1, <1>3, <1>6, MovedTypes
  <2> QED BY <1>2, <1>3, <1>5, <1>6, <2>2, <2>3, ClientTypes
<1>7. C!Idle \in C!Calls
  BY DEF C!Calls
<1>8. CASE asked.k = "prefetch" /\ asked' = C!Idle /\ UNCHANGED download
            /\ C!ReadGives(C!Cached([off |-> opened.rpos, data |-> d], opened.rpos, asked.n), "slave")
  <2>1. asked.n \in Int
    BY <1>3, <1>8, CallShapes
  <2> DEFINE m == Len(C!Cached([off |-> opened.rpos, data |-> d], opened.rpos, asked.n))
  <2>2. m \in Nat
    BY <1>1, <2>1, ReadLengths
  <2>3. opened' = [opened EXCEPT !.rpos = @ + m]
    BY <1>8 DEF C!ReadGives
  <2> HIDE DEF m
  <2> QED BY <1>3, <1>6, <1>7, <1>8, <2>2, <2>3
<1>9. CASE asked.k = "read" /\ C!ReadGives(d, "slave") /\ asked' = C!Idle /\ UNCHANGED <<cache, download>>
  <2>1. opened' = [opened EXCEPT !.rpos = @ + Len(d)]
    BY <1>9 DEF C!ReadGives
  <2> QED BY <1>3, <1>4, <1>6, <1>7, <1>9, <2>1
<1>10. CASE /\ asked.k = "download" /\ download' = download \o d /\ UNCHANGED <<opened, cache>>
            /\ IF asked.left <= Len(d) THEN asked' = C!Idle /\ out' = [k |-> "download"]
                                       ELSE asked' = [asked EXCEPT !.left = @ - Len(d)] /\ UNCHANGED out
  <2>1. asked \in [k : {"download"}, at : {"consent", "data"}, left : Nat]
    BY <1>3, <1>10, CallShapes
  <2>2. asked' \in C!Calls /\ (asked' = C!Idle \/ asked'.at = "data")
    <3>1. CASE asked.left <= Len(d)
      BY <1>7, <1>10, <3>1
    <3>2. CASE ~(asked.left <= Len(d))
      <4>1. asked.left - Len(d) \in Nat
        BY <1>4, <2>1, <3>2
      <4>2. asked' \in [k : {"download"}, at : {"consent", "data"}, left : Nat] /\ asked'.at = "data"
        BY <1>2, <1>10, <2>1, <3>2, <4>1
      <4> QED BY <4>2 DEF C!Calls
    <3> QED BY <3>1, <3>2
  <2>3. download' \in Seq(Nat)
    BY <1>3, <1>4, <1>10, ConcatProperties
  <2> QED BY <1>6, <1>10, <2>2, <2>3
<1> QED BY <1>8, <1>9, <1>10 DEF C!Received

LEMMA EndsKeepBasics ==
  ASSUME ClientBasics, ClientAssumption, C!DownloadEmpty \/ C!NotReceived
  PROVE  ClientBasics'
<1>1. C!TypeOK /\ C!OneFile /\ C!CommandsInARow
  BY DEF ClientBasics
<1>2. UNCHANGED <<file, known, other, download, mixed, view, toSlave, toClient, slave, ending, skew, did, breaks>>
  BY DEF C!DownloadEmpty, C!NotReceived, C!data, C!session
<1>3. asked' = C!Idle /\ asked' \in C!Calls
  BY DEF C!DownloadEmpty, C!NotReceived, C!ClosedNow, C!Fails, C!Calls
<1>4. /\ did' \in Nat /\ mixed' \in BOOLEAN /\ download' \in Seq(Nat) /\ view' \in Seq(Nat) /\ opened \in C!Handles
      /\ up \in BOOLEAN /\ (slave.st = "off" => toSlave' = <<>>)
  BY <1>1, <1>2 DEF C!TypeOK, C!OneFile
<1>5. CASE C!DownloadEmpty
  <2>1. asked.at = "data" /\ asked # C!Idle /\ UNCHANGED <<opened, up>>
    BY <1>5 DEF C!DownloadEmpty, C!session
  <2>2. (C!Owes)' = C!Owes
    BY <1>3, <2>1 DEF C!Owes
  <2>3. toSlave' \in Seq(C!ToSlave) /\ toClient' \in Seq(C!ToClient) /\ C!CommandsInARow'
    BY <1>1, <1>2, <1>4, <2>1, <2>2, NotSending
  <2>4. (up' => opened'.open) /\ (opened'.open /\ ~up' => toSlave' = <<>> /\ toClient' = <<>>)
    BY <1>1, <1>2, <2>1 DEF C!OneFile
  <2> QED BY <1>2, <1>3, <1>4, <2>1, <2>3, <2>4, ClientTypes
<1>6. CASE C!NotReceived
  <2>1. ~up /\ (UNCHANGED <<opened, up>> \/ (opened' = [opened EXCEPT !.open = FALSE] /\ up' = FALSE))
    BY <1>6 DEF C!NotReceived, C!ClosedNow
  <2>2. up' = FALSE
    <3>1. CASE UNCHANGED <<opened, up>>
      <4>1. up = FALSE
        BY <1>4, <2>1
      <4> QED BY <3>1, <4>1
    <3>2. CASE opened' = [opened EXCEPT !.open = FALSE] /\ up' = FALSE
      BY <3>2
    <3> QED BY <2>1, <3>1, <3>2
  <2>3. toSlave' \in Seq(C!ToSlave) /\ toClient' \in Seq(C!ToClient) /\ C!CommandsInARow'
    BY <1>1, <1>2, <2>2, NotSending
  <2>4. /\ opened' \in C!Handles /\ opened'.file = opened.file /\ opened'.rd = opened.rd
        /\ opened'.wr = opened.wr /\ (opened'.open => opened.open)
    <3>1. CASE UNCHANGED opened
      BY <1>4, <3>1
    <3>2. CASE opened' = [opened EXCEPT !.open = FALSE]
      BY <1>4, <3>2 DEF C!Handles
    <3> QED BY <2>1, <3>1, <3>2
  <2>5. opened'.open /\ ~up' => toSlave' = <<>> /\ toClient' = <<>>
    BY <1>1, <1>2, <2>1, <2>4 DEF C!OneFile
  <2> QED BY <1>2, <1>3, <1>4, <2>2, <2>3, <2>4, <2>5, ClientTypes
<1> QED BY <1>5, <1>6

-----------------------------------------------------------------------------

\* What is typed of the parts that the slave's steps leave alone.
LEMMA SlaveTypes ==
  ASSUME ClientBasics, UNCHANGED <<other, ending, opened, asked, download, mixed, view, did>>, breaks' \in Nat, skew' \in BOOLEAN,
         up' \in BOOLEAN, up' => up,
         file' \in [ClientFiles -> Seq(Nat)], known' \in [ClientFiles -> Nat],
         toSlave' \in Seq(C!ToSlave), toClient' \in Seq(C!ToClient),
         slave' = [slave EXCEPT !.st = slave'.st], slave'.st \in {"off", "cmd", "read", "write", "download", "upload", "end", "bye"},
         slave'.st \in {"write", "upload"} => slave.wr,
         slave'.st = "off" => toSlave' = <<>>, opened.open /\ ~up' => toSlave' = <<>> /\ toClient' = <<>>,
         C!SizesKnown', C!CommandsInARow'
  PROVE  ClientBasics'
<1>1. /\ slave' \in [st : {"off", "cmd", "read", "write", "download", "upload", "end", "bye"},
                      file : ClientFiles, rd : BOOLEAN, wr : BOOLEAN]
      /\ slave'.file = slave.file /\ slave'.rd = slave.rd /\ slave'.wr = slave.wr
  <2>1. slave \in [st : {"off", "cmd", "read", "write", "download", "upload", "end", "bye"},
                   file : ClientFiles, rd : BOOLEAN, wr : BOOLEAN]
    BY DEF ClientBasics, C!TypeOK
  <2> DEFINE t == slave'.st
  <2>2. slave' = [slave EXCEPT !.st = t] /\ t \in {"off", "cmd", "read", "write", "download", "upload", "end", "bye"}
    OBVIOUS
  <2> HIDE DEF t
  <2> QED BY <2>1, <2>2
<1>2. C!TypeOK'
  BY <1>1 DEF ClientBasics, C!TypeOK
<1>3. C!OneFile'
  BY <1>1 DEF ClientBasics, C!OneFile
<1> QED BY <1>2, <1>3 DEF ClientBasics

\* The slave sends what is no refusal.
LEMMA Answering ==
  ASSUME C!TypeOK, C!CommandsInARow, C!Serves, NEW items \in Seq(C!ToClient), C!Answer(items),
         \A i \in 1 .. Len(items) : items[i].t = "consent" => items[i].ok
  PROVE  /\ toClient' \in Seq(C!ToClient)
         /\ \A i \in 1 .. Len(toClient') : toClient'[i].t = "consent" => toClient'[i].ok
<1>1. toClient \in Seq(C!ToClient) /\ Len(toClient) \in Nat /\ Len(items) \in Nat
      /\ \A i \in 1 .. Len(toClient) : toClient[i].t = "consent" => toClient[i].ok
  BY LenProperties DEF C!TypeOK, C!CommandsInARow
<1>2. CASE up
  <2>1. toClient' = toClient \o items
    BY <1>2 DEF C!Answer
  <2>2. /\ toClient' \in Seq(C!ToClient) /\ Len(toClient') = Len(toClient) + Len(items)
        /\ \A i \in 1 .. Len(toClient) + Len(items) : toClient'[i] =
             IF i <= Len(toClient) THEN toClient[i] ELSE items[i - Len(toClient)]
    BY <1>1, <2>1, ConcatProperties
  <2>3. ASSUME NEW i \in 1 .. Len(toClient'), toClient'[i].t = "consent"
        PROVE  toClient'[i].ok
    <3>1. CASE i <= Len(toClient)
      BY <1>1, <2>2, <2>3, <3>1
    <3>2. CASE ~(i <= Len(toClient))
      <4>1. i - Len(toClient) \in 1 .. Len(items) /\ toClient'[i] = items[i - Len(toClient)]
        BY <1>1, <2>2, <2>3, <3>2
      <4> QED BY <2>3, <4>1
    <3> QED BY <3>1, <3>2
  <2> QED BY <2>2, <2>3
<1>3. CASE ~up
  BY <1>1, <1>3 DEF C!Answer
<1> QED BY <1>2, <1>3

\* The slave takes what it waits for.
LEMMA Taking1 ==
  ASSUME C!TypeOK, C!CommandsInARow, C!Serves, NEW k \in 1 .. Len(toSlave), NEW to,
         toSlave' = SubSeq(toSlave, k + 1, Len(toSlave)), slave'.st = to, UNCHANGED <<up, asked>>,
         toClient' \in Seq(C!ToClient), \A i \in 1 .. Len(toClient') : toClient'[i].t = "consent" => toClient'[i].ok,
         C!Expected(to, <<>>, 1) = C!Expected(slave.st, toSlave, k + 1),
         to \in {"write", "upload"} <=> C!OfWrite(slave.st, toSlave, k)
  PROVE  toSlave' \in Seq(C!ToSlave) /\ C!CommandsInARow'
<1>1. toSlave \in Seq(C!ToSlave) /\ C!InARow(slave.st, toSlave)
  BY DEF C!TypeOK, C!CommandsInARow
<1>2. /\ toSlave' \in Seq(C!ToSlave) /\ C!InARow(to, toSlave')
      /\ C!Comes(to, toSlave') = C!Comes(slave.st, toSlave)
  BY <1>1, TakenInARow
<1>3. (C!Owes)' = C!Owes
  BY DEF C!Owes
<1>4. up' => C!Comes(to, toSlave') = (C!Owes)'
  BY <1>2, <1>3 DEF C!CommandsInARow
<1> QED BY <1>2, <1>4 DEF C!CommandsInARow

\* What it has been told, the slave's file is locked while it is written.
LEMMA SizesOfSlave ==
  ASSUME C!TypeOK, C!SizesKnown, UNCHANGED <<other, ending, known>>, slave'.file = slave.file, slave'.wr = slave.wr,
         file' \in [ClientFiles -> Seq(Nat)],
         C!Serves \/ slave.st = "end" => slave'.st \notin {"bye", "off"},
         slave.st \in {"bye", "off"} => slave'.st \in {"bye", "off"},
         \/ UNCHANGED file
         \/ /\ C!Serves /\ slave.wr /\ \A g \in ClientFiles : g # slave.file => file'[g] = file[g]
            /\ Len(file'[slave.file]) >= Len(file[slave.file])
  PROVE  C!SizesKnown'
<1>1. \A g : C!WriteLocked(g) => C!WriteLocked(g)'
  BY DEF C!WriteLocked, C!Session, C!Serves
<1>2. slave'.wr /\ slave'.st \notin {"bye", "off"} => slave'.file \notin other'
  BY DEF C!SizesKnown, C!Serves
<1>3. ASSUME NEW g \in ClientFiles
      PROVE  known[g] <= Len(file'[g]) /\ (known[g] # Len(file'[g]) => C!WriteLocked(g)')
  <2>1. known[g] \in Nat /\ Len(file[g]) \in Nat /\ Len(file'[g]) \in Nat
    BY LenProperties DEF C!TypeOK
  <2>2. known[g] <= Len(file[g]) /\ (known[g] # Len(file[g]) => C!WriteLocked(g))
    BY DEF C!SizesKnown
  <2>3. CASE file'[g] = file[g]
    BY <1>1, <2>2, <2>3
  <2>4. CASE file'[g] # file[g]
    <3>1. C!Serves /\ slave.wr /\ g = slave.file /\ Len(file'[g]) >= Len(file[g])
      BY <2>4
    <3>2. /\ (C!Session)' = [file |-> slave'.file, wr |-> slave'.wr]
          /\ slave'.st \notin {"bye", "off"} /\ slave'.file = g /\ slave'.wr
      BY <3>1 DEF C!Session
    <3>3. C!WriteLocked(g)'
      BY <3>2 DEF C!WriteLocked
    <3> QED BY <2>1, <2>2, <3>1, <3>3
  <2> QED BY <2>3, <2>4
<1> QED BY <1>2, <1>3 DEF C!SizesKnown

\* The slave's place in the commands once it has taken one.
LEMMA AfterTaken ==
  ASSUME NEW c \in {"read", "download", "write", "upload"}
  PROVE  C!Expected(c, <<>>, 1) = C!AfterCommand(c)
BY DEF C!Expected

LEMMA FirstTaken ==
  ASSUME C!TypeOK, C!CommandsInARow, C!Serves, toSlave # <<>>
  PROVE  /\ 1 \in 1 .. Len(toSlave) /\ toSlave[1] = Head(toSlave) /\ toSlave[1] \in C!ToSlave
         /\ Tail(toSlave) = SubSeq(toSlave, 2, Len(toSlave))
         /\ slave.st = "cmd" => toSlave[1].t = "cmd" /\ toSlave[1].c \in C!Commands
         /\ slave.st \in {"read", "download", "write", "upload"} =>
              toSlave[1].t = "req" /\ toSlave[1].off \in Nat /\ toSlave[1].n \in Int
         /\ C!Expected(slave.st, toSlave, 2) = C!AfterItem(toSlave[1], slave.st \in {"write", "upload"})
<1>1. toSlave \in Seq(C!ToSlave) /\ C!InARow(slave.st, toSlave)
  BY DEF C!TypeOK, C!CommandsInARow
<1>2. 1 \in 1 .. Len(toSlave) /\ toSlave[1] = Head(toSlave) /\ toSlave[1] \in C!ToSlave
  BY <1>1, TailElements
<1>3. Tail(toSlave) = SubSeq(toSlave, 2, Len(toSlave))
  BY <1>1, TailIsSubSeq
<1>4. toSlave[1].t = IF C!Expected(slave.st, toSlave, 1) = "size" THEN "req" ELSE C!Expected(slave.st, toSlave, 1)
  BY <1>1, <1>2 DEF C!InARow
<1>5. C!Expected(slave.st, toSlave, 1) = IF slave.st = "cmd" THEN "cmd" ELSE C!AfterCommand(slave.st)
  BY DEF C!Expected
<1>6. slave.st = "cmd" => toSlave[1].t = "cmd" /\ toSlave[1].c \in C!Commands
  BY <1>2, <1>4, <1>5, ItemShapes
<1>7. slave.st \in {"read", "download", "write", "upload"} => toSlave[1].t = "req"
  BY <1>4, <1>5 DEF C!AfterCommand
<1>8. C!Expected(slave.st, toSlave, 2) = C!AfterItem(toSlave[1], slave.st \in {"write", "upload"})
  BY DEF C!Expected, C!OfWrite
<1> QED BY <1>2, <1>3, <1>6, <1>7, <1>8, ItemShapes

LEMMA ConsentsShape ==
  ASSUME NEW c
  PROVE  /\ C!Consents(c) \in C!ToClient /\ C!Consents(c).t = "consent"
         /\ C!Consents(c) = C!Yes \/ C!Consents(c) = C!No
         /\ C!Consents(c).ok <=> C!Consents(c) = C!Yes
         /\ C!Consents(c).ok <=> ~(c \in {"write", "upload"} /\ ~slave.wr) /\ ~(c \in {"read", "download"} /\ ~slave.rd)
<1> DEFINE b == ~(c \in {"write", "upload"} /\ ~slave.wr) /\ ~(c \in {"read", "download"} /\ ~slave.rd)
<1>1. b \in BOOLEAN
  OBVIOUS
<1>2. C!Consents(c) = [t |-> "consent", ok |-> b]
  BY DEF C!Consents
<1> HIDE DEF b
<1>3. /\ C!Consents(c) \in C!ToClient /\ C!Consents(c).t = "consent"
      /\ C!Consents(c) = C!Yes \/ C!Consents(c) = C!No
      /\ C!Consents(c).ok <=> C!Consents(c) = C!Yes
      /\ C!Consents(c).ok <=> b
  <2>1. CASE b = TRUE
    BY <1>2, <2>1 DEF C!ToClient, C!Yes, C!No
  <2>2. CASE b = FALSE
    <3>1. C!Consents(c) = C!No
      BY <1>2, <2>2 DEF C!No
    <3>2. C!No \in C!ToClient /\ C!No.t = "consent" /\ C!No.ok = FALSE /\ C!No # C!Yes
      BY DEF C!ToClient, C!Yes, C!No
    <3> QED BY <2>2, <3>1, <3>2
  <2> QED BY <1>1, <2>1, <2>2
<1> QED BY <1>3 DEF b

LEMMA CommandKeepsBasics ==
  ASSUME ClientBasics, C!SlaveCommand
  PROVE  ClientBasics'
<1>1. C!TypeOK /\ C!OneFile /\ C!SizesKnown /\ C!CommandsInARow
  BY DEF ClientBasics
<1>2. /\ slave.st = "cmd" /\ toSlave # <<>> /\ toSlave' = Tail(toSlave)
      /\ UNCHANGED <<file, known, other, ending, opened, asked, cache, download, mixed, view, out, did, breaks, up, skew>>
  BY DEF C!SlaveCommand, C!data, C!client
<1>3. C!Serves
  BY <1>2 DEF C!Serves
<1> DEFINE c == Head(toSlave).c
<1>4. c \in C!Commands /\ toSlave[1].t = "cmd" /\ 1 \in 1 .. Len(toSlave) /\ toSlave[1] = Head(toSlave)
      /\ toSlave' = SubSeq(toSlave, 1 + 1, Len(toSlave))
  BY <1>1, <1>2, <1>3, FirstTaken
<1>5. slave' = [slave EXCEPT !.st = slave'.st] /\ slave'.file = slave.file /\ slave'.wr = slave.wr
      /\ \/ slave'.st = "end" /\ (UNCHANGED toClient \/ C!Answer(<<C!Consents(c)>>))
         \/ /\ slave'.st = c /\ c # "close" /\ C!Consents(c).ok /\ C!Answer(<<C!Consents(c)>>)
  <2>1. "st" \in DOMAIN slave /\ slave = [slave EXCEPT !.st = slave.st]
    BY <1>1 DEF C!TypeOK
  <2>2. CASE slave' = [slave EXCEPT !.st = "end"]
    <3>1. slave'.st = "end" /\ slave'.file = slave.file /\ slave'.wr = slave.wr
      BY <1>1, <2>2 DEF C!TypeOK
    <3>2. UNCHANGED toClient \/ C!Answer(<<C!Consents(c)>>)
      BY DEF C!SlaveCommand
    <3> QED BY <2>2, <3>1, <3>2
  <2>3. CASE slave' = [slave EXCEPT !.st = c] /\ c # "close" /\ C!Consents(c).ok /\ C!Answer(<<C!Consents(c)>>)
    <3>1. slave'.st = c /\ slave'.file = slave.file /\ slave'.wr = slave.wr
      BY <1>1, <2>3 DEF C!TypeOK
    <3> QED BY <2>3, <3>1
  <2> QED BY <2>2, <2>3 DEF C!SlaveCommand
<1> HIDE DEF c
<1>6. C!SizesKnown'
  <2>1. slave'.st \notin {"bye", "off"}
    BY <1>4, <1>5 DEF C!Commands
  <2>2. file' \in [ClientFiles -> Seq(Nat)]
    BY <1>1, <1>2 DEF C!TypeOK
  <2> QED BY <1>1, <1>2, <1>3, <1>5, <2>1, <2>2, SizesOfSlave
<1>7. toClient' \in Seq(C!ToClient)
  <2>1. toClient \in Seq(C!ToClient) /\ C!Consents(c) \in C!ToClient
    BY <1>1, ConsentsShape DEF C!TypeOK
  <2>2. toClient' = toClient \/ toClient' = toClient \o <<C!Consents(c)>>
    BY <1>5 DEF C!Answer
  <2> QED BY <2>1, <2>2, OneMore
<1>8. toSlave' \in Seq(C!ToSlave)
  BY <1>1, <1>2, TailElements DEF C!TypeOK
<1>9. C!CommandsInARow' /\ slave'.st \in {"read", "write", "download", "upload", "end"}
      /\ (slave'.st \in {"write", "upload"} => slave.wr)
  <2>1. CASE slave'.st = "end"
    BY <2>1 DEF C!CommandsInARow, C!Serves
  <2>2. CASE slave'.st = c /\ c # "close" /\ C!Consents(c).ok /\ C!Answer(<<C!Consents(c)>>)
    <3>1. c \in {"read", "write", "download", "upload"}
      BY <1>4, <2>2 DEF C!Commands
    <3>2. C!Expected(c, <<>>, 1) = C!Expected(slave.st, toSlave, 1 + 1)
      <4>1. C!Expected(slave.st, toSlave, 2) = C!AfterCommand(c)
        BY <1>1, <1>2, <1>3, <1>4, FirstTaken DEF C!AfterItem, c
      <4> QED BY <3>1, <4>1, AfterTaken
    <3>3. c \in {"write", "upload"} <=> C!OfWrite(slave.st, toSlave, 1)
      BY <1>4 DEF C!OfWrite, c
    <3>4. \A i \in 1 .. Len(toClient') : toClient'[i].t = "consent" => toClient'[i].ok
      <4> DEFINE items == <<C!Consents(c)>>
      <4>1. items \in Seq(C!ToClient) /\ \A i \in 1 .. Len(items) : items[i].t = "consent" => items[i].ok
        BY <2>2, ConsentsShape
      <4>2. C!Answer(items)
        BY <2>2
      <4> HIDE DEF items
      <4> QED BY <1>1, <1>3, <4>1, <4>2, Answering
    <3>5. C!CommandsInARow'
      BY <1>1, <1>2, <1>3, <1>4, <1>7, <2>2, <3>2, <3>3, <3>4, Taking1
    <3>6. c \in {"write", "upload"} => slave.wr
      BY <2>2, ConsentsShape
    <3> QED BY <2>2, <3>1, <3>5, <3>6
  <2> QED BY <1>5, <2>1, <2>2
<1>10. opened.open /\ ~up' => toSlave' = <<>> /\ toClient' = <<>>
  BY <1>1, <1>2 DEF C!OneFile
<1>11. /\ breaks' \in Nat /\ skew' \in BOOLEAN /\ up' \in BOOLEAN
       /\ file' \in [ClientFiles -> Seq(Nat)] /\ known' \in [ClientFiles -> Nat]
  BY <1>1, <1>2 DEF C!TypeOK
<1> QED BY <1>2, <1>5, <1>6, <1>7, <1>8, <1>9, <1>10, <1>11, SlaveTypes

LEMMA RestType ==
  ASSUME NEW s \in Seq(Nat), NEW o \in Nat
  PROVE  /\ SubSeq(s, o + 1, Len(s)) \in Seq(Nat)
         /\ Len(SubSeq(s, o + 1, Len(s))) = IF o < Len(s) THEN Len(s) - o ELSE 0
<1>1. Len(s) \in Nat /\ \A i \in 1 .. Len(s) : s[i] \in Nat
  BY LenProperties, ElementOfSeq
<1>2. \A i \in o + 1 .. Len(s) : s[i] \in Nat
  BY <1>1
<1>3. /\ SubSeq(s, o + 1, Len(s)) \in Seq(Nat)
      /\ Len(SubSeq(s, o + 1, Len(s))) = IF o + 1 <= Len(s) THEN Len(s) - (o + 1) + 1 ELSE 0
  BY <1>1, <1>2, SubSeqProperties
<1> QED BY <1>1, <1>3

LEMMA DataShapes ==
  ASSUME NEW q \in Seq([t : {"data"}, d : Seq(Nat)])
  PROVE  q \in Seq(C!ToClient) /\ \A i \in 1 .. Len(q) : q[i].t = "consent" => q[i].ok
<1>1. Len(q) \in Nat /\ \A i \in 1 .. Len(q) : q[i] \in [t : {"data"}, d : Seq(Nat)]
  BY LenProperties, ElementOfSeq
<1>2. \A i \in 1 .. Len(q) : q[i] \in C!ToClient
  BY <1>1 DEF C!ToClient
<1>3. q \in Seq(C!ToClient)
  <2>1. [t : {"data"}, d : Seq(Nat)] \subseteq C!ToClient
    BY DEF C!ToClient
  <2> QED BY <2>1, SeqMonotonic
<1> QED BY <1>1, <1>3

\* What the slave sends of its file.
LEMMA SendsShapes ==
  ASSUME ClientBasics, ClientAssumption, C!SlaveSends
  PROVE  /\ C!Serves /\ slave.st \in {"read", "download"} /\ toSlave # <<>> /\ toSlave' = Tail(toSlave)
         /\ UNCHANGED <<file, known, other, ending, opened, asked, cache, download, mixed, view, out, did, breaks, up>>
         /\ slave' = [slave EXCEPT !.st = "cmd"] /\ slave'.st = "cmd" /\ slave'.file = slave.file
         /\ slave'.rd = slave.rd /\ slave'.wr = slave.wr /\ skew' \in BOOLEAN
         /\ Head(toSlave).off \in Nat /\ Head(toSlave).n \in Int
         /\ \E items \in Seq([t : {"data"}, d : Seq(Nat)]) : C!Answer(items)
<1>1. C!TypeOK /\ C!CommandsInARow
  BY DEF ClientBasics
<1>2. /\ slave.st \in {"read", "download"} /\ toSlave # <<>> /\ toSlave' = Tail(toSlave)
      /\ UNCHANGED <<file, known, other, ending, opened, asked, cache, download, mixed, view, out, did, breaks, up>>
      /\ slave' = [slave EXCEPT !.st = "cmd"]
  BY DEF C!SlaveSends, C!data, C!client
<1>3. /\ slave'.st = "cmd" /\ slave'.file = slave.file /\ slave'.rd = slave.rd /\ slave'.wr = slave.wr
  BY <1>1, <1>2 DEF C!TypeOK
<1>4. C!Serves
  BY <1>2 DEF C!Serves
<1> DEFINE r == Head(toSlave)
           f == file[slave.file]
<1>5. r.off \in Nat /\ r.n \in Int
  BY <1>1, <1>2, <1>4, FirstTaken
<1>6. f \in Seq(Nat)
  BY <1>1, HandleTypes DEF C!TypeOK
<1>7. \/ /\ C!Answer(<<C!Block(C!Piece(f, r.off, r.n))>>) /\ UNCHANGED skew
      \/ /\ C!Answer(C!Blocks(SubSeq(f, r.off + 1, Len(f)))) /\ skew' = (skew \/ Len(f) # opened.size)
  BY DEF C!SlaveSends
<1> HIDE DEF r, f
<1>8. C!Piece(f, r.off, r.n) \in Seq(Nat) /\ SubSeq(f, r.off + 1, Len(f)) \in Seq(Nat)
  BY <1>5, <1>6, PieceType, RestType
<1>9. /\ <<C!Block(C!Piece(f, r.off, r.n))>> \in Seq([t : {"data"}, d : Seq(Nat)])
      /\ C!Blocks(SubSeq(f, r.off + 1, Len(f))) \in Seq([t : {"data"}, d : Seq(Nat)])
  <2>1. C!Block(C!Piece(f, r.off, r.n)) \in [t : {"data"}, d : Seq(Nat)]
    BY <1>8 DEF C!Block
  <2>2. \A x \in [t : {"data"}, d : Seq(Nat)] : <<x>> \in Seq([t : {"data"}, d : Seq(Nat)])
    OBVIOUS
  <2> QED BY <1>8, <2>1, <2>2, BlocksType
<1>10. skew' \in BOOLEAN
  BY <1>1, <1>7 DEF C!TypeOK
<1> QED BY <1>2, <1>3, <1>4, <1>5, <1>7, <1>9, <1>10 DEF r

LEMMA SendsKeepsBasics ==
  ASSUME ClientBasics, ClientAssumption, C!SlaveSends
  PROVE  ClientBasics'
<1>1. C!TypeOK /\ C!OneFile /\ C!SizesKnown /\ C!CommandsInARow
  BY DEF ClientBasics
<1>2. /\ C!Serves /\ slave.st \in {"read", "download"} /\ toSlave # <<>> /\ toSlave' = Tail(toSlave)
      /\ UNCHANGED <<file, known, other, ending, opened, asked, download, mixed, view, did, breaks, up>>
      /\ slave' = [slave EXCEPT !.st = "cmd"] /\ slave'.st = "cmd" /\ slave'.file = slave.file
      /\ slave'.rd = slave.rd /\ slave'.wr = slave.wr /\ skew' \in BOOLEAN
  BY SendsShapes
<1>3. PICK items \in Seq([t : {"data"}, d : Seq(Nat)]) : C!Answer(items)
  BY SendsShapes
<1>4. toClient' \in Seq(C!ToClient) /\ \A i \in 1 .. Len(toClient') : toClient'[i].t = "consent" => toClient'[i].ok
  BY <1>1, <1>2, <1>3, DataShapes, Answering
<1>5. C!SizesKnown'
  <2>1. file' \in [ClientFiles -> Seq(Nat)] /\ slave.st \notin {"bye", "off"}
    BY <1>1, <1>2 DEF C!TypeOK
  <2> QED BY <1>1, <1>2, <2>1, SizesOfSlave
<1>6. toSlave' \in Seq(C!ToSlave) /\ C!CommandsInARow'
  <2>1. /\ toSlave[1].t = "req" /\ 1 \in 1 .. Len(toSlave) /\ toSlave' = SubSeq(toSlave, 1 + 1, Len(toSlave))
    BY <1>1, <1>2, FirstTaken
  <2>2. C!Expected("cmd", <<>>, 1) = C!Expected(slave.st, toSlave, 1 + 1)
    <3>1. C!Expected("cmd", <<>>, 1) = "cmd"
      BY DEF C!Expected
    <3>2. C!Expected(slave.st, toSlave, 2) = "cmd"
      BY <1>1, <1>2, <2>1, FirstTaken DEF C!AfterItem
    <3> QED BY <3>1, <3>2
  <2>3. "cmd" \in {"write", "upload"} <=> C!OfWrite(slave.st, toSlave, 1)
    BY <2>1 DEF C!OfWrite
  <2> QED BY <1>1, <1>2, <1>4, <2>1, <2>2, <2>3, Taking1
<1>7. opened.open /\ ~up' => toSlave' = <<>> /\ toClient' = <<>>
  BY <1>1, <1>2 DEF C!OneFile
<1>8. /\ breaks' \in Nat /\ up' \in BOOLEAN
      /\ file' \in [ClientFiles -> Seq(Nat)] /\ known' \in [ClientFiles -> Nat]
  BY <1>1, <1>2 DEF C!TypeOK
<1> QED BY <1>2, <1>4, <1>5, <1>6, <1>7, <1>8, SlaveTypes

\* The parameters and the data of a write.
LEMMA PendingTyped ==
  ASSUME ClientBasics, C!Pending
  PROVE  /\ C!Serves /\ slave.st \in {"write", "upload"} /\ Len(toSlave) >= 2
         /\ toSlave[1].t = "req" /\ toSlave[1].off \in Nat /\ toSlave[2].t = "data" /\ toSlave[2].d \in Seq(Nat)
<1>1. C!TypeOK /\ C!CommandsInARow
  BY DEF ClientBasics
<1>2. slave.st \in {"write", "upload"} /\ Len(toSlave) >= 2
  BY DEF C!Pending
<1>3. C!Serves /\ toSlave # <<>>
  BY <1>2 DEF C!Serves
<1>4. toSlave[1].t = "req" /\ toSlave[1].off \in Nat /\ C!Expected(slave.st, toSlave, 2) = "data"
  BY <1>1, <1>2, <1>3, FirstTaken DEF C!AfterItem
<1>5. toSlave \in Seq(C!ToSlave) /\ 2 \in 1 .. Len(toSlave) /\ C!InARow(slave.st, toSlave)
  BY <1>1, <1>2, <1>3, LenProperties DEF C!TypeOK, C!CommandsInARow
<1>6. toSlave[2] \in C!ToSlave /\ toSlave[2].t = "data"
  BY <1>4, <1>5, ElementOfSeq DEF C!InARow
<1>7. toSlave[2].d \in Seq(Nat)
  BY <1>6, ItemShapes
<1> QED BY <1>2, <1>3, <1>4, <1>6, <1>7

LEMMA StoresShapes ==
  ASSUME ClientBasics, C!SlaveStores
  PROVE  /\ C!Serves /\ slave.st \in {"write", "upload"} /\ Len(toSlave) >= 2
         /\ toSlave' = SubSeq(toSlave, 3, Len(toSlave))
         /\ UNCHANGED <<known, other, ending, opened, asked, cache, download, mixed, view, out, did, breaks, up, skew, toClient>>
         /\ slave' = [slave EXCEPT !.st = "cmd"] /\ slave'.st = "cmd" /\ slave'.file = slave.file
         /\ slave'.rd = slave.rd /\ slave'.wr = slave.wr
         /\ toSlave[1].t = "req" /\ toSlave[1].off \in Nat /\ toSlave[2].t = "data" /\ toSlave[2].d \in Seq(Nat)
         /\ C!Expected(slave.st, toSlave, 3) = "cmd"
         /\ file' = [file EXCEPT ![slave.file] = C!Written(@, toSlave[1].off, toSlave[2].d)]
         /\ C!Written(file[slave.file], toSlave[1].off, toSlave[2].d) \in Seq(Nat)
<1>1. C!TypeOK /\ C!CommandsInARow
  BY DEF ClientBasics
<1>2. /\ slave.st \in {"write", "upload"} /\ Len(toSlave) >= 2
      /\ toSlave' = SubSeq(toSlave, 3, Len(toSlave))
      /\ UNCHANGED <<known, other, ending, opened, asked, cache, download, mixed, view, out, did, breaks, up, skew, toClient>>
      /\ slave' = [slave EXCEPT !.st = "cmd"]
      /\ file' = [file EXCEPT ![slave.file] = C!Written(@, toSlave[1].off, toSlave[2].d)]
  BY DEF C!SlaveStores, C!Pending, C!client
<1>3. /\ slave'.st = "cmd" /\ slave'.file = slave.file /\ slave'.rd = slave.rd /\ slave'.wr = slave.wr
  BY <1>1, <1>2 DEF C!TypeOK
<1>4. /\ C!Serves /\ toSlave[1].t = "req" /\ toSlave[1].off \in Nat
      /\ toSlave[2].t = "data" /\ toSlave[2].d \in Seq(Nat)
  BY PendingTyped DEF C!SlaveStores
<1>9. C!Expected(slave.st, toSlave, 3) = "cmd"
  BY <1>4 DEF C!Expected, C!AfterItem
<1>10. C!Written(file[slave.file], toSlave[1].off, toSlave[2].d) \in Seq(Nat)
  BY <1>1, <1>4, HandleTypes, WrittenType DEF C!TypeOK
<1> QED BY <1>2, <1>3, <1>4, <1>9, <1>10

LEMMA StoresKeepsBasics ==
  ASSUME ClientBasics, C!SlaveStores
  PROVE  ClientBasics'
<1> DEFINE w == C!Written(file[slave.file], toSlave[1].off, toSlave[2].d)
<1>1. C!TypeOK /\ C!OneFile /\ C!SizesKnown /\ C!CommandsInARow
  BY DEF ClientBasics
<1>2. /\ C!Serves /\ slave.st \in {"write", "upload"} /\ Len(toSlave) >= 2
      /\ toSlave' = SubSeq(toSlave, 3, Len(toSlave))
      /\ UNCHANGED <<known, other, ending, opened, asked, download, mixed, view, did, breaks, up, skew, toClient>>
      /\ slave' = [slave EXCEPT !.st = "cmd"] /\ slave'.st = "cmd" /\ slave'.file = slave.file
      /\ slave'.rd = slave.rd /\ slave'.wr = slave.wr
      /\ toSlave[1].off \in Nat /\ toSlave[2].t = "data" /\ toSlave[2].d \in Seq(Nat)
      /\ C!Expected(slave.st, toSlave, 3) = "cmd"
      /\ file' = [file EXCEPT ![slave.file] = w] /\ w \in Seq(Nat)
  BY StoresShapes
<1>3. Len(w) >= Len(file[slave.file])
  BY <1>1, <1>2, HandleTypes, WrittenType DEF C!TypeOK
<1> HIDE DEF w
<1>4. /\ file' \in [ClientFiles -> Seq(Nat)] /\ file'[slave.file] = w
      /\ \A g \in ClientFiles : g # slave.file => file'[g] = file[g]
  BY <1>1, <1>2 DEF C!TypeOK
<1>5. slave.wr
  BY <1>1, <1>2 DEF C!OneFile
<1>6. C!SizesKnown'
  <2>1. slave.st \notin {"bye", "off"} /\ slave'.st \notin {"bye", "off"}
    BY <1>2
  <2> QED BY <1>1, <1>2, <1>3, <1>4, <1>5, <2>1, SizesOfSlave
<1>7. toClient' \in Seq(C!ToClient) /\ \A i \in 1 .. Len(toClient') : toClient'[i].t = "consent" => toClient'[i].ok
  BY <1>1, <1>2 DEF C!TypeOK, C!CommandsInARow
<1>8. toSlave' \in Seq(C!ToSlave) /\ C!CommandsInARow'
  <2>1. 2 \in 1 .. Len(toSlave) /\ toSlave' = SubSeq(toSlave, 2 + 1, Len(toSlave))
    BY <1>1, <1>2, HandleTypes
  <2>2. C!Expected("cmd", <<>>, 1) = C!Expected(slave.st, toSlave, 2 + 1)
    BY <1>2 DEF C!Expected
  <2>3. "cmd" \in {"write", "upload"} <=> C!OfWrite(slave.st, toSlave, 2)
    BY <1>2 DEF C!OfWrite
  <2> QED BY <1>1, <1>2, <1>7, <2>1, <2>2, <2>3, Taking1
<1>9. opened.open /\ ~up' => toSlave' = <<>> /\ toClient' = <<>>
  <2>1. opened.open /\ ~up => FALSE
    BY <1>1, <1>2 DEF C!OneFile
  <2> QED BY <1>2, <2>1
<1>10. /\ breaks' \in Nat /\ up' \in BOOLEAN /\ skew' \in BOOLEAN /\ known' \in [ClientFiles -> Nat]
  BY <1>1, <1>2 DEF C!TypeOK
<1> QED BY <1>2, <1>4, <1>5, <1>6, <1>7, <1>8, <1>9, <1>10, SlaveTypes

\* The end of a session.
LEMMA EndsTo ==
  ASSUME ClientBasics, UNCHANGED <<file, other, ending, opened, asked, download, mixed, view, did, breaks, up, skew>>,
         NEW st \in {"end", "bye", "off"}, slave' = [slave EXCEPT !.st = st],
         toSlave' = toSlave \/ toSlave' = <<>>, st = "off" => toSlave' = <<>>,
         toClient' = toClient \/ (up /\ toClient' = toClient \o <<C!Yes>>),
         slave'.file = slave.file /\ slave'.wr = slave.wr => C!SizesKnown', known' \in [ClientFiles -> Nat]
  PROVE  ClientBasics'
<1>1. C!TypeOK /\ C!OneFile
  BY DEF ClientBasics
<1>2. slave'.st = st /\ slave'.file = slave.file /\ slave'.wr = slave.wr /\ slave' = [slave EXCEPT !.st = slave'.st]
  BY <1>1 DEF C!TypeOK
<1>3. toSlave' \in Seq(C!ToSlave) /\ toClient' \in Seq(C!ToClient) /\ (opened.open /\ ~up => toSlave' = <<>> /\ toClient' = <<>>)
  <2>1. toSlave \in Seq(C!ToSlave) /\ <<>> \in Seq(C!ToSlave) /\ toClient \in Seq(C!ToClient)
    BY <1>1 DEF C!TypeOK
  <2>2. C!Yes \in C!ToClient
    BY DEF C!Yes, C!ToClient
  <2>3. opened.open /\ ~up => toSlave = <<>> /\ toClient = <<>>
    BY <1>1 DEF C!OneFile
  <2> QED BY <2>1, <2>2, <2>3, OneMore
<1>4. C!CommandsInARow'
  BY <1>2 DEF C!CommandsInARow, C!Serves
<1>5. /\ breaks' \in Nat /\ up' \in BOOLEAN /\ skew' \in BOOLEAN
      /\ file' \in [ClientFiles -> Seq(Nat)]
  BY <1>1 DEF C!TypeOK
<1>6. slave'.st \notin {"write", "upload"} /\ (slave'.st = "off" => toSlave' = <<>>)
      /\ slave'.st \in {"off", "cmd", "read", "write", "download", "upload", "end", "bye"}
  BY <1>2
<1> QED BY <1>2, <1>3, <1>4, <1>5, <1>6, SlaveTypes

LEMMA EndingKeepsBasics ==
  ASSUME ClientBasics, C!SlaveNotReceived \/ C!SlaveReports \/ C!SlaveEnds
  PROVE  ClientBasics'
<1>1. C!TypeOK /\ C!OneFile /\ C!SizesKnown /\ C!CommandsInARow
  BY DEF ClientBasics
<1>2. UNCHANGED <<file, other, ending, opened, asked, download, mixed, view, did, breaks, up, skew>>
  BY DEF C!SlaveNotReceived, C!SlaveReports, C!SlaveEnds, C!data, C!client
<1>3. file' \in [ClientFiles -> Seq(Nat)]
  BY <1>1, <1>2 DEF C!TypeOK
<1>4. ASSUME NEW st, slave' = [slave EXCEPT !.st = st]
      PROVE  slave'.st = st
  BY <1>1, <1>4 DEF C!TypeOK
<1>5. CASE C!SlaveNotReceived
  <2>1. /\ slave.st \notin {"end", "bye", "off"} /\ slave' = [slave EXCEPT !.st = "end"]
        /\ UNCHANGED <<known, toSlave, toClient>>
    BY <1>5 DEF C!SlaveNotReceived, C!data
  <2>2. slave'.file = slave.file /\ slave'.wr = slave.wr => C!SizesKnown'
    BY <1>1, <1>2, <1>3, <1>4, <2>1, SizesOfSlave
  <2> QED BY <1>1, <1>2, <2>1, <2>2, EndsTo DEF C!TypeOK
<1>6. CASE C!SlaveEnds
  <2>1. /\ slave.st = "bye" /\ slave' = [slave EXCEPT !.st = "off"] /\ toSlave' = <<>>
        /\ C!Answer(<<C!Yes>>) /\ UNCHANGED known
    BY <1>6 DEF C!SlaveEnds, C!data, C!Yes
  <2>2. toClient' = toClient \/ (up /\ toClient' = toClient \o <<C!Yes>>)
    BY <2>1 DEF C!Answer
  <2>3. slave'.file = slave.file /\ slave'.wr = slave.wr => C!SizesKnown'
    BY <1>1, <1>2, <1>3, <1>4, <2>1, SizesOfSlave DEF C!Serves
  <2> QED BY <1>1, <1>2, <2>1, <2>2, <2>3, EndsTo DEF C!TypeOK
<1>7. CASE C!SlaveReports
  <2>1. /\ slave.st = "end" /\ slave' = [slave EXCEPT !.st = "bye"] /\ UNCHANGED <<toSlave, toClient>>
        /\ known' = IF slave.wr THEN [known EXCEPT ![slave.file] = Len(file[slave.file])] ELSE known
    BY <1>7 DEF C!SlaveReports
  <2>2. slave.file \in ClientFiles /\ Len(file[slave.file]) \in Nat /\ known \in [ClientFiles -> Nat]
    BY <1>1, HandleTypes, LenProperties DEF C!TypeOK
  <2>3. known' \in [ClientFiles -> Nat]
    BY <2>1, <2>2
  <2>4. ASSUME NEW g \in ClientFiles
        PROVE  known'[g] = IF slave.wr /\ g = slave.file THEN Len(file[g]) ELSE known[g]
    BY <2>1, <2>2
  <2>5. ASSUME NEW g \in ClientFiles, C!WriteLocked(g), ~(slave.wr /\ g = slave.file)
        PROVE  C!WriteLocked(g)'
    BY <1>2, <2>5 DEF C!WriteLocked, C!Session
  <2>6. ASSUME NEW g \in ClientFiles
        PROVE  known'[g] <= Len(file'[g]) /\ (known'[g] # Len(file'[g]) => C!WriteLocked(g)')
    <3>1. Len(file[g]) \in Nat /\ file'[g] = file[g]
      BY <1>1, <1>2, LenProperties DEF C!TypeOK
    <3>2. known[g] <= Len(file[g]) /\ (known[g] # Len(file[g]) => C!WriteLocked(g))
      BY <1>1 DEF C!SizesKnown
    <3> QED BY <2>4, <2>5, <3>1, <3>2
  <2>7. slave'.st \in {"bye", "off"}
    BY <1>4, <2>1
  <2>8. C!SizesKnown'
    BY <2>6, <2>7 DEF C!SizesKnown
  <2> QED BY <1>1, <1>2, <2>1, <2>3, <2>8, EndsTo
<1> QED BY <1>5, <1>6, <1>7

LEMMA BreakKeepsBasics ==
  ASSUME ClientBasics, C!Break
  PROVE  ClientBasics'
<1>1. C!TypeOK /\ C!OneFile /\ C!SizesKnown /\ C!CommandsInARow
  BY DEF ClientBasics
<1>2. /\ up' = FALSE /\ toSlave' = <<>> /\ toClient' = <<>> /\ breaks' \in {breaks, breaks + 1}
      /\ UNCHANGED <<file, known, other, ending, opened, asked, download, mixed, view, did, slave, skew>>
  BY DEF C!Break, C!data, C!client
<1>3. C!SizesKnown'
  BY <1>1, <1>2, SizesFrame
<1>4. C!CommandsInARow'
  <2>1. C!InARow(slave.st, <<>>)
    BY DEF C!InARow
  <2>2. Len(toClient') = 0 /\ slave' = slave
    BY <1>2
  <2> QED BY <1>2, <2>1, <2>2 DEF C!CommandsInARow
<1>5. C!TypeOK'
  <2>1. breaks \in Nat
    BY <1>1 DEF C!TypeOK
  <2>2. breaks' \in Nat
    BY <1>2, <2>1
  <2>3. toSlave' \in Seq(C!ToSlave) /\ toClient' \in Seq(C!ToClient) /\ up' \in BOOLEAN
    <3>1. toSlave' = <<>> /\ toClient' = <<>>
      BY <1>2
    <3>2. up' \in BOOLEAN
      BY <1>2
    <3> QED BY <3>1, <3>2
  <2> QED BY <1>1, <1>2, <2>2, <2>3 DEF C!TypeOK
<1>6. C!OneFile'
  <2>1. asked # C!Idle => opened.open
    BY <1>1 DEF C!OneFile
  <2> QED BY <1>1, <1>2, <2>1 DEF C!OneFile
<1> QED BY <1>3, <1>4, <1>5, <1>6 DEF ClientBasics

\* The session that was left, and the other client.
LEMMA OthersKeepBasics ==
  ASSUME ClientBasics,
         (\E s \in ending : C!ReportsLate(s)) \/ (\E f \in ClientFiles : C!OtherOpens(f) \/ C!OtherAppends(f) \/ C!OtherCloses(f))
  PROVE  ClientBasics'
<1>1. C!TypeOK /\ C!OneFile /\ C!SizesKnown /\ C!CommandsInARow
  BY DEF ClientBasics
<1>2. /\ UNCHANGED <<opened, asked, download, mixed, view, breaks, up, toSlave, toClient, slave, skew>>
      /\ did' \in {did, did + 1}
  BY DEF C!ReportsLate, C!OtherOpens, C!OtherAppends, C!OtherCloses, C!client, C!session
<1>3. C!CommandsInARow' /\ C!OneFile'
  BY <1>1, <1>2 DEF C!CommandsInARow, C!OneFile, C!Serves, C!Owes
<1>4. /\ file \in [ClientFiles -> Seq(Nat)] /\ known \in [ClientFiles -> Nat] /\ other \subseteq ClientFiles
      /\ ending \subseteq [file : ClientFiles, wr : BOOLEAN]
      /\ \A g \in ClientFiles : Len(file[g]) \in Nat
  BY <1>1, LenProperties DEF C!TypeOK
<1>5. \A g \in ClientFiles : known[g] <= Len(file[g]) /\ (known[g] # Len(file[g]) => C!WriteLocked(g))
  BY <1>1 DEF C!SizesKnown
<1>6. SUFFICES /\ file' \in [ClientFiles -> Seq(Nat)] /\ known' \in [ClientFiles -> Nat] /\ other' \subseteq ClientFiles
               /\ ending' \subseteq [file : ClientFiles, wr : BOOLEAN]
               /\ \A g \in ClientFiles : known'[g] <= Len(file'[g]) /\ (known'[g] # Len(file'[g]) => C!WriteLocked(g)')
               /\ slave.wr /\ slave.st \notin {"bye", "off"} => slave.file \notin other'
  <2>1. did' \in Nat
    BY <1>1, <1>2 DEF C!TypeOK
  <2>2. C!TypeOK'
    BY <1>1, <1>2, <1>6, <2>1 DEF C!TypeOK
  <2>3. slave' = slave
    BY <1>2
  <2>4. C!SizesKnown'
    BY <1>6, <2>3 DEF C!SizesKnown
  <2> QED BY <1>3, <2>2, <2>4 DEF ClientBasics
<1>7. slave.wr /\ slave.st \notin {"bye", "off"} => slave.file \notin other
  BY <1>1 DEF C!SizesKnown
<1>8. (C!Session)' = C!Session /\ slave' = slave
  BY <1>2 DEF C!Session
<1>9. ASSUME NEW s \in ending, C!ReportsLate(s)
      PROVE  /\ file' \in [ClientFiles -> Seq(Nat)] /\ known' \in [ClientFiles -> Nat] /\ other' \subseteq ClientFiles
             /\ ending' \subseteq [file : ClientFiles, wr : BOOLEAN]
             /\ \A g \in ClientFiles : known'[g] <= Len(file'[g]) /\ (known'[g] # Len(file'[g]) => C!WriteLocked(g)')
             /\ slave.wr /\ slave.st \notin {"bye", "off"} => slave.file \notin other'
  <2>1. /\ ending' = ending \ {s} /\ UNCHANGED <<file, other>>
        /\ known' = IF s.wr THEN [known EXCEPT ![s.file] = Len(file[s.file])] ELSE known
        /\ s.file \in ClientFiles /\ s.wr \in BOOLEAN
    BY <1>4, <1>9 DEF C!ReportsLate
  <2>2. known' \in [ClientFiles -> Nat] /\ \A g \in ClientFiles : known'[g] = IF s.wr /\ s.file = g THEN Len(file[g]) ELSE known[g]
    BY <1>4, <2>1
  <2>3. ASSUME NEW g \in ClientFiles, C!WriteLocked(g), ~(s.wr /\ s.file = g)
        PROVE  C!WriteLocked(g)'
    BY <1>8, <2>1, <2>3 DEF C!WriteLocked
  <2>4. \A g \in ClientFiles : known'[g] <= Len(file'[g]) /\ (known'[g] # Len(file'[g]) => C!WriteLocked(g)')
    <3> TAKE g \in ClientFiles
    <3>1. Len(file[g]) \in Nat /\ file'[g] = file[g]
      BY <1>4, <2>1
    <3> QED BY <1>5, <2>2, <2>3, <3>1
  <2> QED BY <1>4, <1>7, <2>1, <2>2, <2>4
<1>10. ASSUME NEW f \in ClientFiles, C!OtherOpens(f)
       PROVE  /\ file' \in [ClientFiles -> Seq(Nat)] /\ known' \in [ClientFiles -> Nat] /\ other' \subseteq ClientFiles
              /\ ending' \subseteq [file : ClientFiles, wr : BOOLEAN]
              /\ \A g \in ClientFiles : known'[g] <= Len(file'[g]) /\ (known'[g] # Len(file'[g]) => C!WriteLocked(g)')
              /\ slave.wr /\ slave.st \notin {"bye", "off"} => slave.file \notin other'
  <2>1. UNCHANGED <<file, known, ending>> /\ other' = other \cup {f} /\ ~C!WriteLocked(f)
    BY <1>10 DEF C!OtherOpens, C!session
  <2>2. \A g : C!WriteLocked(g) => C!WriteLocked(g)'
    BY <1>8, <2>1 DEF C!WriteLocked
  <2>3. ASSUME slave.wr, slave.st \notin {"bye", "off"}, slave.file = f
        PROVE  FALSE
    <3>1. C!Session.file = f /\ C!Session.wr
      BY <2>3 DEF C!Session
    <3> QED BY <2>1, <2>3, <3>1 DEF C!WriteLocked
  <2> QED BY <1>4, <1>5, <1>7, <2>1, <2>2, <2>3
<1>11. ASSUME NEW f \in ClientFiles, C!OtherAppends(f)
       PROVE  /\ file' \in [ClientFiles -> Seq(Nat)] /\ known' \in [ClientFiles -> Nat] /\ other' \subseteq ClientFiles
              /\ ending' \subseteq [file : ClientFiles, wr : BOOLEAN]
              /\ \A g \in ClientFiles : known'[g] <= Len(file'[g]) /\ (known'[g] # Len(file'[g]) => C!WriteLocked(g)')
              /\ slave.wr /\ slave.st \notin {"bye", "off"} => slave.file \notin other'
  <2>1. UNCHANGED <<known, other, ending>> /\ file' = [file EXCEPT ![f] = Append(@, 1)] /\ f \in other
    BY <1>11 DEF C!OtherAppends, C!session
  <2>2. /\ Append(file[f], 1) \in Seq(Nat) /\ Len(Append(file[f], 1)) = Len(file[f]) + 1
    BY <1>4
  <2>3. file' \in [ClientFiles -> Seq(Nat)] /\ file'[f] = Append(file[f], 1) /\ \A g \in ClientFiles : g # f => file'[g] = file[g]
    BY <1>4, <2>1, <2>2
  <2>4. \A g : C!WriteLocked(g) => C!WriteLocked(g)'
    BY <1>8, <2>1 DEF C!WriteLocked
  <2>5. C!WriteLocked(f)'
    BY <2>1 DEF C!WriteLocked
  <2>6. \A g \in ClientFiles : known'[g] <= Len(file'[g]) /\ (known'[g] # Len(file'[g]) => C!WriteLocked(g)')
    <3> TAKE g \in ClientFiles
    <3>1. Len(file[g]) \in Nat /\ known[g] \in Nat /\ known'[g] = known[g]
      BY <1>4, <2>1
    <3>2. CASE g = f
      BY <1>5, <2>2, <2>3, <2>5, <3>1, <3>2
    <3>3. CASE g # f
      BY <1>5, <2>3, <2>4, <3>1, <3>3
    <3> QED BY <3>2, <3>3
  <2> QED BY <1>4, <1>7, <2>1, <2>3, <2>6
<1>12. ASSUME NEW f \in ClientFiles, C!OtherCloses(f)
       PROVE  /\ file' \in [ClientFiles -> Seq(Nat)] /\ known' \in [ClientFiles -> Nat] /\ other' \subseteq ClientFiles
              /\ ending' \subseteq [file : ClientFiles, wr : BOOLEAN]
              /\ \A g \in ClientFiles : known'[g] <= Len(file'[g]) /\ (known'[g] # Len(file'[g]) => C!WriteLocked(g)')
              /\ slave.wr /\ slave.st \notin {"bye", "off"} => slave.file \notin other'
  <2>1. UNCHANGED <<file, ending>> /\ other' = other \ {f} /\ known' = [known EXCEPT ![f] = Len(file[f])]
    BY <1>12 DEF C!OtherCloses, C!session
  <2>2. known' \in [ClientFiles -> Nat] /\ \A g \in ClientFiles : known'[g] = IF g = f THEN Len(file[g]) ELSE known[g]
    BY <1>4, <2>1
  <2>3. ASSUME NEW g \in ClientFiles, C!WriteLocked(g), g # f
        PROVE  C!WriteLocked(g)'
    BY <1>8, <2>1, <2>3 DEF C!WriteLocked
  <2>4. \A g \in ClientFiles : known'[g] <= Len(file'[g]) /\ (known'[g] # Len(file'[g]) => C!WriteLocked(g)')
    <3> TAKE g \in ClientFiles
    <3>1. Len(file[g]) \in Nat /\ file'[g] = file[g]
      BY <1>4, <2>1
    <3> QED BY <1>5, <2>2, <2>3, <3>1
  <2> QED BY <1>4, <1>7, <2>1, <2>2, <2>4
<1> QED BY <1>9, <1>10, <1>11, <1>12

\* What a thread stores late is of a file that is locked for its session.
LEMMA LateShapes ==
  ASSUME ClientBasics, C!LateHeld, NEW x \in late, NEW n \in 0 .. Len(x.d), C!StoresLate(x, n)
  PROVE  /\ x.file \in ClientFiles /\ x.off \in Nat /\ C!WriteLocked(x.file)
         /\ late' = late \ {x}
         /\ UNCHANGED <<known, other, found, ending, opened, asked, cache, stats, download, view, out, up, toSlave, toClient,
                       slave, did, breaks>>
         /\ file' \in [ClientFiles -> Seq(Nat)]
         /\ \A g \in ClientFiles : Len(file[g]) \in Nat /\ Len(file'[g]) >= Len(file[g]) /\ (g # x.file => file'[g] = file[g])
<1> DEFINE d == SubSeq(x.d, 1, n)  w == C!Written(file[x.file], x.off, d)
<1>1. C!TypeOK
  BY DEF ClientBasics
<1>2. /\ x.file \in ClientFiles /\ x.off \in Nat /\ x.d \in Seq(Nat) /\ C!WriteLocked(x.file)
  BY DEF C!LateHeld
<1>3. d \in Seq(Nat)
  <2>1. Len(x.d) \in Nat /\ n \in Nat /\ n <= Len(x.d)
    BY <1>2, LenProperties
  <2>2. \A i \in 1 .. n : x.d[i] \in Nat
    BY <1>2, <2>1, ElementOfSeq
  <2> QED BY <1>2, <2>1, <2>2, SubSeqProperties
<1>4. /\ file \in [ClientFiles -> Seq(Nat)] /\ file[x.file] \in Seq(Nat)
      /\ \A g \in ClientFiles : Len(file[g]) \in Nat
  BY <1>1, <1>2, LenProperties DEF C!TypeOK
<1>5. /\ file' = [file EXCEPT ![x.file] = w] /\ late' = late \ {x}
      /\ UNCHANGED <<known, other, found, ending, opened, asked, cache, stats, download, view, out, up, toSlave, toClient,
                    slave, did, breaks>>
  BY DEF C!StoresLate
<1> HIDE DEF d
<1>6. w \in Seq(Nat) /\ Len(w) >= Len(file[x.file])
  BY <1>2, <1>3, <1>4, WrittenType
<1> HIDE DEF w
<1>7. file' \in [ClientFiles -> Seq(Nat)] /\ file'[x.file] = w /\ \A g \in ClientFiles : g # x.file => file'[g] = file[g]
  BY <1>2, <1>4, <1>5, <1>6
<1>8. \A g \in ClientFiles : Len(file[g]) \in Nat /\ Len(file'[g]) >= Len(file[g]) /\ (g # x.file => file'[g] = file[g])
  <2> TAKE g \in ClientFiles
  <2>1. CASE g = x.file
    BY <1>4, <1>6, <1>7, <2>1
  <2>2. CASE g # x.file
    BY <1>4, <1>7, <2>2
  <2> QED BY <2>1, <2>2
<1> QED BY <1>2, <1>5, <1>7, <1>8

LEMMA LateKeepsBasics ==
  ASSUME ClientBasics, C!LateHeld, NEW x \in late, NEW n \in 0 .. Len(x.d), C!StoresLate(x, n)
  PROVE  ClientBasics'
<1>1. C!TypeOK /\ C!OneFile /\ C!SizesKnown /\ C!CommandsInARow
  BY DEF ClientBasics
<1>2. /\ C!WriteLocked(x.file) /\ file' \in [ClientFiles -> Seq(Nat)]
      /\ UNCHANGED <<known, other, ending, opened, asked, download, view, up, toSlave, toClient, slave, did, breaks>>
      /\ \A g \in ClientFiles : Len(file[g]) \in Nat /\ Len(file'[g]) >= Len(file[g]) /\ (g # x.file => file'[g] = file[g])
  BY LateShapes
<1>3. mixed' \in BOOLEAN /\ skew' \in BOOLEAN
  BY DEF C!StoresLate
<1>4. C!TypeOK'
  BY <1>1, <1>2, <1>3 DEF C!TypeOK
<1>5. C!OneFile' /\ C!CommandsInARow'
  BY <1>1, <1>2 DEF C!OneFile, C!CommandsInARow, C!Serves, C!Owes
<1>6. \A g : C!WriteLocked(g) => C!WriteLocked(g)'
  BY <1>2 DEF C!WriteLocked, C!Session
<1>7. \A g \in ClientFiles : known'[g] <= Len(file'[g]) /\ (known'[g] # Len(file'[g]) => C!WriteLocked(g)')
  <2> TAKE g \in ClientFiles
  <2>1. known[g] \in Nat /\ known'[g] = known[g] /\ Len(file[g]) \in Nat /\ Len(file'[g]) >= Len(file[g])
    BY <1>1, <1>2 DEF C!TypeOK
  <2>2. Len(file'[g]) \in Nat
    BY <1>2, LenProperties
  <2>3. known[g] <= Len(file[g]) /\ (known[g] # Len(file[g]) => C!WriteLocked(g))
    BY <1>1 DEF C!SizesKnown
  <2>4. CASE g = x.file
    BY <1>2, <1>6, <2>1, <2>2, <2>3, <2>4
  <2>5. CASE g # x.file
    BY <1>2, <1>6, <2>1, <2>3, <2>5
  <2> QED BY <2>4, <2>5
<1>8. C!SizesKnown'
  <2>1. slave' = slave /\ other' = other
    BY <1>2
  <2> QED BY <1>1, <1>7, <2>1 DEF C!SizesKnown
<1> QED BY <1>4, <1>5, <1>8 DEF ClientBasics

\* What the master does before it locks.
MasterLooks ==
  \/ \E f \in ClientFiles, spelled, rd, wr, append \in BOOLEAN : C!LookUp(f, spelled, rd, wr, append)
  \/ C!Refused

LEMMA LooksKeepBasics ==
  ASSUME ClientBasics, MasterLooks
  PROVE  ClientBasics'
<1>1. /\ UNCHANGED <<file, known, other, opened, asked, download, mixed, view, up, toSlave, toClient, slave, ending, skew, breaks>>
      /\ did' \in {did, did + 1}
  BY DEF MasterLooks, C!LookUp, C!Refused, C!client, C!session
<1>2. C!TypeOK /\ C!OneFile /\ C!SizesKnown /\ C!CommandsInARow
  BY DEF ClientBasics
<1>3. did' \in Nat
  BY <1>1, <1>2 DEF C!TypeOK
<1>4. C!TypeOK'
  BY <1>1, <1>2, <1>3 DEF C!TypeOK
<1>5. C!OneFile'
  BY <1>1, <1>2 DEF C!OneFile
<1>6. C!SizesKnown'
  BY <1>1, <1>2, SizesFrame
<1>7. C!CommandsInARow'
  BY <1>1, <1>2 DEF C!CommandsInARow, C!Serves, C!Owes
<1> QED BY <1>4, <1>5, <1>6, <1>7 DEF ClientBasics

LEMMA StutterKeepsBasics ==
  ASSUME ClientBasics, UNCHANGED C!vars
  PROVE  ClientBasics'
<1>1. UNCHANGED <<file, known, other, opened, asked, cache, stats, download, mixed, view, out, up, toSlave, toClient, slave, ending, skew, did, breaks>>
  BY DEF C!vars, C!data, C!client, C!session
<1>2. C!TypeOK /\ C!OneFile /\ C!SizesKnown /\ C!CommandsInARow
  BY DEF ClientBasics
<1>3. C!TypeOK'
  BY <1>1, <1>2 DEF C!TypeOK
<1>4. C!OneFile'
  BY <1>1, <1>2 DEF C!OneFile
<1>5. C!SizesKnown'
  BY <1>1, <1>2, SizesFrame
<1>6. C!CommandsInARow'
  BY <1>1, <1>2 DEF C!CommandsInARow, C!Serves, C!Owes
<1> QED BY <1>3, <1>4, <1>5, <1>6 DEF ClientBasics

LEMMA ClosedShape ==
  ASSUME ClientAssumption
  PROVE  /\ C!Closed \in C!Handles /\ ~C!Closed.open /\ C!Closed.file \in ClientFiles
         /\ C!Closed.rd = FALSE /\ C!Closed.wr = FALSE
         /\ C!Closed.size = 0 /\ C!Closed.rpos = 0
<1>1. PICK f : f \in ClientFiles
  BY DEF ClientAssumption
<1> DEFINE c == CHOOSE g \in ClientFiles : TRUE
<1>2. c \in ClientFiles
  BY <1>1
<1>3. C!Closed = [open |-> FALSE, file |-> c, spelled |-> TRUE, rd |-> FALSE, wr |-> FALSE,
                  size |-> 0, rpos |-> 0, wpos |-> 0, local |-> FALSE]
  BY DEF C!Closed
<1> HIDE DEF c
<1> QED BY <1>2, <1>3 DEF C!Handles

LEMMA InitBasics ==
  ASSUME C!Init, ClientAssumption
  PROVE  ClientBasics
<1> DEFINE two == <<1, 1>>
<1>1. two \in Seq(Nat) /\ Len(two) = 2
  OBVIOUS
<1>2. /\ file = [f \in ClientFiles |-> two] /\ known = [f \in ClientFiles |-> 2] /\ other = {}
      /\ opened = C!Closed /\ asked = C!Idle /\ download = <<>> /\ (mixed = FALSE) /\ view = <<>> /\ ending = {}
      /\ (up = FALSE) /\ toSlave = <<>> /\ toClient = <<>> /\ (skew = FALSE)
      /\ slave = [st |-> "off", file |-> opened.file, rd |-> FALSE, wr |-> FALSE] /\ did = 0 /\ breaks = 0
  BY DEF C!Init
<1> HIDE DEF two
<1>3. /\ file \in [ClientFiles -> Seq(Nat)] /\ known \in [ClientFiles -> Nat]
      /\ \A f \in ClientFiles : file[f] = two /\ known[f] = 2
  BY <1>1, <1>2
<1>4. C!TypeOK
  <2>1. opened \in C!Handles /\ opened.file \in ClientFiles
    BY <1>2, ClosedShape
  <2>2. asked \in C!Calls
    BY <1>2 DEF C!Calls
  <2>3. slave \in [st : {"off", "cmd", "read", "write", "download", "upload", "end", "bye"},
                   file : ClientFiles, rd : BOOLEAN, wr : BOOLEAN]
    BY <1>2, <2>1
  <2>4. /\ toSlave \in Seq(C!ToSlave) /\ toClient \in Seq(C!ToClient) /\ download \in Seq(Nat) /\ view \in Seq(Nat)
        /\ ending \subseteq [file : ClientFiles, wr : BOOLEAN] /\ other \subseteq ClientFiles
    BY <1>2
  <2>5. up \in BOOLEAN /\ mixed \in BOOLEAN /\ skew \in BOOLEAN /\ did \in Nat /\ breaks \in Nat
    BY <1>2
  <2> QED BY <1>3, <2>1, <2>2, <2>3, <2>4, <2>5 DEF C!TypeOK
<1>5. C!OneFile
  <2>1. slave.file = opened.file /\ slave.rd = FALSE /\ slave.wr = FALSE /\ slave.st = "off"
    BY <1>2
  <2>2. slave.rd = opened.rd /\ slave.wr = opened.wr /\ ~opened.open
    BY <1>2, <2>1, ClosedShape
  <2> QED BY <1>2, <2>1, <2>2 DEF C!OneFile
<1>6. C!SizesKnown
  <2>1. slave.wr = FALSE
    BY <1>2
  <2>2. \A f \in ClientFiles : known[f] = 2 /\ Len(file[f]) = 2
    BY <1>1, <1>3
  <2>3. \A f \in ClientFiles : known[f] = Len(file[f]) /\ known[f] <= Len(file[f])
    <3> TAKE f \in ClientFiles
    <3>1. known[f] = 2 /\ Len(file[f]) = 2
      BY <2>2
    <3>2. 2 <= 2
      OBVIOUS
    <3> QED BY <3>1, <3>2
  <2> QED BY <2>1, <2>2, <2>3 DEF C!SizesKnown
<1>7. C!CommandsInARow
  BY <1>2 DEF C!CommandsInARow, C!Serves
<1> QED BY <1>4, <1>5, <1>6, <1>7 DEF ClientBasics

LEMMA StepKeepsBasics ==
  ASSUME ClientBasics, C!LateHeld, C!FoundThere, ClientAssumption, [C!Next]_C!vars
  PROVE  ClientBasics'
<1>1. CASE UNCHANGED C!vars
  BY <1>1, StutterKeepsBasics
<1>2. CASE C!Open \/ MasterLooks
  BY <1>2, OpenKeepsBasics, LooksKeepBasics
<1>3. CASE \E n \in 1 .. 2, ahead \in {0, Ahead} : C!Read(n, ahead)
  BY <1>3, ReadKeepsBasics
<1>4. CASE (\E n \in 1 .. 2 : C!Write(n)) \/ (\E cont \in BOOLEAN : C!Download(cont)) \/ C!Upload(2)
  BY <1>4, WriteKeepsBasics, DownloadKeepsBasics, UploadKeepsBasics
<1>5. CASE (\E g \in BOOLEAN, p \in {0, 1} : C!Seek(g, p)) \/ C!Close
  BY <1>5, SeekKeepsBasics, CloseKeepsBasics
<1>6. CASE C!Consent \/ C!Received \/ C!DownloadEmpty \/ C!NotReceived
  BY <1>6, ConsentKeepsBasics, ReceivedKeepsBasics, EndsKeepBasics
<1>7. CASE C!SlaveCommand \/ C!SlaveSends \/ C!SlaveStores
  BY <1>7, CommandKeepsBasics, SendsKeepsBasics, StoresKeepsBasics
<1>8. CASE C!SlaveNotReceived \/ C!SlaveReports \/ C!SlaveEnds \/ C!Break
  BY <1>8, EndingKeepsBasics, BreakKeepsBasics
<1>9. CASE (\E s \in ending : C!ReportsLate(s)) \/ (\E f \in ClientFiles : C!OtherOpens(f) \/ C!OtherAppends(f) \/ C!OtherCloses(f))
  BY <1>9, OthersKeepBasics
<1>10. CASE \E x \in late : \E n \in 0 .. Len(x.d) : C!StoresLate(x, n)
  BY <1>10, LateKeepsBasics
<1> QED BY <1>1, <1>2, <1>3, <1>4, <1>5, <1>6, <1>7, <1>8, <1>9, <1>10 DEF C!Next, MasterLooks

-----------------------------------------------------------------------------
(* What is stored late, and what the master has looked up. *)

\* The steps that are neither of a session's end nor of the master.
Aside == <<found, other, ending, late>>

ClientCalls ==
  \/ \E n \in 1 .. 2, ahead \in {0, Ahead} : C!Read(n, ahead)
  \/ \E n \in 1 .. 2 : C!Write(n)
  \/ \E cont \in BOOLEAN : C!Download(cont)
  \/ C!Upload(2) \/ C!Close
  \/ \E g \in BOOLEAN, p \in {0, 1} : C!Seek(g, p)
  \/ C!Consent \/ C!Received \/ C!DownloadEmpty \/ C!NotReceived

LEMMA CallsAside ==
  ASSUME ClientBasics, ClientCalls
  PROVE  UNCHANGED <<file, slave>> /\ UNCHANGED Aside /\ (up' => up) /\ (opened'.open => opened.open)
<1>1. asked # C!Idle => opened.open
  BY DEF ClientBasics, C!OneFile
<1>2. ASSUME \/ \E n \in 1 .. 2, ahead \in {0, Ahead} : C!Read(n, ahead)
             \/ \E n \in 1 .. 2 : C!Write(n)
             \/ \E cont \in BOOLEAN : C!Download(cont)
             \/ C!Upload(2) \/ C!Close
             \/ \E g \in BOOLEAN, p \in {0, 1} : C!Seek(g, p)
      PROVE  UNCHANGED <<file, slave, found, other, ending, late, up>> /\ opened.open
  BY <1>2 DEF C!Read, C!Write, C!Download, C!Upload, C!Close, C!Seek, C!Ready, C!data, C!session
<1>3. ASSUME C!Consent \/ C!Received \/ C!DownloadEmpty \/ C!NotReceived
      PROVE  UNCHANGED <<file, slave, found, other, ending, late>> /\ (up' => up) /\ asked # C!Idle
  BY <1>3 DEF C!Consent, C!Received, C!DownloadEmpty, C!NotReceived, C!ClosedNow, C!data, C!session
<1> QED BY <1>1, <1>2, <1>3 DEF ClientCalls, Aside

LEMMA HeldFrame ==
  ASSUME C!LateHeld, C!TypeOK, UNCHANGED <<other, ending, late>>, up' => up,
         slave'.file = slave.file, slave'.wr = slave.wr,
         slave.st \notin {"bye", "off"} => slave'.st \notin {"bye", "off"}
  PROVE  C!LateHeld'
<1>1. \A g : C!WriteLocked(g) => C!WriteLocked(g)'
  BY DEF C!WriteLocked, C!Session
<1> QED BY <1>1 DEF C!LateHeld

LEMMA FoundFrame ==
  ASSUME C!FoundThere, ClientBasics, ClientBasics', UNCHANGED found, opened'.open => opened.open,
         \A g \in ClientFiles : Len(file'[g]) >= Len(file[g])
  PROVE  C!FoundThere'
<1>1. CASE found = C!Nothing
  BY <1>1 DEF C!FoundThere
<1>2. CASE found # C!Nothing
  <2>1. found \in C!Opens /\ ~opened.open /\ found.size <= Len(file[found.file])
    BY <1>2 DEF C!FoundThere
  <2>2. found.file \in ClientFiles /\ found.size \in Nat
    BY <2>1 DEF C!Opens
  <2>3. Len(file[found.file]) \in Nat /\ Len(file'[found.file]) \in Nat /\ Len(file'[found.file]) >= Len(file[found.file])
    BY <2>2, LenProperties DEF ClientBasics, C!TypeOK
  <2> QED BY <2>1, <2>2, <2>3 DEF C!FoundThere
<1> QED BY <1>1, <1>2

\* No step shortens a file, and none but the master's opens a handle.
LEMMA FilesGrow ==
  ASSUME ClientBasics, ClientBasics', C!LateHeld, C!Next
  PROVE  /\ \A g \in ClientFiles : Len(file'[g]) >= Len(file[g])
         /\ (C!Open \/ MasterLooks) \/ (UNCHANGED found /\ (opened'.open => opened.open))
<1>1. \A g \in ClientFiles : Len(file[g]) \in Nat
  BY LenProperties DEF ClientBasics, C!TypeOK
<1>2. CASE C!Open \/ MasterLooks
  <2>1. UNCHANGED file
    BY <1>2 DEF C!Open, MasterLooks, C!LookUp, C!Refused
  <2> QED BY <1>1, <1>2, <2>1
<1>3. CASE ClientCalls
  BY <1>1, <1>3, CallsAside DEF Aside
<1>4. CASE C!SlaveCommand \/ C!SlaveSends \/ C!SlaveNotReceived \/ C!SlaveReports \/ C!SlaveEnds \/ C!Break
  <2>1. UNCHANGED <<file, found, opened>>
    BY <1>4 DEF C!SlaveCommand, C!SlaveSends, C!SlaveNotReceived, C!SlaveReports, C!SlaveEnds, C!Break, C!data, C!client
  <2> QED BY <1>1, <2>1
<1>5. CASE C!SlaveStores
  <2>1. /\ UNCHANGED <<found, opened>> /\ slave.file \in ClientFiles
        /\ file' = [file EXCEPT ![slave.file] = C!Written(@, toSlave[1].off, toSlave[2].d)]
        /\ file \in [ClientFiles -> Seq(Nat)] /\ toSlave[1].off \in Nat /\ toSlave[2].d \in Seq(Nat)
    BY <1>5, StoresShapes DEF C!SlaveStores, C!client, ClientBasics, C!TypeOK
  <2>2. Len(C!Written(file[slave.file], toSlave[1].off, toSlave[2].d)) >= Len(file[slave.file])
    BY <2>1, WrittenType
  <2>3. \A g \in ClientFiles : Len(file'[g]) >= Len(file[g])
    BY <1>1, <2>1, <2>2
  <2> QED BY <2>1, <2>3
<1>6. CASE \E x \in late : \E n \in 0 .. Len(x.d) : C!StoresLate(x, n)
  BY <1>6, LateShapes
<1>7. CASE (\E s \in ending : C!ReportsLate(s)) \/ (\E f \in ClientFiles : C!OtherOpens(f) \/ C!OtherCloses(f))
  <2>1. UNCHANGED <<file, found, opened>>
    BY <1>7 DEF C!ReportsLate, C!OtherOpens, C!OtherCloses, C!client
  <2> QED BY <1>1, <2>1
<1>8. CASE \E f \in ClientFiles : C!OtherAppends(f)
  <2>1. PICK f \in ClientFiles : C!OtherAppends(f)
    BY <1>8
  <2>2. UNCHANGED <<found, opened>> /\ file' = [file EXCEPT ![f] = Append(@, 1)] /\ file \in [ClientFiles -> Seq(Nat)]
    BY <2>1 DEF C!OtherAppends, C!client, ClientBasics, C!TypeOK
  <2>3. Len(Append(file[f], 1)) = Len(file[f]) + 1
    BY <2>2
  <2>4. \A g \in ClientFiles : Len(file'[g]) >= Len(file[g])
    BY <1>1, <2>2, <2>3
  <2> QED BY <2>2, <2>4
<1> QED BY <1>2, <1>3, <1>4, <1>5, <1>6, <1>7, <1>8 DEF C!Next, MasterLooks, ClientCalls

LEMMA FoundStays ==
  ASSUME ClientBasics, ClientBasics', C!LateHeld, C!FoundThere, [C!Next]_C!vars
  PROVE  C!FoundThere'
<1>1. CASE UNCHANGED C!vars
  BY <1>1 DEF C!vars, C!data, C!client, C!FoundThere
<1>2. CASE C!Open \/ C!Refused
  BY <1>2 DEF C!Open, C!Refused, C!FoundThere
<1>3. ASSUME NEW f \in ClientFiles, NEW spelled \in BOOLEAN, NEW rd \in BOOLEAN, NEW wr \in BOOLEAN, NEW append \in BOOLEAN,
             C!LookUp(f, spelled, rd, wr, append)
      PROVE  C!FoundThere'
  <2>1. /\ found' = [k |-> "open", file |-> f, spelled |-> spelled, rd |-> rd, wr |-> wr, append |-> append, size |-> known[f]]
        /\ UNCHANGED <<file, opened>> /\ ~opened.open
    BY <1>3 DEF C!LookUp, C!client
  <2>2. known[f] \in Nat /\ known[f] <= Len(file[f])
    BY DEF ClientBasics, C!TypeOK, C!SizesKnown
  <2>3. found' \in C!Opens /\ found'.file = f /\ found'.size = known[f]
    BY <2>1, <2>2 DEF C!Opens
  <2> QED BY <2>1, <2>2, <2>3 DEF C!FoundThere
<1>4. CASE C!Next /\ ~(C!Open \/ MasterLooks)
  BY <1>4, FilesGrow, FoundFrame
<1> QED BY <1>1, <1>2, <1>3, <1>4 DEF MasterLooks

\* The lock of a broken session is not given up while there is something to store.
LEMMA LateStays ==
  ASSUME ClientBasics, ClientBasics', C!LateHeld, C!FoundThere, [C!Next]_C!vars
  PROVE  C!LateHeld'
<1>1. C!TypeOK /\ C!OneFile /\ C!SizesKnown
  BY DEF ClientBasics
<1>2. /\ late \subseteq [file : ClientFiles, off : Nat, d : Seq(Nat)]
      /\ \A x \in late : C!WriteLocked(x.file) /\ x.file \notin other /\ ~(up /\ slave.wr /\ slave.file = x.file)
  BY DEF C!LateHeld
<1>3. CASE UNCHANGED C!vars
  <2>1. UNCHANGED <<other, ending, late, up, slave>>
    BY <1>3 DEF C!vars, C!data, C!session
  <2> QED BY <1>1, <2>1, HeldFrame
<1>4. CASE MasterLooks
  <2>1. UNCHANGED <<other, ending, late, up, slave>>
    BY <1>4 DEF MasterLooks, C!LookUp, C!Refused, C!session
  <2> QED BY <1>1, <2>1, HeldFrame
<1>5. CASE C!Open
  <2>1. /\ UNCHANGED <<other, late>> /\ slave'.wr = found.wr /\ slave'.file = found.file /\ ~(found.wr /\ C!WriteLocked(found.file))
        /\ ending' = (IF slave.st \in {"bye", "off"} THEN ending ELSE ending \cup {C!Session})
    BY <1>5 DEF C!Open
  <2>2. \A g : C!WriteLocked(g) => C!WriteLocked(g)'
    BY <2>1 DEF C!WriteLocked
  <2> QED BY <1>2, <2>1, <2>2 DEF C!LateHeld
<1>6. CASE ClientCalls
  BY <1>1, <1>6, CallsAside, HeldFrame DEF Aside
<1>7. CASE C!SlaveCommand \/ C!SlaveSends \/ C!SlaveStores \/ C!SlaveNotReceived
  <2>1. UNCHANGED <<other, ending, late, up>> /\ slave.st \notin {"bye", "off"}
    BY <1>7 DEF C!SlaveCommand, C!SlaveSends, C!SlaveStores, C!SlaveNotReceived, C!Pending, C!data
  <2>2. \E st \in {"cmd", "read", "write", "download", "upload", "end"} : slave' = [slave EXCEPT !.st = st]
    <3>1. C!SlaveSends \/ C!SlaveStores \/ C!SlaveNotReceived => slave' = [slave EXCEPT !.st = "cmd"] \/ slave' = [slave EXCEPT !.st = "end"]
      BY DEF C!SlaveSends, C!SlaveStores, C!SlaveNotReceived
    <3>2. ASSUME C!SlaveCommand
          PROVE  \E st \in {"cmd", "read", "write", "download", "upload", "end"} : slave' = [slave EXCEPT !.st = st]
      <4>1. toSlave # <<>> /\ slave.st = "cmd"
        BY <3>2 DEF C!SlaveCommand
      <4>2. toSlave[1].c \in C!Commands
        BY <1>1, <4>1, FirstTaken DEF ClientBasics, C!Serves
      <4>3. Head(toSlave) = toSlave[1]
        BY <1>1, <4>1 DEF C!TypeOK
      <4> QED BY <3>2, <4>2, <4>3 DEF C!SlaveCommand, C!Commands
    <3> QED BY <1>7, <3>1, <3>2
  <2>3. slave'.file = slave.file /\ slave'.wr = slave.wr /\ slave'.st \notin {"bye", "off"}
    BY <1>1, <2>2 DEF C!TypeOK
  <2> QED BY <1>1, <2>1, <2>3, HeldFrame
<1>8. CASE C!SlaveEnds
  <2>1. UNCHANGED <<other, ending, late, up>> /\ slave.st = "bye" /\ slave' = [slave EXCEPT !.st = "off"]
    BY <1>8 DEF C!SlaveEnds, C!data
  <2>2. slave'.file = slave.file /\ slave'.wr = slave.wr /\ slave'.st = "off"
    BY <1>1, <2>1 DEF C!TypeOK
  <2> QED BY <1>1, <2>1, <2>2, HeldFrame
<1>9. CASE C!SlaveReports
  <2>1. /\ UNCHANGED <<other, ending, up>> /\ slave' = [slave EXCEPT !.st = "bye"]
        /\ late' = IF slave.wr THEN {x \in late : x.file # slave.file} ELSE late
    BY <1>9 DEF C!SlaveReports
  <2>2. slave'.file = slave.file /\ slave'.wr = slave.wr
    BY <1>1, <2>1 DEF C!TypeOK
  <2>3. \A g : C!WriteLocked(g) /\ ~(slave.wr /\ slave.file = g) => C!WriteLocked(g)'
    BY <2>1 DEF C!WriteLocked, C!Session
  <2>4. \A x \in late' : x \in late /\ ~(slave.wr /\ slave.file = x.file)
    BY <2>1
  <2>5. late' \subseteq [file : ClientFiles, off : Nat, d : Seq(Nat)]
    BY <1>2, <2>4
  <2> QED BY <1>2, <2>1, <2>2, <2>3, <2>4, <2>5 DEF C!LateHeld
<1>10. CASE C!Break
  <2>1. /\ UNCHANGED <<other, ending, slave>> /\ up /\ ~up'
        /\ late' = IF C!Pending THEN late \cup {[file |-> slave.file, off |-> toSlave[1].off, d |-> toSlave[2].d]} ELSE late
    BY <1>10 DEF C!Break, C!data
  <2>2. \A g : C!WriteLocked(g) => C!WriteLocked(g)'
    BY <2>1 DEF C!WriteLocked, C!Session
  <2>3. ASSUME C!Pending
        PROVE  /\ slave.file \in ClientFiles /\ toSlave[1].off \in Nat /\ toSlave[2].d \in Seq(Nat)
               /\ C!WriteLocked(slave.file) /\ slave.file \notin other
    <3>1. slave.file \in ClientFiles /\ toSlave[1].off \in Nat /\ toSlave[2].d \in Seq(Nat)
      BY <1>1, <2>3, PendingTyped DEF C!TypeOK
    <3>2. slave.wr /\ slave.st \notin {"bye", "off"}
      BY <1>1, <2>3 DEF C!Pending, C!OneFile
    <3>3. C!Session.file = slave.file /\ C!Session.wr
      BY <3>2 DEF C!Session
    <3>4. slave.file \notin other
      BY <1>1, <3>2 DEF C!SizesKnown
    <3> QED BY <3>1, <3>2, <3>3, <3>4 DEF C!WriteLocked
  <2>4. \A x \in late' : x \in late \/ (C!Pending /\ x = [file |-> slave.file, off |-> toSlave[1].off, d |-> toSlave[2].d])
    BY <2>1
  <2>5. \A x \in late' : /\ x \in [file : ClientFiles, off : Nat, d : Seq(Nat)]
                        /\ C!WriteLocked(x.file)' /\ x.file \notin other
    BY <1>2, <2>2, <2>3, <2>4
  <2> QED BY <2>1, <2>5 DEF C!LateHeld
<1>11. ASSUME NEW x \in late, NEW n \in 0 .. Len(x.d), C!StoresLate(x, n)
       PROVE  C!LateHeld'
  <2>1. late' = late \ {x} /\ UNCHANGED <<other, ending, up, slave>>
    BY <1>11 DEF C!StoresLate
  <2>2. \A g : C!WriteLocked(g) => C!WriteLocked(g)'
    BY <2>1 DEF C!WriteLocked, C!Session
  <2> QED BY <1>2, <2>1, <2>2 DEF C!LateHeld
<1>12. ASSUME NEW s \in ending, C!ReportsLate(s)
       PROVE  C!LateHeld'
  <2>1. /\ ending' = ending \ {s} /\ UNCHANGED <<other, up, slave>>
        /\ late' = IF s.wr THEN {x \in late : x.file # s.file} ELSE late
    BY <1>12 DEF C!ReportsLate
  <2>2. \A g : C!WriteLocked(g) /\ ~(s.wr /\ s.file = g) => C!WriteLocked(g)'
    BY <2>1 DEF C!WriteLocked, C!Session
  <2>3. \A x \in late' : x \in late /\ ~(s.wr /\ s.file = x.file)
    BY <2>1
  <2>4. late' \subseteq [file : ClientFiles, off : Nat, d : Seq(Nat)]
    BY <1>2, <2>3
  <2> QED BY <1>2, <2>1, <2>2, <2>3, <2>4 DEF C!LateHeld
<1>13. ASSUME NEW f \in ClientFiles, C!OtherOpens(f) \/ C!OtherAppends(f) \/ C!OtherCloses(f)
       PROVE  C!LateHeld'
  <2>1. /\ UNCHANGED <<ending, up, slave, late>>
        /\ \/ other' = other \cup {f} /\ ~C!WriteLocked(f)
           \/ other' \subseteq other /\ \A g \in other : g # f => g \in other'
        /\ f \in other \/ other' = other \cup {f}
    BY <1>13 DEF C!OtherOpens, C!OtherAppends, C!OtherCloses, C!session
  <2>2. \A x \in late : x.file # f \/ other' = other \cup {f}
    BY <1>2, <2>1
  <2>3. \A x \in late : x.file \notin other'
    BY <1>2, <2>1
  <2>4. \A x \in late : C!WriteLocked(x.file)'
    BY <1>2, <2>1 DEF C!WriteLocked, C!Session
  <2> QED BY <1>2, <2>1, <2>3, <2>4 DEF C!LateHeld
<1> QED BY <1>3, <1>4, <1>5, <1>6, <1>7, <1>8, <1>9, <1>10, <1>11, <1>12, <1>13 DEF C!Next, MasterLooks, ClientCalls

ClientLocks == ClientBasics /\ C!LateHeld /\ C!FoundThere

LEMMA InitLocks ==
  ASSUME C!Init, ClientAssumption
  PROVE  ClientLocks
<1>1. late = {} /\ found = C!Nothing
  BY DEF C!Init
<1>2. C!LateHeld /\ C!FoundThere
  BY <1>1 DEF C!LateHeld, C!FoundThere
<1> QED BY <1>2, InitBasics DEF ClientLocks

LEMMA StepKeepsLocks ==
  ASSUME ClientLocks, ClientAssumption, [C!Next]_C!vars
  PROVE  ClientLocks'
BY StepKeepsBasics, LateStays, FoundStays DEF ClientLocks

\* Nobody else writes, and the sessions before have reported.
LEMMA LockStep ==
  ASSUME ClientLocks, ClientAssumption, C!Next, NEW f \in ClientFiles, C!Locks(f)
  PROVE  known[f] = Len(file[f]) /\ \A x \in late : x.file # f
<1>1. ClientBasics /\ C!LateHeld /\ C!SizesKnown
  BY DEF ClientLocks, ClientBasics
<1>2. SUFFICES ~C!WriteLocked(f)
  BY <1>1, <1>2 DEF C!SizesKnown, C!LateHeld
<1>3. ClientBasics'
  BY StepKeepsLocks DEF ClientLocks
<1>4. CASE ~opened.open /\ opened'.open /\ opened'.wr /\ opened'.file = f
  <2>1. C!Open \/ MasterLooks
    BY <1>1, <1>3, <1>4, FilesGrow
  <2>2. MasterLooks => UNCHANGED opened
    BY DEF MasterLooks, C!LookUp, C!Refused, C!client
  <2>3. C!Open
    BY <1>4, <2>1, <2>2
  <2> QED BY <1>4, <2>3 DEF C!Open
<1>5. CASE f \in other' /\ f \notin other
  <2>1. C!Open \/ MasterLooks => UNCHANGED other
    BY DEF C!Open, MasterLooks, C!LookUp, C!Refused
  <2>2. ClientCalls => UNCHANGED other
    BY <1>1, CallsAside DEF Aside
  <2>3. C!SlaveCommand \/ C!SlaveSends \/ C!SlaveStores \/ C!SlaveNotReceived \/ C!SlaveReports \/ C!SlaveEnds \/ C!Break => UNCHANGED other
    BY DEF C!SlaveCommand, C!SlaveSends, C!SlaveStores, C!SlaveNotReceived, C!SlaveReports, C!SlaveEnds, C!Break, C!data
  <2>4. (\E s \in ending : C!ReportsLate(s)) \/ (\E x \in late : \E n \in 0 .. Len(x.d) : C!StoresLate(x, n)) => UNCHANGED other
    BY DEF C!ReportsLate, C!StoresLate
  <2>5. PICK g \in ClientFiles : C!OtherOpens(g) \/ C!OtherAppends(g) \/ C!OtherCloses(g)
    BY <1>5, <2>1, <2>2, <2>3, <2>4 DEF C!Next, MasterLooks, ClientCalls
  <2>6. C!OtherOpens(g) /\ g = f
    BY <1>5, <2>5 DEF C!OtherOpens, C!OtherAppends, C!OtherCloses
  <2> QED BY <2>6 DEF C!OtherOpens
<1> QED BY <1>4, <1>5 DEF C!Locks

\* Who takes the write lock of a file, this client or another one, finds it as long as the master
\* has it, with nothing left to store, although the session before broke with a block in its hands
\* and the client has opened other files since, for any files, calls and breaks (meta.cpp: lock;
\* serv_file.cpp: the end of fileHandler; datachn.cpp: recvfile).
THEOREM WritersFindTheSize ==
  ASSUME ClientAssumption
  PROVE  C!Spec => WriterFindsTheSize
<1>1. C!Init => ClientLocks
  BY InitLocks
<1>2. ClientLocks /\ [C!Next]_(C!vars) => ClientLocks'
  BY StepKeepsLocks
<1>3. ClientLocks /\ [C!Next]_(C!vars) =>
        [\A f \in ClientFiles : C!Locks(f) => known[f] = Len(file[f]) /\ \A x \in late : x.file # f]_(C!vars)
  BY LockStep
<1> QED BY <1>1, <1>2, <1>3, PTL DEF C!Spec, WriterFindsTheSize, C!WriterFindsTheSize

-----------------------------------------------------------------------------
(* A session in step. *)

LEMMA PairOf ==
  ASSUME NEW S, NEW a \in S, NEW b \in S
  PROVE  <<a>> \o <<b>> = <<a, b>> /\ <<a>> \o <<>> = <<a>> /\ <<a>> \in Seq(S) /\ <<a, b>> \in Seq(S) /\ Tail(<<a>>) = <<>>
         /\ Tail(<<a, b>>) = <<b>> /\ Head(<<a>>) = a /\ Head(<<a, b>>) = a /\ <<>> \o <<a>> = <<a>>
<1>1. <<a>> \o <<b>> = <<a, b>>
  BY TwoOnes
<1> QED BY <1>1

LEMMA NothingBefore ==
  ASSUME NEW S, NEW q \in Seq(S)
  PROVE  <<>> \o q = q /\ q \o <<>> = q
OBVIOUS

LEMMA AfterFirst ==
  ASSUME NEW S, NEW x \in S, NEW q \in Seq(S)
  PROVE  /\ <<x>> \o q \in Seq(S) /\ <<x>> \o q # <<>> /\ Head(<<x>> \o q) = x /\ Tail(<<x>> \o q) = q
<1> DEFINE r == <<x>> \o q
<1>1. <<x>> \in Seq(S) /\ Len(<<x>>) = 1 /\ Len(q) \in Nat
  BY LenProperties
<1>2. /\ r \in Seq(S) /\ Len(r) = 1 + Len(q)
      /\ \A i \in 1 .. 1 + Len(q) : r[i] = IF i <= 1 THEN <<x>>[i] ELSE q[i - 1]
  BY <1>1, ConcatProperties
<1> HIDE DEF r
<1>3. r[1] = x /\ r # <<>>
  BY <1>1, <1>2
<1>4. Head(r) = x /\ Tail(r) \in Seq(S) /\ Len(Tail(r)) = Len(q) /\ \A j \in 1 .. Len(q) : Tail(r)[j] = r[j + 1]
  BY <1>1, <1>2, <1>3, TailElements
<1>5. \A j \in 1 .. Len(q) : Tail(r)[j] = q[j]
  BY <1>1, <1>2, <1>4
<1>6. Tail(r) = q
  BY <1>4, <1>5, SeqEqual
<1> QED BY <1>2, <1>3, <1>4, <1>6 DEF r

LEMMA MoreAfter ==
  ASSUME NEW S, NEW q \in Seq(S), NEW r \in Seq(S), NEW k \in 1 .. Len(q), NEW p, p = q \o r, NEW j, j = k + 1
  PROVE  /\ p \in Seq(S) /\ p # <<>> /\ Len(p) >= Len(q) /\ \A i \in 1 .. k : p[i] = q[i]
         /\ SubSeq(p, j, Len(p)) = SubSeq(q, j, Len(q)) \o r
<1>1. Len(q) \in Nat /\ Len(r) \in Nat
  BY LenProperties
<1>2. /\ p \in Seq(S) /\ Len(p) = Len(q) + Len(r)
      /\ \A i \in 1 .. Len(q) + Len(r) : p[i] = IF i <= Len(q) THEN q[i] ELSE r[i - Len(q)]
  BY ConcatProperties
<1>3. p # <<>> /\ Len(p) >= Len(q) /\ \A i \in 1 .. k : p[i] = q[i]
  <2>1. \A i \in 1 .. k : i \in 1 .. Len(q) + Len(r) /\ i <= Len(q)
    BY <1>1
  <2>2. Len(p) >= Len(q) /\ Len(p) # 0
    BY <1>1, <1>2
  <2> QED BY <1>2, <2>1, <2>2, EmptySeq
<1> DEFINE u == SubSeq(p, k + 1, Len(p))
           v == SubSeq(q, k + 1, Len(q))
<1>4. /\ u \in Seq(S) /\ Len(u) = Len(p) - k /\ \A i \in 1 .. Len(p) - k : u[i] = p[k + i]
  <2>1. \A i \in k + 1 .. Len(p) : p[i] \in S
    BY <1>1, <1>2, ElementOfSeq
  <2>2. /\ u \in Seq(S) /\ Len(u) = IF k + 1 <= Len(p) THEN Len(p) - (k + 1) + 1 ELSE 0
        /\ \A i \in 1 .. Len(p) - (k + 1) + 1 : u[i] = p[k + 1 + i - 1]
    BY <1>1, <1>2, <2>1, SubSeqProperties
  <2> HIDE DEF u
  <2>3. Len(u) = Len(p) - k
    BY <1>1, <1>2, <2>2
  <2>4. ASSUME NEW i \in 1 .. Len(p) - k
        PROVE  u[i] = p[k + i]
    <3>1. i \in 1 .. Len(p) - (k + 1) + 1 /\ k + 1 + i - 1 = k + i
      BY <1>1, <1>2
    <3> QED BY <2>2, <3>1
  <2> QED BY <2>2, <2>3, <2>4
<1>5. /\ v \in Seq(S) /\ Len(v) = Len(q) - k /\ \A i \in 1 .. Len(q) - k : v[i] = q[k + i]
  <2>1. \A i \in k + 1 .. Len(q) : q[i] \in S
    BY <1>1, ElementOfSeq
  <2>2. /\ v \in Seq(S) /\ Len(v) = IF k + 1 <= Len(q) THEN Len(q) - (k + 1) + 1 ELSE 0
        /\ \A i \in 1 .. Len(q) - (k + 1) + 1 : v[i] = q[k + 1 + i - 1]
    BY <1>1, <2>1, SubSeqProperties
  <2> HIDE DEF v
  <2>3. Len(v) = Len(q) - k
    BY <1>1, <2>2
  <2>4. ASSUME NEW i \in 1 .. Len(q) - k
        PROVE  v[i] = q[k + i]
    <3>1. i \in 1 .. Len(q) - (k + 1) + 1 /\ k + 1 + i - 1 = k + i
      BY <1>1
    <3> QED BY <2>2, <3>1
  <2> QED BY <2>2, <2>3, <2>4
<1> HIDE DEF u, v
<1>6. /\ v \o r \in Seq(S) /\ Len(v \o r) = Len(v) + Len(r)
      /\ \A i \in 1 .. Len(v) + Len(r) : (v \o r)[i] = IF i <= Len(v) THEN v[i] ELSE r[i - Len(v)]
  BY <1>5, ConcatProperties
<1>7. Len(u) = Len(v \o r)
  BY <1>1, <1>2, <1>4, <1>5, <1>6
<1>8. ASSUME NEW i \in 1 .. Len(u)
      PROVE  u[i] = (v \o r)[i]
  <2>1. u[i] = p[k + i] /\ k + i \in 1 .. Len(q) + Len(r) /\ i \in 1 .. Len(v) + Len(r)
    BY <1>1, <1>2, <1>4, <1>5, <1>6, <1>7
  <2>2. CASE i <= Len(v)
    <3>1. k + i <= Len(q) /\ i \in 1 .. Len(q) - k
      BY <1>1, <1>5, <2>2
    <3> QED BY <1>2, <1>5, <1>6, <2>1, <2>2, <3>1
  <2>3. CASE ~(i <= Len(v))
    <3>1. ~(k + i <= Len(q)) /\ k + i - Len(q) = i - Len(v)
      BY <1>1, <1>5, <2>3
    <3> QED BY <1>2, <1>6, <2>1, <2>3, <3>1
  <2> QED BY <2>2, <2>3
<1>9. u = v \o r
  BY <1>4, <1>6, <1>7, <1>8, SeqEqual
<1> QED BY <1>2, <1>3, <1>9 DEF u, v

\* The parameters and the data of each call.
LEMMA ParametersAre ==
  /\ asked.k = "read" => C!Parameters = <<C!Req(opened.rpos, asked.n)>> /\ C!CommandOf = "read"
  /\ asked.k = "prefetch" => C!Parameters = (IF asked.at = "data" THEN <<C!Req(opened.rpos, asked.ahead)>> ELSE <<>>)
                             /\ C!CommandOf = "read"
  /\ asked.k = "write" => C!Parameters = <<C!Req(opened.wpos, Len(asked.d))>> /\ C!CommandOf = "write"
  /\ asked.k = "upload" => C!Parameters = <<C!Req(0, Len(asked.d))>> /\ C!CommandOf = "upload"
  /\ asked.k = "download" => C!Parameters = <<C!Req(Len(download), 0)>> /\ C!CommandOf = "download"
  /\ asked.k = "close" => C!Parameters = <<>> /\ C!CommandOf = "close"
BY DEF C!Parameters, C!CommandOf

LEMMA ParametersWillBe ==
  /\ asked'.k = "read" => (C!Parameters)' = <<C!Req(opened'.rpos, asked'.n)>> /\ (C!CommandOf)' = "read"
  /\ asked'.k = "prefetch" => (C!Parameters)' = (IF asked'.at = "data" THEN <<C!Req(opened'.rpos, asked'.ahead)>> ELSE <<>>)
                             /\ (C!CommandOf)' = "read"
  /\ asked'.k = "write" => (C!Parameters)' = <<C!Req(opened'.wpos, Len(asked'.d))>> /\ (C!CommandOf)' = "write"
  /\ asked'.k = "upload" => (C!Parameters)' = <<C!Req(0, Len(asked'.d))>> /\ (C!CommandOf)' = "upload"
  /\ asked'.k = "download" => (C!Parameters)' = <<C!Req(Len(download'), 0)>> /\ (C!CommandOf)' = "download"
  /\ asked'.k = "close" => (C!Parameters)' = <<>> /\ (C!CommandOf)' = "close"
BY DEF C!Parameters, C!CommandOf

LEMMA ParametersTyped ==
  ASSUME C!TypeOK
  PROVE  C!Parameters \in Seq(C!ToSlave)
<1>1. asked \in C!Calls /\ opened.rpos \in Nat /\ opened.wpos \in Nat /\ Len(download) \in Nat
  BY HandleTypes DEF C!TypeOK
<1>2. \A o \in Nat, n \in Int : <<C!Req(o, n)>> \in Seq(C!ToSlave)
  BY ItemsTyped
<1>3. /\ asked.k = "read" => asked.n \in Int
      /\ asked.k = "prefetch" => asked.ahead \in Int
      /\ asked.k \in {"write", "upload"} => Len(asked.d) \in Nat
  <2>1. asked.k = "read" => asked.n \in Int
    BY <1>1, CallShapes
  <2>2. asked.k = "prefetch" => asked.ahead \in Int
    BY <1>1, CallShapes
  <2>3. asked.k \in {"write", "upload"} => asked.d \in Seq(Nat)
    BY <1>1, CallShapes
  <2> QED BY <2>1, <2>2, <2>3, LenProperties
<1>4. <<>> \in Seq(C!ToSlave) /\ 0 \in Nat /\ 0 \in Int
  OBVIOUS
<1>5. asked.k = "idle" => C!Parameters = <<>>
  BY DEF C!Parameters
<1>6. asked.k \in {"idle", "read", "prefetch", "download", "write", "upload", "close"}
  BY <1>1, CallShapes
<1>7. CASE asked.k = "read"
  BY <1>1, <1>2, <1>3, <1>7, ParametersAre
<1>8. CASE asked.k = "prefetch"
  BY <1>1, <1>2, <1>3, <1>4, <1>8, ParametersAre
<1>9. CASE asked.k \in {"write", "upload"}
  <2>1. Len(asked.d) \in Int
    BY <1>3, <1>9
  <2>2. CASE asked.k = "write"
    BY <1>1, <1>2, <2>1, <2>2, ParametersAre
  <2>3. CASE asked.k = "upload"
    BY <1>2, <1>4, <2>1, <2>3, ParametersAre
  <2> QED BY <1>9, <2>2, <2>3
<1>10. CASE asked.k = "download"
  BY <1>1, <1>2, <1>4, <1>10, ParametersAre
<1> QED BY <1>4, <1>5, <1>6, <1>7, <1>8, <1>9, <1>10, ParametersAre

LEMMA AskedTyped ==
  ASSUME C!TypeOK
  PROVE  /\ C!Asked \in Seq(C!ToSlave) /\ (asked = C!Idle => C!Asked = <<>>)
         /\ asked # C!Idle => /\ C!Asked # <<>> /\ Head(C!Asked) = C!Cmd(C!CommandOf) /\ Tail(C!Asked) = C!Parameters
                              /\ C!CommandOf \in C!Commands
<1>1. CASE asked = C!Idle
  BY <1>1 DEF C!Asked
<1>2. CASE asked # C!Idle
  <2>1. C!CommandOf \in C!Commands
    BY <1>2, CallShapes DEF C!TypeOK, C!CommandOf, C!Commands
  <2>2. C!Cmd(C!CommandOf) \in C!ToSlave /\ C!Parameters \in Seq(C!ToSlave)
    BY <2>1, ItemsTyped, ParametersTyped
  <2>3. C!Asked = <<C!Cmd(C!CommandOf)>> \o C!Parameters
    BY <1>2 DEF C!Asked
  <2> QED BY <1>2, <2>1, <2>2, <2>3, AfterFirst
<1> QED BY <1>1, <1>2

\* The same of the next state.
AskedShape ==
  /\ C!Asked \in Seq(C!ToSlave) /\ (asked = C!Idle => C!Asked = <<>>)
  /\ asked # C!Idle => /\ C!Asked # <<>> /\ Head(C!Asked) = C!Cmd(C!CommandOf) /\ Tail(C!Asked) = C!Parameters
                        /\ C!CommandOf \in C!Commands
  /\ C!Parameters \in Seq(C!ToSlave)

LEMMA AskedNext == C!TypeOK' => AskedShape'
<1>1. C!TypeOK => AskedShape
  BY AskedTyped, ParametersTyped DEF AskedShape
<1> QED BY <1>1, PTL

\* Nothing of it has changed.
LEMMA StaysInStep ==
  ASSUME C!InStep, UNCHANGED <<opened, asked, up, toSlave, toClient, slave, file, view, download, mixed, out, skew>>
  PROVE  C!InStep'
<1>1. C!CallInRange' /\ C!SlaveReadsTrue' /\ C!DownloadWhole'
  BY DEF C!InStep, C!CallInRange, C!SlaveReadsTrue, C!DownloadWhole
<1>2. C!Pending' = C!Pending /\ C!Serves' = C!Serves /\ (C!Settled)' = C!Settled
  BY DEF C!Pending, C!Serves, C!Settled
<1>3. C!LocalTrue' /\ (C!ViewTrue' <=> C!ViewTrue)
  BY <1>2 DEF C!InStep, C!LocalTrue, C!ViewTrue
<1>4. (C!Parameters)' = C!Parameters /\ (C!CommandOf)' = C!CommandOf /\ (C!Told)' = C!Told /\ (C!DataOf)' = C!DataOf
  BY DEF C!Parameters, C!CommandOf, C!Told, C!DataOf
<1>5. (C!Asked)' = C!Asked
  BY <1>4 DEF C!Asked
<1>6. (C!NotSeen => C!NotSeen') /\ (C!Seen => C!Seen') /\ (C!Answered => C!Answered') /\ (C!Over => C!Over')
  BY <1>2, <1>4, <1>5 DEF C!NotSeen, C!Seen, C!Answered, C!Over
<1> QED BY <1>1, <1>2, <1>3, <1>6 DEF C!InStep

LEMMA OpenInStep ==
  ASSUME ClientLocks, ClientBasics', ~skew => C!InStep, C!Open
  PROVE  C!InStep'
<1> DEFINE f == found.file  wr == found.wr
<1>1. C!TypeOK /\ C!OneFile /\ C!TypeOK' /\ C!SizesKnown
  BY DEF ClientLocks, ClientBasics
<1>2. /\ UNCHANGED <<file, asked, download>>
      /\ asked = C!Idle /\ up' = TRUE /\ toSlave' = <<>> /\ toClient' = <<>> /\ out' = C!NoResult
      /\ slave'.st = "cmd" /\ view' = file[f] /\ mixed' = (mixed \/ opened.file # f \/ skew)
      /\ opened'.open /\ opened'.file = f /\ opened'.wr = wr /\ opened'.size = found.size /\ opened'.rpos = 0
      /\ f \in ClientFiles /\ found.size \in Nat /\ found.size <= Len(file[f])
  <2>1. found \in C!Opens /\ ~opened.open /\ found.size <= Len(file[f])
    BY DEF C!Open, ClientLocks, C!FoundThere
  <2>2. f \in ClientFiles /\ found.size \in Nat
    BY <2>1 DEF C!Opens
  <2>3. asked = C!Idle
    BY <1>1, <2>1 DEF C!OneFile
  <2> QED BY <2>1, <2>2, <2>3 DEF C!Open
<1> HIDE DEF f, wr
<1>3. file[f] \in Seq(Nat) /\ Len(file[f]) \in Nat /\ found.size \in Nat /\ found.size <= Len(file[f])
  BY <1>1, <1>2, LenProperties DEF C!TypeOK
<1>4. C!CallInRange'
  BY <1>2, <1>3 DEF C!CallInRange, C!Idle
<1>5. ~C!Pending'
  BY <1>2 DEF C!Pending
<1>6. C!LocalTrue'
  <2>1. ASSUME ~mixed'
        PROVE  C!IsPrefix(download, file[f])
    <3>1. ~mixed /\ opened.file = f /\ ~skew
      BY <1>2, <2>1
    <3> QED BY <3>1 DEF C!InStep, C!LocalTrue
  <2>2. ~mixed' => C!IsPrefix(download', file'[opened'.file]) /\ C!IsPrefix(download', view')
    BY <1>2, <2>1
  <2> QED BY <1>5, <2>2 DEF C!LocalTrue
<1>7. C!SlaveReadsTrue' /\ C!DownloadWhole'
  BY <1>2 DEF C!SlaveReadsTrue, C!DownloadWhole, C!NoResult
<1>8. C!ViewTrue'
  <2>1. (C!Settled)' = file[f]
    BY <1>2, <1>5 DEF C!Settled
  <2>2. C!IsPrefix(file[f], file[f])
    BY <1>3, PrefixOfItself
  <2> QED BY <1>2, <2>1, <2>2 DEF C!ViewTrue
<1>9. C!NotSeen'
  BY <1>2 DEF C!NotSeen, C!Asked
<1> QED BY <1>2, <1>4, <1>6, <1>7, <1>8, <1>9 DEF C!InStep

\* Where an idle handle is.
LEMMA IdleSession ==
  ASSUME C!InStep, up, asked = C!Idle
  PROVE  C!NotSeen \/ C!Over
BY DEF C!InStep, C!Seen, C!Answered, C!Idle

\* A handle that waits for nothing moves.
LEMMA MoveInStep ==
  ASSUME ClientBasics, ClientBasics', C!InStep, asked = C!Idle,
         UNCHANGED <<asked, up, toSlave, toClient, slave, file, view, download, mixed, skew>>,
         opened'.open = opened.open, opened'.file = opened.file, opened'.wr = opened.wr, opened'.size = opened.size,
         opened'.rpos <= opened.size, out' = out \/ (out'.k = "read" /\ out'.from # "slave")
  PROVE  C!InStep'
<1>1. C!CallInRange'
  BY DEF C!InStep, C!CallInRange, C!Idle
<1>2. C!SlaveReadsTrue' /\ C!DownloadWhole'
  <2>1. CASE out' = out
    BY <2>1 DEF C!InStep, C!SlaveReadsTrue, C!DownloadWhole
  <2>2. CASE out'.k = "read" /\ out'.from # "slave"
    BY <2>2 DEF C!SlaveReadsTrue, C!DownloadWhole
  <2> QED BY <2>1, <2>2
<1>3. C!Pending' = C!Pending /\ C!Serves' = C!Serves /\ (C!Settled)' = C!Settled
  BY DEF C!Pending, C!Serves, C!Settled
<1>4. C!LocalTrue' /\ (C!ViewTrue' <=> C!ViewTrue)
  BY <1>3 DEF C!InStep, C!LocalTrue, C!ViewTrue
<1>5. (C!Asked)' = C!Asked
  BY DEF C!Asked
<1>6. (C!NotSeen => C!NotSeen') /\ (C!Over => C!Over')
  BY <1>3, <1>5 DEF C!NotSeen, C!Over
<1> QED BY <1>1, <1>2, <1>3, <1>4, <1>6, IdleSession DEF C!InStep

\* A call is sent, in step.
LEMMA CallStaysInStep ==
  ASSUME ClientBasics, ClientBasics', C!InStep, asked = C!Idle, asked' # C!Idle, asked'.at = "consent",
         UNCHANGED <<up, toClient, slave, file, view, out, skew>>, UNCHANGED opened,
         NEW items, items = (C!Asked)', C!Send(items),
         download' = <<>> \/ UNCHANGED <<download, mixed>>,
         C!CallInRange'
  PROVE  C!InStep'
<1>1. C!TypeOK /\ C!TypeOK' /\ C!OneFile
  BY DEF ClientBasics
<1>2. toSlave \in Seq(C!ToSlave) /\ items \in Seq(C!ToSlave) /\ Len(toSlave) \in Nat
  BY <1>1, AskedNext, LenProperties DEF AskedShape, C!TypeOK
<1>3. toSlave' = IF up /\ C!Serves THEN toSlave \o items ELSE toSlave
  BY DEF C!Send, C!Serves
<1>4. C!Serves' = C!Serves
  BY DEF C!Serves
<1>5. C!SlaveReadsTrue' /\ C!DownloadWhole'
  BY DEF C!InStep, C!SlaveReadsTrue, C!DownloadWhole
<1>6. /\ C!Pending' => C!Pending /\ toSlave'[1] = toSlave[1] /\ toSlave'[2] = toSlave[2]
      /\ up /\ C!Serves => (C!Pending => C!Pending')
      /\ up => C!NotSeen' \/ C!Over'
  <2>1. CASE ~up
    <3>1. toSlave' = toSlave
      BY <1>3, <2>1
    <3> QED BY <2>1, <3>1 DEF C!Pending
  <2>2. CASE up /\ ~C!Serves
    <3>1. ~C!Pending' /\ ~C!NotSeen
      BY <2>2 DEF C!Pending, C!Serves, C!NotSeen
    <3>2. C!Over
      BY <2>2, <3>1, IdleSession
    <3>3. C!Over'
      BY <1>4, <3>2 DEF C!Over
    <3> QED BY <2>2, <3>1, <3>3
  <2>3. CASE up /\ C!Serves
    <3>1. C!NotSeen /\ toSlave' = toSlave \o items
      BY <1>3, <2>3, IdleSession DEF C!Over
    <3>2. toClient' = <<>> /\ C!Asked = <<>>
      BY <3>1 DEF C!NotSeen, C!Asked
    <3>3. CASE slave.st = "cmd" /\ toSlave = <<>>
      <4>1. toSlave' = (C!Asked)'
        BY <1>2, <3>1, <3>3, NothingBefore
      <4> QED BY <2>3, <3>2, <3>3, <4>1 DEF C!NotSeen, C!Pending
    <3>4. CASE C!Pending /\ SubSeq(toSlave, 3, Len(toSlave)) = <<>>
      <4>1. 2 \in 1 .. Len(toSlave) /\ Len(toSlave) >= 2
        BY <1>2, <3>4 DEF C!Pending
      <4>2. /\ Len(toSlave') >= Len(toSlave) /\ \A i \in 1 .. 2 : toSlave'[i] = toSlave[i]
            /\ SubSeq(toSlave', 3, Len(toSlave')) = SubSeq(toSlave, 3, Len(toSlave)) \o items
            /\ toSlave' \in Seq(C!ToSlave)
        BY <1>2, <3>1, <4>1, MoreAfter
      <4>3. SubSeq(toSlave', 3, Len(toSlave')) = (C!Asked)'
        BY <1>2, <3>4, <4>2, NothingBefore
      <4>4. C!Pending' /\ toSlave'[1] = toSlave[1] /\ toSlave'[2] = toSlave[2]
        <5>1. Len(toSlave') >= 2
          BY <1>2, <4>1, <4>2, LenProperties
        <5> QED BY <3>4, <4>2, <5>1 DEF C!Pending
      <4> QED BY <2>3, <3>2, <3>4, <4>3, <4>4 DEF C!NotSeen
    <3>5. CASE slave.st = "download" /\ toSlave # <<>> /\ Tail(toSlave) = <<>> /\ Head(toSlave).off >= opened.size
      <4>1. 1 \in 1 .. Len(toSlave) /\ Head(toSlave) = toSlave[1]
        BY <1>2, <3>5, TailElements
      <4>2. /\ toSlave' \in Seq(C!ToSlave) /\ toSlave' # <<>> /\ toSlave'[1] = toSlave[1]
            /\ SubSeq(toSlave', 2, Len(toSlave')) = SubSeq(toSlave, 2, Len(toSlave)) \o items
        BY <1>2, <3>1, <4>1, MoreAfter
      <4>3. Tail(toSlave') = Tail(toSlave) \o items /\ Head(toSlave') = Head(toSlave)
        <5>1. Tail(toSlave') = SubSeq(toSlave', 2, Len(toSlave')) /\ Tail(toSlave) = SubSeq(toSlave, 2, Len(toSlave))
          BY <1>2, <3>5, <4>2, TailIsSubSeq
        <5>2. Head(toSlave') = toSlave'[1]
          BY <4>2, TailElements
        <5> QED BY <4>1, <4>2, <5>1, <5>2
      <4>4. Tail(toSlave') = (C!Asked)'
        BY <1>2, <3>5, <4>3, NothingBefore
      <4> QED BY <2>3, <3>2, <3>5, <4>2, <4>3, <4>4 DEF C!NotSeen, C!Pending
    <3> QED BY <3>1, <3>2, <3>3, <3>4, <3>5 DEF C!NotSeen
  <2> QED BY <2>1, <2>2, <2>3
<1>7. C!LocalTrue'
  <2>1. CASE UNCHANGED <<download, mixed>>
    BY <1>6, <2>1 DEF C!InStep, C!LocalTrue
  <2>2. CASE download' = <<>>
    <3>1. C!IsPrefix(<<>>, file[opened.file]) /\ C!IsPrefix(<<>>, view)
      BY <1>1, HandleTypes, EmptyPrefix DEF C!TypeOK
    <3>2. C!Pending' => toSlave'[1].off >= Len(download')
      <4> SUFFICES ASSUME C!Pending'
                   PROVE  toSlave'[1].off >= 0
        BY <2>2
      <4>1. C!Pending /\ toSlave'[1] = toSlave[1]
        BY <1>6
      <4>2. C!Serves /\ toSlave # <<>> /\ slave.st \in {"write", "upload"}
        BY <4>1 DEF C!Pending, C!Serves
      <4>3. toSlave[1].off \in Nat
        BY <1>1, <4>2, FirstTaken DEF ClientBasics
      <4> QED BY <4>1, <4>3
    <3> QED BY <2>2, <3>1, <3>2 DEF C!LocalTrue
  <2> QED BY <2>1, <2>2
<1>8. up /\ C!Serves => C!ViewTrue'
  <2> SUFFICES ASSUME up, C!Serves
               PROVE  C!ViewTrue'
    OBVIOUS
  <2>1. C!Pending' <=> C!Pending
    BY <1>6
  <2>2. (C!Settled)' = C!Settled
    BY <1>6, <2>1 DEF C!Settled
  <2> QED BY <2>2 DEF C!InStep, C!ViewTrue
<1>9. ~up => toSlave' = <<>>
  BY <1>3 DEF C!InStep
<1> QED BY <1>4, <1>5, <1>6, <1>7, <1>8, <1>9 DEF C!InStep

LEMMA SendingAsked ==
  ASSUME NEW c \in {"read", "write", "download", "upload"}, NEW o \in Nat, NEW n \in Int,
         (C!Asked)' = <<C!Cmd(c)>> \o (C!Parameters)', (C!Parameters)' = <<C!Req(o, n)>>
  PROVE  (C!Asked)' = <<C!Cmd(c), C!Req(o, n)>>
BY ItemsTyped, TwoOnes DEF C!Commands

LEMMA AskedIs ==
  ASSUME asked' # C!Idle
  PROVE  (C!Asked)' = <<C!Cmd((C!CommandOf)')>> \o (C!Parameters)'
BY DEF C!Asked

LEMMA ReadInStep ==
  ASSUME ClientBasics, ClientBasics', C!InStep, ClientAssumption, NEW n \in 1 .. 2, NEW ahead \in {0, Ahead}, C!Read(n, ahead)
  PROVE  C!InStep'
<1>1. C!TypeOK /\ C!TypeOK'
  BY DEF ClientBasics
<1> DEFINE r == C!Lower(n, opened.size - opened.rpos)
<1>2. /\ UNCHANGED <<file, known, other, cache, stats, download, mixed, view, up, toClient, slave, ending, skew, breaks>>
      /\ opened.open /\ asked = C!Idle
  BY DEF C!Read, C!Ready, C!data
<1>3. opened.rpos <= opened.size /\ opened.size <= Len(view) /\ opened.rpos \in Nat /\ opened.size \in Nat
  BY <1>1, <1>2, HandleTypes DEF C!InStep, C!CallInRange
<1>4. r \in Nat /\ ahead \in Nat /\ r <= n /\ opened.rpos + r <= opened.size
  BY <1>1, <1>3, ReadSize DEF ClientAssumption
<1>5. \/ /\ \E d, from : /\ Len(d) = r /\ C!ReadGives(d, from) /\ from # "slave"
         /\ UNCHANGED <<asked, toSlave>>
      \/ /\ up /\ UNCHANGED <<opened, out>>
         /\ \/ /\ C!Send(<<C!Cmd("read")>>) /\ ahead >= n
               /\ asked' = [k |-> "prefetch", at |-> "consent", n |-> r, ahead |-> C!Lower(ahead, opened.size - opened.rpos)]
            \/ C!Ask(r)
  <2> HIDE DEF r
  <2>1. /\ Len(C!Piece(file[opened.file], opened.rpos, r)) = r
        /\ Len([i \in 1 .. r |-> C!Garbage]) = r
        /\ \A b : Len(C!Cached(b, opened.rpos, r)) = r
    BY <1>1, <1>4, ReadLengths
  <2> QED BY <2>1 DEF C!Read, r
<1> HIDE DEF r
<1>6. CASE /\ \E d, from : /\ Len(d) = r /\ C!ReadGives(d, from) /\ from # "slave"
           /\ UNCHANGED <<asked, toSlave>>
  <2> PICK d, from : Len(d) = r /\ C!ReadGives(d, from) /\ from # "slave"
    BY <1>6
  <2>1. opened' = [opened EXCEPT !.rpos = @ + r] /\ out'.k = "read" /\ out'.from = from
    BY DEF C!ReadGives
  <2>2. /\ opened'.file = opened.file /\ opened'.wr = opened.wr /\ opened'.open = opened.open
        /\ opened'.size = opened.size /\ opened'.rpos <= opened.size
    BY <1>1, <1>4, <2>1, MovedTypes
  <2> QED BY <1>2, <1>6, <2>1, <2>2, MoveInStep
<1>7. CASE /\ up /\ UNCHANGED <<opened, out>>
           /\ \/ /\ C!Send(<<C!Cmd("read")>>) /\ ahead >= n
                 /\ asked' = [k |-> "prefetch", at |-> "consent", n |-> r, ahead |-> C!Lower(ahead, opened.size - opened.rpos)]
              \/ C!Ask(r)
  <2>1. CASE /\ C!Send(<<C!Cmd("read")>>) /\ ahead >= n
             /\ asked' = [k |-> "prefetch", at |-> "consent", n |-> r, ahead |-> C!Lower(ahead, opened.size - opened.rpos)]
    <3> DEFINE a == C!Lower(ahead, opened.size - opened.rpos)
    <3>1. a \in Int /\ r <= a /\ a <= opened.size - opened.rpos
      BY <1>3, <1>4, <2>1 DEF C!Lower, r
    <3> HIDE DEF a
    <3>2. asked'.k = "prefetch" /\ asked'.at = "consent" /\ asked'.n = r /\ asked'.ahead = a /\ asked' # C!Idle
      BY <2>1 DEF a, C!Idle
    <3>3. (C!Asked)' = <<C!Cmd("read")>>
      <4>1. (C!Parameters)' = <<>> /\ (C!CommandOf)' = "read"
        BY <3>2, ParametersWillBe
      <4> QED BY <3>2, <4>1, AskedIs, ItemsTyped, PairOf DEF C!Commands
    <3>4. C!CallInRange'
      BY <1>3, <1>4, <1>7, <1>2, <3>1, <3>2 DEF C!CallInRange
    <3> QED BY <1>2, <1>7, <2>1, <3>2, <3>3, <3>4, CallStaysInStep
  <2>2. CASE C!Ask(r)
    <3>1. asked' = [k |-> "read", at |-> "consent", n |-> r] /\ C!Send(<<C!Cmd("read"), C!Req(opened.rpos, r)>>)
      BY <2>2 DEF C!Ask
    <3>2. asked'.k = "read" /\ asked'.at = "consent" /\ asked'.n = r /\ asked' # C!Idle
      BY <3>1 DEF C!Idle
    <3>3. (C!Asked)' = <<C!Cmd("read"), C!Req(opened.rpos, r)>>
      <4>1. (C!Parameters)' = <<C!Req(opened.rpos, r)>> /\ (C!CommandOf)' = "read"
        BY <1>7, <3>2, ParametersWillBe
      <4> QED BY <1>3, <1>4, <3>2, <4>1, AskedIs, SendingAsked
    <3>4. C!CallInRange'
      BY <1>3, <1>4, <1>7, <1>2, <3>2 DEF C!CallInRange
    <3> QED BY <1>2, <1>7, <3>1, <3>2, <3>3, <3>4, CallStaysInStep
  <2> QED BY <1>7, <2>1, <2>2
<1> QED BY <1>5, <1>6, <1>7

LEMMA WriteInStep ==
  ASSUME ClientBasics, ClientBasics', C!InStep, NEW n \in 1 .. 2, C!Write(n)
  PROVE  C!InStep'
<1> DEFINE d == [i \in 1 .. n |-> did + 2]
<1>1. /\ UNCHANGED <<file, slave, up, toClient, skew, view, out, opened, download, mixed>>
      /\ asked = C!Idle /\ opened.open /\ C!Send(<<C!Cmd("write"), C!Req(opened.wpos, n)>>)
      /\ asked' = [k |-> "write", at |-> "consent", d |-> d]
  BY DEF C!Write, C!Ready, C!data
<1>2. Len(d) = n /\ opened.wpos \in Nat
  BY HandleTypes, Same DEF ClientBasics
<1>3. asked'.k = "write" /\ asked'.at = "consent" /\ Len(asked'.d) = n /\ asked' # C!Idle
  BY <1>1, <1>2 DEF C!Idle
<1>4. (C!Asked)' = <<C!Cmd("write"), C!Req(opened.wpos, n)>>
  <2>1. (C!Parameters)' = <<C!Req(opened.wpos, n)>> /\ (C!CommandOf)' = "write"
    BY <1>1, <1>3, ParametersWillBe
  <2> QED BY <1>2, <1>3, <2>1, AskedIs, SendingAsked
<1>5. C!CallInRange'
  BY <1>1, <1>3 DEF C!InStep, C!CallInRange
<1> QED BY <1>1, <1>3, <1>4, <1>5, CallStaysInStep

LEMMA UploadInStep ==
  ASSUME ClientBasics, ClientBasics', C!InStep, C!Upload(2)
  PROVE  C!InStep'
<1> DEFINE d == [i \in 1 .. 2 |-> did + 2]
<1>1. /\ UNCHANGED <<file, slave, up, toClient, skew, view, out, opened, download, mixed>>
      /\ asked = C!Idle /\ opened.open /\ C!Send(<<C!Cmd("upload"), C!Req(0, 2)>>)
      /\ asked' = [k |-> "upload", at |-> "consent", d |-> d]
  BY DEF C!Upload, C!Ready, C!data
<1>2. Len(d) = 2
  BY HandleTypes, Same DEF ClientBasics
<1>3. asked'.k = "upload" /\ asked'.at = "consent" /\ Len(asked'.d) = 2 /\ asked' # C!Idle
  BY <1>1, <1>2 DEF C!Idle
<1>4. (C!Asked)' = <<C!Cmd("upload"), C!Req(0, 2)>>
  <2>1. (C!Parameters)' = <<C!Req(0, 2)>> /\ (C!CommandOf)' = "upload"
    BY <1>1, <1>3, ParametersWillBe
  <2> QED BY <1>2, <1>3, <2>1, AskedIs, SendingAsked
<1>5. C!CallInRange'
  BY <1>1, <1>3 DEF C!InStep, C!CallInRange
<1> QED BY <1>1, <1>3, <1>4, <1>5, CallStaysInStep

LEMMA DownloadInStep ==
  ASSUME ClientBasics, ClientBasics', C!InStep, NEW cont \in BOOLEAN, C!Download(cont)
  PROVE  C!InStep'
<1> DEFINE l == IF opened.size > Len(download') THEN opened.size - Len(download') ELSE 0
<1>1. /\ UNCHANGED <<file, slave, up, toClient, skew, view, opened, out>>
      /\ asked = C!Idle /\ opened.open /\ C!Send(<<C!Cmd("download"), C!Req(Len(download'), 0)>>)
      /\ download' = (IF cont THEN download ELSE <<>>) /\ mixed' = (cont /\ mixed)
      /\ asked' = [k |-> "download", at |-> "consent", left |-> l]
  BY DEF C!Download, C!Ready, C!data
<1>2. Len(download') \in Nat
  BY LenProperties DEF ClientBasics, C!TypeOK
<1>3. asked'.k = "download" /\ asked'.at = "consent" /\ asked'.left = l /\ asked' # C!Idle
  BY <1>1 DEF C!Idle
<1>4. (C!Asked)' = <<C!Cmd("download"), C!Req(Len(download'), 0)>>
  <2>1. (C!Parameters)' = <<C!Req(Len(download'), 0)>> /\ (C!CommandOf)' = "download"
    BY <1>3, ParametersWillBe
  <2> QED BY <1>2, <1>3, <2>1, AskedIs, SendingAsked
<1>5. C!CallInRange'
  BY <1>1, <1>3 DEF C!InStep, C!CallInRange
<1>6. download' = <<>> \/ UNCHANGED <<download, mixed>>
  <2>1. CASE cont = TRUE
    <3>1. mixed \in BOOLEAN
      BY DEF ClientBasics, C!TypeOK
    <3>2. mixed' = mixed
      BY <1>1, <2>1, <3>1
    <3> QED BY <1>1, <2>1, <3>2
  <2>2. CASE cont = FALSE
    BY <1>1, <2>2
  <2> QED BY <2>1, <2>2
<1> QED BY <1>1, <1>3, <1>4, <1>5, <1>6, CallStaysInStep

LEMMA CloseInStep ==
  ASSUME ClientBasics, ClientBasics', C!InStep, C!Close
  PROVE  C!InStep'
<1>1. /\ UNCHANGED <<file, slave, up, toClient, skew, view, opened, out, download, mixed>>
      /\ asked = C!Idle /\ C!Send(<<C!Cmd("close")>>) /\ asked' = [k |-> "close", at |-> "consent"]
  BY DEF C!Close, C!data
<1>2. asked'.k = "close" /\ asked'.at = "consent" /\ asked' # C!Idle
  BY <1>1 DEF C!Idle
<1>3. (C!Asked)' = <<C!Cmd("close")>>
  <2>1. (C!Parameters)' = <<>> /\ (C!CommandOf)' = "close"
    BY <1>2, ParametersWillBe
  <2> QED BY <1>2, <2>1, AskedIs, ItemsTyped, PairOf DEF C!Commands
<1>4. C!CallInRange'
  BY <1>1, <1>2 DEF C!InStep, C!CallInRange
<1> QED BY <1>1, <1>2, <1>3, <1>4, CallStaysInStep

LEMMA SeekInStep ==
  ASSUME ClientBasics, ClientBasics', C!InStep, NEW g \in BOOLEAN, NEW p \in {0, 1}, C!Seek(g, p)
  PROVE  C!InStep'
<1>1. /\ UNCHANGED <<file, slave, up, toSlave, toClient, skew, view, asked, download, mixed, out>>
      /\ asked = C!Idle /\ opened.open
      /\ opened' = [opened EXCEPT !.wpos = p] \/ (p <= opened.size /\ opened' = [opened EXCEPT !.rpos = p])
  BY DEF C!Seek, C!data, C!session, C!Ready
<1>2. opened \in C!Handles /\ opened.rpos <= opened.size
  BY <1>1 DEF ClientBasics, C!TypeOK, C!InStep, C!CallInRange
<1>3. /\ opened'.open = opened.open /\ opened'.file = opened.file /\ opened'.wr = opened.wr
      /\ opened'.size = opened.size /\ opened'.rpos <= opened.size
  <2>1. CASE opened' = [opened EXCEPT !.wpos = p]
    BY <1>2, <2>1 DEF C!Handles
  <2>2. CASE p <= opened.size /\ opened' = [opened EXCEPT !.rpos = p]
    BY <1>2, <2>2 DEF C!Handles
  <2> QED BY <1>1, <2>1, <2>2
<1> QED BY <1>1, <1>3, MoveInStep

\* The call goes on, and nothing is written meanwhile.
LEMMA AskedInStep ==
  ASSUME C!InStep, UNCHANGED <<opened, up, slave, file, view, download, mixed, out, skew>>, asked' # C!Idle,
         C!CallInRange', up, ~C!Pending, ~C!Pending', C!NotSeen' \/ C!Seen' \/ C!Answered' \/ C!Over'
  PROVE  C!InStep'
<1>1. C!SlaveReadsTrue' /\ C!DownloadWhole'
  BY DEF C!InStep, C!SlaveReadsTrue, C!DownloadWhole
<1>2. C!Serves' = C!Serves
  BY DEF C!Serves
<1>3. (C!Settled)' = C!Settled
  BY DEF C!Settled
<1>4. C!LocalTrue' /\ (C!ViewTrue' <=> C!ViewTrue)
  BY <1>3 DEF C!InStep, C!LocalTrue, C!ViewTrue
<1> QED BY <1>1, <1>2, <1>4 DEF C!InStep

\* The call goes on: only where it is has changed.
LEMMA CallGoesOn ==
  ASSUME C!TypeOK, asked # C!Idle, asked.k \in {"read", "prefetch", "download"}, asked' = [asked EXCEPT !.at = "data"]
  PROVE  /\ asked'.k = asked.k /\ asked'.at = "data" /\ asked' # C!Idle
         /\ asked.k = "read" => asked'.n = asked.n
         /\ asked.k = "prefetch" => asked'.n = asked.n /\ asked'.ahead = asked.ahead
         /\ asked.k = "download" => asked'.left = asked.left
         /\ asked.k = "prefetch" => asked.n \in Int /\ asked.ahead \in Int
<1>1. asked \in C!Calls
  BY DEF C!TypeOK
<1>2. CASE asked.k = "read"
  <2>1. asked \in [k : {"read"}, at : {"consent", "data"}, n : Int]
    BY <1>1, <1>2, CallShapes
  <2> QED BY <2>1 DEF C!Idle
<1>3. CASE asked.k = "prefetch"
  <2>1. asked \in [k : {"prefetch"}, at : {"consent", "data"}, n : Int, ahead : Int]
    BY <1>1, <1>3, CallShapes
  <2> QED BY <2>1 DEF C!Idle
<1>4. CASE asked.k = "download"
  <2>1. asked \in [k : {"download"}, at : {"consent", "data"}, left : Nat]
    BY <1>1, <1>4, CallShapes
  <2> QED BY <2>1 DEF C!Idle
<1> QED BY <1>2, <1>3, <1>4

LEMMA InRangeGoesOn ==
  ASSUME C!CallInRange, UNCHANGED <<opened, view, download>>, asked'.k = asked.k,
         asked.k \in {"read", "prefetch"} => asked'.n = asked.n,
         asked.k = "prefetch" => asked'.ahead = asked.ahead, asked.k = "download" => asked'.left = asked.left
  PROVE  C!CallInRange'
BY DEF C!CallInRange

\* The client's data are on their way.
LEMMA DataOnTheirWay ==
  ASSUME ClientBasics, ClientBasics', C!InStep, up, UNCHANGED <<file, slave, skew, download, up>>,
         asked # C!Idle, asked' = C!Idle, asked.k \in {"write", "upload"}, out'.k = asked.k, opened.open,
         NEW o \in Nat, asked.d \in Seq(Nat), view' = C!Written(view, o, asked.d), ~mixed' => ~mixed /\ Len(download) <= o,
         opened'.open, opened'.file = opened.file, opened'.wr = opened.wr, opened'.rpos = opened.rpos,
         opened'.size = opened.size \/ opened'.size = o + Len(asked.d), opened.size <= opened'.size, toClient' = <<>>,
         \/ /\ slave.st = asked.k /\ toSlave' = <<C!Req(o, Len(asked.d)), C!Block(asked.d)>> /\ Len(toSlave) = 1
         \/ C!Over' /\ slave.st = "off"
  PROVE  C!InStep'
<1>1. C!TypeOK /\ C!TypeOK' /\ C!OneFile
  BY DEF ClientBasics
<1>2. /\ Len(view) \in Nat /\ Len(asked.d) \in Nat /\ opened.size \in Nat /\ opened.rpos \in Nat /\ opened'.size \in Nat
      /\ view \in Seq(Nat) /\ download \in Seq(Nat) /\ file[opened.file] \in Seq(Nat) /\ Len(download) \in Nat
  BY <1>1, HandleTypes, LenProperties DEF C!TypeOK, C!Handles
<1>3. /\ view' \in Seq(Nat) /\ Len(view') >= Len(view) /\ Len(view') >= o + Len(asked.d) /\ Len(view') \in Nat
  BY <1>2, WrittenType
<1>4. C!CallInRange'
  <2>1. opened.rpos <= opened.size /\ opened.size <= Len(view)
    BY DEF C!InStep, C!CallInRange
  <2> QED BY <1>2, <1>3, <2>1 DEF C!CallInRange, C!Idle
<1>5. C!SlaveReadsTrue' /\ C!DownloadWhole'
  BY DEF C!SlaveReadsTrue, C!DownloadWhole
<1>6. C!Serves' = C!Serves /\ ~C!Pending
  <2>1. C!Serves' = C!Serves
    BY DEF C!Serves
  <2>2. Len(toSlave) = 1 => ~(Len(toSlave) >= 2)
    OBVIOUS
  <2>3. slave.st = "off" => ~C!Pending
    BY DEF C!Pending
  <2>4. Len(toSlave) = 1 => ~C!Pending
    BY <2>2 DEF C!Pending
  <2> QED BY <2>1, <2>3, <2>4
<1>7. ~mixed' => C!IsPrefix(download, file[opened.file]) /\ C!IsPrefix(download, view')
  <2> SUFFICES ASSUME ~mixed'
               PROVE  C!IsPrefix(download, file[opened.file]) /\ C!IsPrefix(download, view')
    OBVIOUS
  <2>1. C!IsPrefix(download, file[opened.file]) /\ C!IsPrefix(download, view)
    BY DEF C!InStep, C!LocalTrue
  <2> QED BY <1>2, <2>1, PrefixWritten
<1>8. CASE slave.st = asked.k /\ toSlave' = <<C!Req(o, Len(asked.d)), C!Block(asked.d)>>
  <2>1. C!Req(o, Len(asked.d)) \in C!ToSlave /\ C!Block(asked.d) \in C!ToSlave
        /\ C!Req(o, Len(asked.d)).off = o /\ C!Block(asked.d).d = asked.d
    BY <1>2, ItemsTyped
  <2>2. Len(toSlave') = 2 /\ toSlave'[1] = C!Req(o, Len(asked.d)) /\ toSlave'[2] = C!Block(asked.d)
    BY <1>8
  <2>3. C!Pending'
    BY <1>8, <2>2 DEF C!Pending
  <2>4. opened.wr /\ C!Serves
    BY <1>1, <1>8 DEF C!OneFile, C!Serves
  <2>5. view = file[opened.file]
    <3>1. C!ViewTrue
      BY <2>4 DEF C!InStep
    <3> QED BY <1>6, <2>4, <3>1 DEF C!ViewTrue, C!Settled
  <2>6. C!ViewTrue'
    <3>1. (C!Settled)' = C!Written(file[opened.file], o, asked.d)
      BY <2>1, <2>2, <2>3 DEF C!Settled
    <3> QED BY <2>4, <2>5, <3>1 DEF C!ViewTrue
  <2>7. C!LocalTrue'
    BY <1>2, <1>7, <2>1, <2>2 DEF C!LocalTrue
  <2>8. C!NotSeen'
    <3>1. SubSeq(toSlave', 3, Len(toSlave')) = <<>>
      BY <1>8, <2>1, <2>2
    <3>2. (C!Asked)' = <<>>
      BY DEF C!Asked
    <3> QED BY <2>3, <3>1, <3>2 DEF C!NotSeen
  <2> QED BY <1>4, <1>5, <2>6, <2>7, <2>8 DEF C!InStep
<1>9. CASE C!Over' /\ slave.st = "off"
  <2>1. ~C!Pending' /\ ~C!Serves'
    BY <1>9 DEF C!Pending, C!Serves
  <2>2. C!LocalTrue'
    BY <1>7, <2>1 DEF C!LocalTrue
  <2> QED BY <1>4, <1>5, <1>9, <2>1, <2>2 DEF C!InStep
<1> QED BY <1>8, <1>9

LEMMA ConsentMixes ==
  ASSUME C!TypeOK, C!Consent, C!AsConsent(Head(toClient)), asked.k \in {"write", "upload"}, asked.d \in Seq(Nat),
         NEW o, o = IF asked.k = "write" THEN opened.wpos ELSE 0, ~mixed'
  PROVE  ~mixed /\ Len(download) <= o
<1>1. CASE asked.k = "write"
  <2>1. mixed' = (mixed \/ opened.wpos < Len(download))
    BY <1>1 DEF C!Consent
  <2>2. ~mixed /\ ~(opened.wpos < Len(download))
    BY <2>1
  <2>3. opened.wpos \in Nat /\ Len(download) \in Nat /\ o = opened.wpos
    BY <1>1, HandleTypes
  <2>4. ~(opened.wpos < Len(download)) => Len(download) <= o
    BY <2>3
  <2> QED BY <2>2, <2>4
<1>2. CASE asked.k = "upload"
  <2>1. mixed' = (mixed \/ download # <<>>)
    BY <1>2 DEF C!Consent
  <2>2. ~mixed /\ download = <<>>
    BY <2>1
  <2>3. Len(<<>>) = 0 /\ o = 0
    BY <1>2
  <2> QED BY <2>2, <2>3
<1> QED BY <1>1, <1>2

LEMMA ConsentMoves ==
  ASSUME C!TypeOK, C!Consent, C!AsConsent(Head(toClient)), asked.k \in {"write", "upload"}, asked.d \in Seq(Nat), opened.open,
         NEW o, o = IF asked.k = "write" THEN opened.wpos ELSE 0
  PROVE  /\ opened'.open /\ opened'.file = opened.file /\ opened'.wr = opened.wr /\ opened'.rpos = opened.rpos
         /\ opened'.size = opened.size \/ opened'.size = o + Len(asked.d)
         /\ opened.size <= opened'.size
<1>1. opened \in C!Handles /\ Len(asked.d) \in Nat
  BY LenProperties DEF C!TypeOK
<1>2. CASE asked.k = "write"
  <2> DEFINE e == opened.wpos + Len(asked.d)
             z == IF e > opened.size THEN e ELSE opened.size
  <2>1. opened' = [opened EXCEPT !.wpos = e, !.size = IF e > @ THEN e ELSE @]
    BY <1>2 DEF C!Consent
  <2>2. opened' = [opened EXCEPT !.wpos = e, !.size = z]
    BY <1>1, <2>1 DEF C!Handles
  <2>0. opened.size \in Nat /\ opened.wpos \in Nat /\ Len(asked.d) \in Nat
    BY <1>1, HandleTypes
  <2>3. e \in Nat /\ z \in Nat /\ opened.size \in Nat /\ (z = opened.size \/ z = e) /\ opened.size <= z
    BY <2>0
  <2> HIDE DEF e, z
  <2>4. /\ opened'.open = opened.open /\ opened'.file = opened.file /\ opened'.wr = opened.wr
        /\ opened'.rpos = opened.rpos /\ opened'.size = z
    BY <1>1, <2>2 DEF C!Handles
  <2> QED BY <1>2, <2>3, <2>4 DEF e
<1>3. CASE asked.k = "upload"
  <2>1. opened' = opened
    BY <1>3 DEF C!Consent
  <2> QED BY <2>1, HandleTypes
<1> QED BY <1>2, <1>3

LEMMA SeenConsent ==
  ASSUME ClientBasics, ClientBasics', C!InStep, C!Consent, C!Seen
  PROVE  C!InStep'
<1>1. C!TypeOK /\ C!OneFile
  BY DEF ClientBasics
<1>2. /\ asked # C!Idle /\ asked.at = "consent" /\ toClient # <<>> /\ toClient' = Tail(toClient)
      /\ UNCHANGED <<file, slave, skew>>
  BY ConsentStep
<1>3. up /\ opened.open /\ asked \in C!Calls
  BY <1>1, <1>2, WaitingIsUp DEF C!TypeOK
<1>4. toClient' = <<>> /\ C!AsConsent(Head(toClient))
  <2>1. toClient = <<C!Yes>>
    BY <1>2 DEF C!Seen, C!Told
  <2> QED BY <1>2, <2>1 DEF C!AsConsent, C!Yes
<1>5. slave.st = C!CommandOf /\ toSlave = C!Parameters /\ asked.k # "close"
  BY DEF C!Seen
<1>6. asked.k \in {"read", "prefetch", "download", "write", "upload"}
  BY <1>2, <1>3, <1>5, CallShapes
<1>7. slave.st \in {"read", "download", "write", "upload"}
  BY <1>5, <1>6 DEF C!CommandOf
<1>8. ASSUME NEW items, C!Send(items)
      PROVE  toSlave' = toSlave \o items
  BY <1>3, <1>7, <1>8 DEF C!Send
<1>9. CASE asked.k = "prefetch"
  <2>1. /\ C!Send(<<C!Req(opened.rpos, asked.ahead)>>) /\ asked' = [asked EXCEPT !.at = "data"]
        /\ UNCHANGED <<opened, download, mixed, view, out, up>>
    BY <1>4, <1>9 DEF C!Consent
  <2>2. asked'.k = "prefetch" /\ asked'.at = "data" /\ asked'.n = asked.n /\ asked'.ahead = asked.ahead /\ asked' # C!Idle
        /\ asked.ahead \in Int
    BY <1>1, <1>2, <1>9, <2>1, CallGoesOn
  <2>3. toSlave' = <<C!Req(opened.rpos, asked.ahead)>>
    <3>1. toSlave = <<>> /\ slave.st = "read"
      BY <1>2, <1>5, <1>9, ParametersAre
    <3>2. C!Req(opened.rpos, asked.ahead) \in C!ToSlave
      BY <1>1, <2>2, HandleTypes, ItemsTyped
    <3>3. toSlave' = <<>> \o <<C!Req(opened.rpos, asked.ahead)>>
      BY <1>8, <2>1, <3>1
    <3> QED BY <3>2, <3>3, PairOf
  <2>4. (C!Parameters)' = toSlave' /\ (C!CommandOf)' = "read" /\ (C!Told)' = <<>>
    BY <2>1, <2>2, <2>3, ParametersWillBe DEF C!Told
  <2>5. C!CommandOf = "read"
    BY <1>9, ParametersAre
  <2>6. C!Seen'
    BY <1>2, <1>4, <1>5, <2>2, <2>4, <2>5 DEF C!Seen
  <2>7. ~C!Pending /\ ~C!Pending'
    BY <1>2, <1>5, <2>5 DEF C!Pending
  <2>8. C!CallInRange'
    BY <1>9, <2>1, <2>2, InRangeGoesOn DEF C!InStep
  <2> QED BY <1>2, <1>3, <2>1, <2>2, <2>6, <2>7, <2>8, AskedInStep
<1>10. CASE asked.k \in {"read", "download"}
  <2>1. /\ asked' = [asked EXCEPT !.at = "data"]
        /\ UNCHANGED <<opened, download, mixed, view, out, up, toSlave>>
    BY <1>4, <1>10 DEF C!Consent
  <2>2. /\ asked'.k = asked.k /\ asked'.at = "data" /\ asked' # C!Idle
        /\ asked.k = "read" => asked'.n = asked.n
        /\ asked.k = "download" => asked'.left = asked.left
    BY <1>1, <1>2, <1>10, <2>1, CallGoesOn
  <2>3. (C!Parameters)' = C!Parameters /\ (C!CommandOf)' = C!CommandOf /\ (C!Told)' = <<>>
    BY <1>10, <2>1, <2>2, ParametersAre, ParametersWillBe DEF C!Told
  <2>4. C!Seen'
    BY <1>2, <1>4, <1>5, <1>10, <2>1, <2>2, <2>3 DEF C!Seen
  <2>5. slave.st \in {"read", "download"}
    BY <1>5, <1>10, ParametersAre
  <2>6. ~C!Pending /\ ~C!Pending'
    BY <1>2, <2>5 DEF C!Pending
  <2>7. C!CallInRange'
    BY <1>10, <2>1, <2>2, InRangeGoesOn DEF C!InStep
  <2> QED BY <1>2, <1>3, <2>1, <2>2, <2>4, <2>6, <2>7, AskedInStep
<1>11. CASE asked.k \in {"write", "upload"}
  <2> DEFINE o == IF asked.k = "write" THEN opened.wpos ELSE 0
  <2>1. asked.d \in Seq(Nat) /\ Len(asked.d) \in Nat /\ o \in Nat /\ opened \in C!Handles
    <3>1. asked.d \in Seq(Nat)
      BY <1>3, <1>11, CallShapes
    <3> QED BY <1>1, <3>1, HandleTypes, LenProperties DEF C!TypeOK
  <2>2. /\ C!Send(<<C!Block(asked.d)>>) /\ asked' = C!Idle /\ out'.k = asked.k
        /\ view' = C!Written(view, o, asked.d)
        /\ UNCHANGED <<download, up>>
    BY <1>4, <1>11 DEF C!Consent
  <2>3. toSlave = <<C!Req(o, Len(asked.d))>> /\ slave.st = asked.k
    BY <1>5, <1>11, ParametersAre
  <2>4. ~mixed' => ~mixed /\ Len(download) <= o
    BY <1>1, <1>4, <1>11, <2>1, ConsentMixes
  <2>5. /\ opened'.open /\ opened'.file = opened.file /\ opened'.wr = opened.wr /\ opened'.rpos = opened.rpos
        /\ opened'.size = opened.size \/ opened'.size = o + Len(asked.d)
        /\ opened.size <= opened'.size
    BY <1>1, <1>3, <1>4, <1>11, <2>1, ConsentMoves
  <2> HIDE DEF o
  <2>6. toSlave' = <<C!Req(o, Len(asked.d)), C!Block(asked.d)>> /\ Len(toSlave) = 1
    <3>1. C!Req(o, Len(asked.d)) \in C!ToSlave /\ C!Block(asked.d) \in C!ToSlave
      BY <2>1, ItemsTyped
    <3>2. toSlave' = <<C!Req(o, Len(asked.d))>> \o <<C!Block(asked.d)>>
      BY <1>8, <2>2, <2>3
    <3> QED BY <2>3, <3>1, <3>2, TwoOnes
  <2> QED BY <1>2, <1>3, <1>4, <1>11, <2>1, <2>2, <2>3, <2>4, <2>5, <2>6, DataOnTheirWay
<1> QED BY <1>6, <1>9, <1>10, <1>11

LEMMA DataAre ==
  ASSUME C!TypeOK, ClientAssumption, asked.k \in {"read", "prefetch", "download"}
  PROVE  /\ C!DataOf \in Seq(C!ToClient)
         /\ asked.k = "read" => C!DataOf = <<C!Block(C!Piece(view, opened.rpos, asked.n))>>
         /\ asked.k = "prefetch" => C!DataOf = <<C!Block(C!Piece(view, opened.rpos, asked.ahead))>>
         /\ asked.k = "download" => C!DataOf = C!Blocks(SubSeq(view, Len(download) + 1, Len(view)))
<1>1. asked \in C!Calls /\ opened.rpos \in Nat /\ view \in Seq(Nat) /\ Len(download) \in Nat
  BY HandleTypes DEF C!TypeOK
<1>2. /\ asked.k = "read" => C!DataOf = <<C!Block(C!Piece(view, opened.rpos, asked.n))>>
      /\ asked.k = "prefetch" => C!DataOf = <<C!Block(C!Piece(view, opened.rpos, asked.ahead))>>
      /\ asked.k = "download" => C!DataOf = C!Blocks(SubSeq(view, Len(download) + 1, Len(view)))
  BY DEF C!DataOf
<1>3. CASE asked.k = "read"
  <2>1. asked.n \in Int
    BY <1>1, <1>3, CallShapes
  <2>2. C!Block(C!Piece(view, opened.rpos, asked.n)) \in C!ToClient
    BY <1>1, <2>1, PieceType, ItemsTyped
  <2> QED BY <1>2, <1>3, <2>2, PairOf
<1>4. CASE asked.k = "prefetch"
  <2>1. asked.ahead \in Int
    BY <1>1, <1>4, CallShapes
  <2>2. C!Block(C!Piece(view, opened.rpos, asked.ahead)) \in C!ToClient
    BY <1>1, <2>1, PieceType, ItemsTyped
  <2> QED BY <1>2, <1>4, <2>2, PairOf
<1>5. CASE asked.k = "download"
  <2>1. SubSeq(view, Len(download) + 1, Len(view)) \in Seq(Nat)
    BY <1>1, RestType
  <2> QED BY <1>2, <1>5, <2>1, BlocksType, DataShapes
<1> QED BY <1>2, <1>3, <1>4, <1>5

LEMMA YesNo ==
  /\ C!Yes \in C!ToClient /\ C!No \in C!ToClient /\ C!AsConsent(C!Yes) /\ ~C!AsConsent(C!No) /\ C!Yes # C!No
  /\ <<C!Yes>> # <<>> /\ <<C!No>> # <<>> /\ <<C!Yes>> # <<C!No>> /\ <<C!No, C!Yes>> # <<C!No>> /\ <<C!No, C!Yes>> # <<C!Yes>>
  /\ <<C!No, C!Yes>> # <<>>
  /\ Head(<<C!Yes>>) = C!Yes /\ Head(<<C!No>>) = C!No /\ Head(<<C!No, C!Yes>>) = C!No
  /\ Tail(<<C!Yes>>) = <<>> /\ Tail(<<C!No>>) = <<>> /\ Tail(<<C!No, C!Yes>>) = <<C!Yes>>
<1>1. C!Yes \in C!ToClient /\ C!No \in C!ToClient /\ C!AsConsent(C!Yes) /\ ~C!AsConsent(C!No) /\ C!Yes # C!No
  BY DEF C!Yes, C!No, C!ToClient, C!AsConsent
<1>2. \A a, b \in C!ToClient : /\ <<a>> # <<>> /\ <<a, b>> # <<>> /\ <<a, b>> # <<a>> /\ <<a, b>> # <<b>> /\ (a # b => <<a>> # <<b>>)
                               /\ Head(<<a>>) = a /\ Head(<<a, b>>) = a /\ Tail(<<a>>) = <<>> /\ Tail(<<a, b>>) = <<b>>
  OBVIOUS
<1> QED BY <1>1, <1>2

LEMMA AnsweredConsent ==
  ASSUME ClientBasics, ClientAssumption, C!InStep, C!Consent, C!Answered
  PROVE  C!InStep'
<1>1. C!TypeOK /\ C!OneFile
  BY DEF ClientBasics
<1>2. /\ asked # C!Idle /\ asked.at = "consent" /\ toClient # <<>> /\ toClient' = Tail(toClient)
      /\ UNCHANGED <<file, slave, skew>>
  BY ConsentStep
<1>3. up
  BY <1>1, <1>2, WaitingIsUp
<1>4. asked.k \in {"read", "download"}
  BY <1>2 DEF C!Answered
<1>5. toClient = <<C!Yes>> \o C!DataOf
  BY <1>2 DEF C!Answered, C!Told
<1>6. toClient' = C!DataOf /\ C!AsConsent(Head(toClient)) /\ C!DataOf \in Seq(C!ToClient)
  <2>1. C!DataOf \in Seq(C!ToClient) /\ C!Yes \in C!ToClient
    BY <1>1, <1>4, DataAre, YesNo
  <2>2. Head(toClient) = C!Yes /\ Tail(toClient) = C!DataOf
    BY <1>5, <2>1, AfterFirst
  <2> QED BY <1>2, <2>1, <2>2, YesNo
<1>7. /\ asked' = [asked EXCEPT !.at = "data"]
      /\ UNCHANGED <<opened, download, mixed, view, out, up, toSlave>>
  BY <1>4, <1>6 DEF C!Consent
<1>8. /\ asked'.k = asked.k /\ asked'.at = "data" /\ asked' # C!Idle
      /\ asked.k = "read" => asked'.n = asked.n
      /\ asked.k = "download" => asked'.left = asked.left
  BY <1>1, <1>2, <1>4, <1>7, CallGoesOn
<1>9. (C!DataOf)' = C!DataOf /\ (C!Told)' = <<>>
  BY <1>4, <1>7, <1>8 DEF C!DataOf, C!Told
<1>10. C!Answered'
  <2>1. toClient' = (C!Told)' \o (C!DataOf)'
    BY <1>6, <1>9, NothingBefore
  <2> QED BY <1>2, <1>4, <1>7, <1>8, <2>1 DEF C!Answered
<1>11. ~C!Pending /\ ~C!Pending'
  BY <1>2 DEF C!Pending, C!Answered
<1>12. C!CallInRange'
  BY <1>4, <1>7, <1>8, InRangeGoesOn DEF C!InStep
<1> QED BY <1>2, <1>3, <1>7, <1>8, <1>10, <1>11, <1>12, AskedInStep

\* What is left to hear of a session that is over.
LEMMA OverHeard ==
  ASSUME C!TypeOK, C!Over, toClient # <<>>, toClient' = Tail(toClient)
  PROVE  /\ toClient' = <<>> \/ (toClient' = <<C!Yes>> /\ slave.st = "off")
         /\ C!AsConsent(Head(toClient)) => toClient' = <<>> /\ slave.st = "off"
         /\ asked.k = "close" => slave.st = "off"
<1>1. toClient \in {<<C!No>>, <<C!Yes>>, <<C!No, C!Yes>>}
  BY DEF C!Over
<1>2. CASE toClient = <<C!No>>
  BY <1>2, YesNo DEF C!Over
<1>3. CASE toClient = <<C!Yes>>
  BY <1>3, YesNo DEF C!Over
<1>4. CASE toClient = <<C!No, C!Yes>>
  BY <1>4, YesNo DEF C!Over
<1> QED BY <1>1, <1>2, <1>3, <1>4

LEMMA OverStays ==
  ASSUME C!Over, UNCHANGED slave, toClient' = <<>> \/ (toClient' = <<C!Yes>> /\ slave.st = "off"),
         asked' # C!Idle /\ asked'.at = "data" => slave.st = "off" /\ toClient' = <<>>
  PROVE  C!Over' /\ ~C!Serves /\ ~C!Serves' /\ ~C!Pending /\ ~C!Pending'
<1>1. ~C!Serves /\ ~C!Serves' /\ ~C!Pending /\ ~C!Pending'
  BY DEF C!Over, C!Serves, C!Pending
<1> QED BY <1>1, YesNo DEF C!Over

LEMMA OverConsent ==
  ASSUME ClientBasics, ClientBasics', C!InStep, C!Consent, C!Over
  PROVE  C!InStep'
<1>1. C!TypeOK /\ C!OneFile
  BY DEF ClientBasics
<1>2. /\ asked # C!Idle /\ asked.at = "consent" /\ toClient # <<>> /\ toClient' = Tail(toClient)
      /\ UNCHANGED <<file, slave, skew>>
  BY ConsentStep
<1>3. (up = TRUE) /\ opened.open /\ asked \in C!Calls
  BY <1>1, <1>2, WaitingIsUp DEF C!TypeOK
<1>4. /\ toClient' = <<>> \/ (toClient' = <<C!Yes>> /\ slave.st = "off")
      /\ C!AsConsent(Head(toClient)) => toClient' = <<>> /\ slave.st = "off"
      /\ asked.k = "close" => slave.st = "off"
  BY <1>1, <1>2, OverHeard
<1>5. ASSUME asked' = C!Idle \/ asked'.at = "consent" \/ C!AsConsent(Head(toClient))
      PROVE  C!Over' /\ ~C!Serves /\ ~C!Serves' /\ ~C!Pending /\ ~C!Pending'
  <2>1. asked' # C!Idle /\ asked'.at = "data" => slave.st = "off" /\ toClient' = <<>>
    BY <1>4, <1>5
  <2> QED BY <1>2, <1>4, <2>1, OverStays
<1> DEFINE ok == C!AsConsent(Head(toClient))
<1>6. CASE asked.k = "close" /\ C!ClosedNow /\ UNCHANGED <<download, mixed, view, out, toSlave>>
  <2>1. opened' = [opened EXCEPT !.open = FALSE] /\ asked' = C!Idle /\ up' = FALSE
    BY <1>6 DEF C!ClosedNow
  <2>2. ~opened'.open /\ opened'.file = opened.file /\ opened'.size = opened.size
    BY <1>1, <2>1 DEF C!TypeOK, C!Handles
  <2>3. C!CallInRange'
    BY <2>1, <2>2 DEF C!CallInRange, C!Idle
  <2>4. ~C!Pending'
    BY <1>5, <2>1
  <2>5. C!LocalTrue'
    BY <1>2, <1>6, <2>2, <2>4 DEF C!InStep, C!LocalTrue
  <2>6. C!SlaveReadsTrue' /\ C!DownloadWhole'
    BY <1>2, <1>6, <2>2 DEF C!InStep, C!SlaveReadsTrue, C!DownloadWhole
  <2>7. toSlave' = <<>>
    BY <1>1, <1>4, <1>6 DEF C!OneFile
  <2> QED BY <2>1, <2>3, <2>5, <2>6, <2>7 DEF C!InStep
<1>7. CASE /\ asked.k \in {"prefetch", "read", "download"} /\ ok /\ asked' = [asked EXCEPT !.at = "data"]
           /\ UNCHANGED <<opened, download, mixed, view, out, up>>
  <2>1. /\ asked'.k = asked.k /\ asked' # C!Idle
        /\ asked.k \in {"read", "prefetch"} => asked'.n = asked.n
        /\ asked.k = "prefetch" => asked'.ahead = asked.ahead
        /\ asked.k = "download" => asked'.left = asked.left
    BY <1>1, <1>2, <1>7, CallGoesOn
  <2>2. C!CallInRange'
    BY <1>7, <2>1, InRangeGoesOn DEF C!InStep
  <2>3. C!Over' /\ ~C!Pending /\ ~C!Pending'
    BY <1>5, <1>7
  <2> QED BY <1>2, <1>3, <1>7, <2>1, <2>2, <2>3, AskedInStep
<1>8. CASE asked.k = "prefetch" /\ C!Ask(asked.n) /\ UNCHANGED <<opened, download, mixed, view, out, up>>
  <2>1. asked' = [k |-> "read", at |-> "consent", n |-> asked.n]
    BY <1>8 DEF C!Ask
  <2>2. asked' # C!Idle /\ asked'.k = "read" /\ asked'.at = "consent" /\ asked'.n = asked.n
    BY <2>1 DEF C!Idle
  <2>3. C!CallInRange'
    BY <1>8, <2>2 DEF C!InStep, C!CallInRange
  <2>4. C!Over' /\ ~C!Pending /\ ~C!Pending'
    BY <1>5, <2>2
  <2> QED BY <1>2, <1>3, <1>8, <2>2, <2>3, <2>4, AskedInStep
<1>9. CASE asked.k \in {"write", "upload"} /\ ok
  <2> DEFINE o == IF asked.k = "write" THEN opened.wpos ELSE 0
  <2>1. asked.d \in Seq(Nat) /\ Len(asked.d) \in Nat /\ o \in Nat /\ opened \in C!Handles
    <3>1. asked.d \in Seq(Nat)
      BY <1>3, <1>9, CallShapes
    <3> QED BY <1>1, <3>1, HandleTypes, LenProperties DEF C!TypeOK
  <2>2. /\ asked' = C!Idle /\ out'.k = asked.k
        /\ view' = C!Written(view, o, asked.d)
        /\ UNCHANGED <<download, up>>
    BY <1>9 DEF C!Consent
  <2>3. ~mixed' => ~mixed /\ Len(download) <= o
    BY <1>1, <1>9, <2>1, ConsentMixes
  <2>4. /\ opened'.open /\ opened'.file = opened.file /\ opened'.wr = opened.wr /\ opened'.rpos = opened.rpos
        /\ opened'.size = opened.size \/ opened'.size = o + Len(asked.d)
        /\ opened.size <= opened'.size
    BY <1>1, <1>3, <1>9, <2>1, ConsentMoves
  <2>5. C!Over'
    BY <1>5, <2>2
  <2> HIDE DEF o
  <2> QED BY <1>2, <1>3, <1>4, <1>9, <2>1, <2>2, <2>3, <2>4, <2>5, DataOnTheirWay
<1>10. CASE C!Fails(asked.k) /\ asked.k \in {"read", "write", "download", "upload"} /\ UNCHANGED <<opened, download, mixed, view, up, toSlave>>
  <2>1. asked' = C!Idle /\ out'.k = "failed"
    BY <1>10 DEF C!Fails
  <2>2. C!Over' /\ ~C!Pending /\ ~C!Pending' /\ ~C!Serves'
    BY <1>5, <2>1
  <2>3. C!CallInRange'
    BY <1>10, <2>1 DEF C!InStep, C!CallInRange, C!Idle
  <2>4. C!SlaveReadsTrue' /\ C!DownloadWhole'
    BY <2>1 DEF C!SlaveReadsTrue, C!DownloadWhole
  <2>5. C!LocalTrue'
    BY <1>2, <1>10, <2>2 DEF C!InStep, C!LocalTrue
  <2> QED BY <1>3, <1>10, <2>2, <2>3, <2>4, <2>5 DEF C!InStep
<1> QED BY <1>6, <1>7, <1>8, <1>9, <1>10 DEF C!Consent

LEMMA ConsentInStep ==
  ASSUME ClientBasics, ClientBasics', ClientAssumption, C!InStep, C!Consent
  PROVE  C!InStep'
<1>1. toClient # <<>> /\ asked # C!Idle
  BY ConsentStep
<1>2. up
  BY <1>1, WaitingIsUp DEF ClientBasics
<1>3. C!Seen \/ C!Answered \/ C!Over
  BY <1>1, <1>2 DEF C!InStep, C!NotSeen
<1> QED BY <1>3, SeenConsent, AnsweredConsent, OverConsent

LEMMA SubSeqElements ==
  ASSUME NEW s \in Seq(Nat), NEW a \in Nat, NEW b \in Nat, 1 <= a, b <= Len(s), NEW n \in Nat, b = a + n - 1
  PROVE  /\ SubSeq(s, a, b) \in Seq(Nat) /\ Len(SubSeq(s, a, b)) = n
         /\ \A i \in 1 .. n : SubSeq(s, a, b)[i] = s[a + i - 1]
<1>1. Len(s) \in Nat /\ \A i \in 1 .. Len(s) : s[i] \in Nat
  BY LenProperties, ElementOfSeq
<1>2. \A i \in a .. b : s[i] \in Nat
  BY <1>1
<1>3. /\ SubSeq(s, a, b) \in Seq(Nat)
      /\ Len(SubSeq(s, a, b)) = IF a <= b THEN b - a + 1 ELSE 0
      /\ \A i \in 1 .. b - a + 1 : SubSeq(s, a, b)[i] = s[a + i - 1]
  BY <1>2, SubSeqProperties
<1>4. \A i \in 1 .. n : i \in 1 .. b - a + 1
  OBVIOUS
<1>5. Len(SubSeq(s, a, b)) = n
  BY <1>3
<1> QED BY <1>3, <1>4, <1>5

LEMMA Joined ==
  ASSUME NEW l \in Seq(Nat), NEW d \in Seq(Nat)
  PROVE  /\ l \o d \in Seq(Nat) /\ Len(l \o d) = Len(l) + Len(d)
         /\ \A i \in 1 .. Len(l) + Len(d) : (l \o d)[i] = IF i <= Len(l) THEN l[i] ELSE d[i - Len(l)]
BY ConcatProperties

LEMMA PieceLength ==
  ASSUME NEW s \in Seq(Nat), NEW o \in Nat, NEW n \in Nat
  PROVE  C!Piece(s, o, n) \in Seq(Nat) /\ Len(C!Piece(s, o, n)) = n
<1>1. n \in Int /\ n >= 0
  OBVIOUS
<1>2. C!Piece(s, o, n) \in Seq(Nat) /\ Len(C!Piece(s, o, n)) = IF n >= 0 THEN n ELSE 0
  BY <1>1, PieceType
<1> QED BY <1>1, <1>2

\* The end of a sequence, and its beginning.
LEMMA RestElements ==
  ASSUME NEW s \in Seq(Nat), NEW c \in Nat, NEW b \in Nat, 1 <= c, b = Len(s), c <= b + 1
  PROVE  /\ SubSeq(s, c, b) \in Seq(Nat) /\ Len(SubSeq(s, c, b)) = b - c + 1
         /\ \A i \in 1 .. b - c + 1 : SubSeq(s, c, b)[i] = s[c + i - 1]
<1>1. \A i \in 1 .. Len(s) : s[i] \in Nat
  BY ElementOfSeq
<1>2. \A i \in c .. b : s[i] \in Nat
  BY <1>1
<1>3. /\ SubSeq(s, c, b) \in Seq(Nat)
      /\ Len(SubSeq(s, c, b)) = IF c <= b THEN b - c + 1 ELSE 0
      /\ \A i \in 1 .. b - c + 1 : SubSeq(s, c, b)[i] = s[c + i - 1]
  BY <1>2, SubSeqProperties
<1>4. c = b + 1 => b - c + 1 = 0
  OBVIOUS
<1>5. Len(SubSeq(s, c, b)) = b - c + 1
  BY <1>3, <1>4
<1> QED BY <1>3, <1>5

LEMMA BeginElements ==
  ASSUME NEW s \in Seq(Nat), NEW m \in Nat, m <= Len(s)
  PROVE  /\ SubSeq(s, 1, m) \in Seq(Nat) /\ Len(SubSeq(s, 1, m)) = m
         /\ \A i \in 1 .. m : SubSeq(s, 1, m)[i] = s[i]
<1>1. 1 \in Nat /\ 1 <= 1 /\ m = 1 + m - 1 /\ \A i \in 1 .. m : 1 + i - 1 = i
  OBVIOUS
<1>2. /\ SubSeq(s, 1, m) \in Seq(Nat) /\ Len(SubSeq(s, 1, m)) = m
      /\ \A i \in 1 .. m : SubSeq(s, 1, m)[i] = s[1 + i - 1]
  BY <1>1, SubSeqElements
<1> QED BY <1>1, <1>2

\* The next block of the rest of a file, and what is left after it.
LEMMA Further ==
  ASSUME NEW a \in Nat, NEW b \in Nat, NEW m \in Nat, NEW c, c = b - a, NEW f, f = a + m, a <= b, m <= c
  PROVE  /\ c \in Nat /\ f \in Nat /\ f <= b /\ c - m = b - f /\ c - m \in Nat
         /\ \A i \in 1 .. c - m : m + i \in 1 .. c /\ a + (m + i) = f + i
         /\ \A i \in 1 .. f : ~(i <= a) => i - a \in 1 .. m /\ i - a \in 1 .. c /\ a + (i - a) = i
         /\ \A i \in 1 .. f : i <= a => i \in 1 .. a
OBVIOUS

NextBlock(l, v, r, d) ==
  /\ l \in Seq(Nat) /\ v \in Seq(Nat) /\ Len(l) <= Len(v)
  /\ r \in Seq(Nat) /\ Len(r) = Len(v) - Len(l) /\ \A i \in 1 .. Len(r) : r[i] = v[Len(l) + i]
  /\ d \in Seq(Nat) /\ Len(d) <= Len(r) /\ \A i \in 1 .. Len(d) : d[i] = r[i]

LEMMA NextOfRest ==
  ASSUME NEW l, NEW v, NEW r, NEW d, NextBlock(l, v, r, d)
  PROVE  /\ l \o d \in Seq(Nat) /\ Len(l \o d) = Len(l) + Len(d) /\ Len(l \o d) <= Len(v)
         /\ SubSeq(r, Len(d) + 1, Len(r)) = SubSeq(v, Len(l \o d) + 1, Len(v))
         /\ C!IsPrefix(l, v) => C!IsPrefix(l \o d, v)
<1> DEFINE a == Len(l)
           b == Len(v)
           c == Len(r)
           m == Len(d)
           f == a + m
           e == l \o d
<1>0. /\ a \in Nat /\ b \in Nat /\ c \in Nat /\ m \in Nat /\ a <= b /\ m <= c /\ c = b - a /\ f = a + m
      /\ l \in Seq(Nat) /\ a = Len(l) /\ v \in Seq(Nat) /\ b = Len(v) /\ r \in Seq(Nat) /\ c = Len(r) /\ d \in Seq(Nat) /\ m = Len(d)
      /\ (\A i \in 1 .. c : r[i] = v[a + i]) /\ \A i \in 1 .. m : d[i] = r[i]
  BY LenProperties DEF NextBlock
<1>5. e = l \o d
  OBVIOUS
<1> HIDE DEF a, b, c, m, f, e
<1>1. /\ c \in Nat /\ f \in Nat /\ f <= b /\ c - m = b - f /\ c - m \in Nat
      /\ \A i \in 1 .. c - m : m + i \in 1 .. c /\ a + (m + i) = f + i
      /\ \A i \in 1 .. f : ~(i <= a) => i - a \in 1 .. m /\ i - a \in 1 .. c /\ a + (i - a) = i
      /\ \A i \in 1 .. f : i <= a => i \in 1 .. a
  BY <1>0, Further
<1>2. /\ e \in Seq(Nat) /\ Len(e) = f
      /\ \A i \in 1 .. f : e[i] = IF i <= a THEN l[i] ELSE d[i - a]
  BY <1>0, <1>5, Joined
<1>3. SubSeq(r, m + 1, c) = SubSeq(v, f + 1, b)
  <2> DEFINE m1 == m + 1
             f1 == f + 1
             x == SubSeq(r, m1, c)
             y == SubSeq(v, f1, b)
  <2>1. /\ m1 \in Nat /\ 1 <= m1 /\ m1 <= c + 1 /\ c - m1 + 1 = c - m
        /\ \A i \in 1 .. c - m : m1 + i - 1 = m + i
    BY <1>0, <1>1
  <2>2. /\ f1 \in Nat /\ 1 <= f1 /\ f1 <= b + 1 /\ b - f1 + 1 = b - f
        /\ \A i \in 1 .. b - f : f1 + i - 1 = f + i
    BY <1>0, <1>1
  <2>5. m1 = m + 1 /\ f1 = f + 1
    OBVIOUS
  <2> HIDE DEF m1, f1
  <2>6. x \in Seq(Nat) /\ Len(x) = c - m /\ \A i \in 1 .. c - m : x[i] = r[m + i]
    <3>1. x \in Seq(Nat) /\ Len(x) = c - m1 + 1 /\ \A i \in 1 .. c - m1 + 1 : x[i] = r[m1 + i - 1]
      <4>1. r \in Seq(Nat) /\ m1 \in Nat /\ c \in Nat /\ 1 <= m1 /\ c = Len(r) /\ m1 <= c + 1
        BY <1>0, <2>1
      <4> QED BY <4>1, RestElements
    <3> HIDE DEF x
    <3> QED BY <2>1, <3>1
  <2>7. y \in Seq(Nat) /\ Len(y) = b - f /\ \A i \in 1 .. b - f : y[i] = v[f + i]
    <3>1. y \in Seq(Nat) /\ Len(y) = b - f1 + 1 /\ \A i \in 1 .. b - f1 + 1 : y[i] = v[f1 + i - 1]
      <4>1. v \in Seq(Nat) /\ f1 \in Nat /\ b \in Nat /\ 1 <= f1 /\ b = Len(v) /\ f1 <= b + 1
        BY <1>0, <2>2
      <4> QED BY <4>1, RestElements
    <3> HIDE DEF y
    <3> QED BY <2>2, <3>1
  <2> HIDE DEF x, y
  <2>3. \A i \in 1 .. c - m : x[i] = y[i]
    <3> TAKE i \in 1 .. c - m
    <3>1. x[i] = r[m + i] /\ y[i] = v[f + i]
      BY <1>0, <1>1, <2>6, <2>7
    <3>2. r[m + i] = v[a + (m + i)] /\ a + (m + i) = f + i
      BY <1>0, <1>1
    <3> QED BY <3>1, <3>2
  <2>4. x = y
    <3>1. Len(x) = Len(y) /\ \A i \in 1 .. Len(x) : x[i] = y[i]
      BY <1>0, <1>1, <2>3, <2>6, <2>7
    <3> QED BY <2>6, <2>7, <3>1, SeqEqual
  <2> QED BY <2>4, <2>5 DEF x, y
<1>4. ASSUME C!IsPrefix(l, v)
      PROVE  C!IsPrefix(e, v)
  <2>1. \A i \in 1 .. a : l[i] = v[i]
    BY <1>0, <1>4, PrefixElements
  <2>2. ASSUME NEW i \in 1 .. f
        PROVE  e[i] = v[i]
    <3>1. CASE i <= a
      BY <1>0, <1>1, <1>2, <2>1, <3>1
    <3>2. CASE ~(i <= a)
      <4>1. i - a \in 1 .. m /\ i - a \in 1 .. c /\ a + (i - a) = i /\ e[i] = d[i - a]
        BY <1>0, <1>1, <1>2, <3>2
      <4>2. d[i - a] = r[i - a] /\ r[i - a] = v[a + (i - a)]
        BY <1>0, <4>1
      <4> QED BY <4>1, <4>2
    <3> QED BY <3>1, <3>2
  <2> QED BY <1>0, <1>1, <1>2, <2>2, PrefixElements
<1>6. f = Len(e)
  BY <1>2
<1> QED BY <1>0, <1>1, <1>2, <1>3, <1>4, <1>6 DEF a, b, c, m, e

\* From a block that begins at the offset, a read takes what it wanted.
LEMMA CachedPiece ==
  ASSUME NEW v \in Seq(Nat), NEW o \in Nat, NEW n \in Nat, NEW a \in Nat, n <= a
  PROVE  C!Cached([off |-> o, data |-> C!Piece(v, o, a)], o, n) = C!Piece(v, o, n)
<1> DEFINE p == C!Piece(v, o, a)
           b == [off |-> o, data |-> p]
<1>1. Len(p) = a
  BY PieceType
<1>2. p = [i \in 1 .. a |-> IF o + i \in DOMAIN v THEN v[o + i] ELSE C!Garbage]
  BY DEF C!Piece
<1> HIDE DEF p
<1>3. b.off = o /\ b.data = p
  OBVIOUS
<1> HIDE DEF b
<1>4. \A i \in 1 .. n : (IF o + i > b.off /\ o + i <= b.off + Len(b.data) THEN b.data[o + i - b.off] ELSE C!Garbage)
                          = (IF o + i \in DOMAIN v THEN v[o + i] ELSE C!Garbage)
  <2> TAKE i \in 1 .. n
  <2>1. o + i > b.off /\ o + i <= b.off + Len(b.data) /\ o + i - b.off = i /\ i \in 1 .. a
    BY <1>1, <1>3
  <2> QED BY <1>2, <1>3, <2>1
<1>5. C!Cached(b, o, n) = C!Piece(v, o, n)
  BY <1>4 DEF C!Cached, C!Piece
<1> QED BY <1>5 DEF b, p

LEMMA ReceivedInStep ==
  ASSUME ClientBasics, ClientBasics', ClientAssumption, C!InStep, C!Received
  PROVE  C!InStep'
<1>1. C!TypeOK /\ C!OneFile
  BY DEF ClientBasics
<1>2. /\ asked # C!Idle /\ asked.at = "data" /\ toClient # <<>> /\ toClient' = Tail(toClient)
      /\ UNCHANGED <<file, mixed, view, up, toSlave, slave, skew>>
  BY DEF C!Received, C!data
<1>3. opened.open /\ (up = TRUE)
  BY <1>1, <1>2, WaitingIsUp DEF C!TypeOK
<1>4. C!Answered
  BY <1>2, <1>3 DEF C!InStep, C!NotSeen, C!Seen, C!Over, C!Told
<1>5. /\ asked.k \in {"read", "prefetch", "download"} /\ slave.st = "cmd" /\ toSlave = <<>>
      /\ asked.k = "download" => opened.size = Len(view)
  BY <1>4 DEF C!Answered
<1>6. toClient = C!DataOf /\ C!DataOf \in Seq(C!ToClient)
  <2>1. C!DataOf \in Seq(C!ToClient) /\ C!Told = <<>>
    BY <1>1, <1>2, <1>5, DataAre DEF C!Told
  <2> QED BY <1>4, <2>1, NothingBefore DEF C!Answered
<1>7. /\ opened.rpos \in Nat /\ opened.size \in Nat /\ view \in Seq(Nat) /\ Len(view) \in Nat /\ download \in Seq(Nat)
      /\ Len(download) \in Nat /\ opened.rpos <= opened.size /\ opened.size <= Len(view) /\ file[opened.file] \in Seq(Nat)
      /\ asked \in C!Calls
  BY <1>1, <1>3, HandleTypes DEF C!InStep, C!CallInRange, C!TypeOK
<1>8. C!Serves /\ C!Serves' /\ ~C!Pending /\ ~C!Pending'
  BY <1>2, <1>5 DEF C!Serves, C!Pending
<1>9. C!ViewTrue
  BY <1>3, <1>8 DEF C!InStep
<1>10. ASSUME asked' = C!Idle, toClient' = <<>>
       PROVE  C!NotSeen'
  BY <1>2, <1>5, <1>10 DEF C!NotSeen, C!Asked
<1> DEFINE d == C!AsData(Head(toClient))
<1>11. ASSUME NEW n \in Nat, opened.rpos + n <= opened.size, C!ReadGives(C!Piece(view, opened.rpos, n), "slave"),
              asked' = C!Idle, UNCHANGED download, toClient' = <<>>
       PROVE  C!InStep'
  <2>1. Len(C!Piece(view, opened.rpos, n)) = n
    BY <1>7, <1>11, PieceLength
  <2>2. /\ out'.k = "read" /\ out'.right = TRUE /\ opened' = [opened EXCEPT !.rpos = @ + n]
    BY <1>11, <2>1 DEF C!ReadGives
  <2>3. /\ opened'.file = opened.file /\ opened'.wr = opened.wr /\ opened'.open = opened.open
        /\ opened'.size = opened.size /\ opened'.rpos = opened.rpos + n
    BY <1>1, <2>2, MovedTypes
  <2>4. C!CallInRange'
    BY <1>2, <1>7, <1>11, <2>3 DEF C!CallInRange, C!Idle
  <2>5. C!SlaveReadsTrue' /\ C!DownloadWhole'
    BY <2>2 DEF C!SlaveReadsTrue, C!DownloadWhole
  <2>6. (C!Settled)' = C!Settled
    BY <1>2, <1>8, <2>3 DEF C!Settled
  <2>7. C!LocalTrue' /\ C!ViewTrue'
    BY <1>2, <1>8, <1>9, <1>11, <2>3, <2>6 DEF C!InStep, C!LocalTrue, C!ViewTrue
  <2> QED BY <1>2, <1>3, <1>10, <1>11, <2>4, <2>5, <2>7 DEF C!InStep
<1>12. CASE asked.k = "prefetch"
  <2>1. asked.n \in Nat /\ asked.ahead \in Nat /\ asked.n <= asked.ahead /\ opened.rpos + asked.n <= opened.size
    <3>1. asked.n \in Int /\ asked.ahead \in Int
      BY <1>7, <1>12, CallShapes
    <3>2. 0 <= asked.n /\ asked.n <= opened.size - opened.rpos /\ asked.n <= asked.ahead
      BY <1>12 DEF C!InStep, C!CallInRange
    <3> QED BY <1>7, <3>1, <3>2
  <2> DEFINE p == C!Piece(view, opened.rpos, asked.ahead)
  <2>2. toClient = <<C!Block(p)>> /\ p \in Seq(Nat)
    <3>1. C!DataOf = <<C!Block(p)>>
      BY <1>1, <1>5, <1>12, DataAre
    <3>2. p \in Seq(Nat)
      BY <1>7, <2>1, PieceLength
    <3> QED BY <1>6, <3>1, <3>2
  <2>3. d = p /\ toClient' = <<>>
    <3>1. C!Block(p).t = "data" /\ C!Block(p).d = p /\ C!Block(p) \in C!ToClient
      BY <2>2, ItemsTyped
    <3>2. Head(toClient) = C!Block(p) /\ Tail(toClient) = <<>>
      BY <2>2, <3>1, PairOf
    <3> QED BY <1>2, <3>1, <3>2 DEF C!AsData
  <2>4. /\ C!ReadGives(C!Cached([off |-> opened.rpos, data |-> d], opened.rpos, asked.n), "slave")
        /\ asked' = C!Idle /\ UNCHANGED download
    BY <1>12 DEF C!Received
  <2> HIDE DEF d
  <2>5. C!Cached([off |-> opened.rpos, data |-> d], opened.rpos, asked.n) = C!Piece(view, opened.rpos, asked.n)
    BY <1>7, <2>1, <2>3, CachedPiece
  <2> QED BY <1>11, <2>1, <2>3, <2>4, <2>5
<1>13. CASE asked.k = "read"
  <2>1. asked.n \in Nat /\ opened.rpos + asked.n <= opened.size
    <3>1. asked.n \in Int
      BY <1>7, <1>13, CallShapes
    <3>2. 0 <= asked.n /\ asked.n <= opened.size - opened.rpos
      BY <1>13 DEF C!InStep, C!CallInRange
    <3> QED BY <1>7, <3>1, <3>2
  <2> DEFINE p == C!Piece(view, opened.rpos, asked.n)
  <2>2. toClient = <<C!Block(p)>> /\ p \in Seq(Nat)
    <3>1. C!DataOf = <<C!Block(p)>>
      BY <1>1, <1>5, <1>13, DataAre
    <3>2. p \in Seq(Nat)
      BY <1>7, <2>1, PieceLength
    <3> QED BY <1>6, <3>1, <3>2
  <2>3. d = p /\ toClient' = <<>>
    <3>1. C!Block(p).t = "data" /\ C!Block(p).d = p /\ C!Block(p) \in C!ToClient
      BY <2>2, ItemsTyped
    <3>2. Head(toClient) = C!Block(p) /\ Tail(toClient) = <<>>
      BY <2>2, <3>1, PairOf
    <3> QED BY <1>2, <3>1, <3>2 DEF C!AsData
  <2>4. C!ReadGives(d, "slave") /\ asked' = C!Idle /\ UNCHANGED download
    BY <1>13 DEF C!Received
  <2> HIDE DEF d
  <2> QED BY <1>11, <2>1, <2>3, <2>4
<1>14. CASE asked.k = "download"
  <2> DEFINE r == SubSeq(view, Len(download) + 1, Len(view))
             m == C!Lower(Unit, Len(r))
  <2>1. r \in Seq(Nat) /\ toClient = C!Blocks(r) /\ opened.size = Len(view)
    BY <1>1, <1>5, <1>6, <1>7, <1>14, DataAre, RestType
  <2>2. r # <<>>
    BY <1>2, <2>1, NoBlocks
  <2> HIDE DEF r
  <2>3. m \in 1 .. Len(r) /\ Head(toClient) = C!Block(SubSeq(r, 1, m)) /\ toClient' = C!Blocks(SubSeq(r, m + 1, Len(r)))
    BY <1>2, <2>1, <2>2, FirstBlock
  <2> HIDE DEF m
  <2>4. /\ download' = download \o d /\ UNCHANGED opened
        /\ IF asked.left <= Len(d) THEN asked' = C!Idle /\ out' = [k |-> "download"]
                                   ELSE asked' = [asked EXCEPT !.left = @ - Len(d)] /\ UNCHANGED out
    BY <1>14 DEF C!Received
  <2>5. d = SubSeq(r, 1, m)
    <3>1. SubSeq(r, 1, m) \in Seq(Nat)
      <4>1. Len(r) \in Nat /\ m \in Nat /\ m <= Len(r)
        BY <2>1, <2>3, LenProperties
      <4> QED BY <2>1, <4>1, BeginElements
    <3>2. C!Block(SubSeq(r, 1, m)).t = "data" /\ C!Block(SubSeq(r, 1, m)).d = SubSeq(r, 1, m)
      BY <3>1, ItemsTyped
    <3> QED BY <2>3, <3>2 DEF C!AsData
  <2> HIDE DEF d
  <2>6. /\ download' \in Seq(Nat) /\ Len(d) = m /\ Len(download') = Len(download) + m /\ Len(download') <= Len(view)
        /\ Len(r) = Len(view) - Len(download)
        /\ SubSeq(r, m + 1, Len(r)) = SubSeq(view, Len(download') + 1, Len(view))
        /\ C!IsPrefix(download, view) => C!IsPrefix(download', view)
    <3> DEFINE a == Len(download)
               b == Len(view)
               a1 == a + 1
    <3>1. a \in Nat /\ b \in Nat /\ a = Len(download) /\ b = Len(view)
      BY <1>7
    <3>2. a <= b
      <4>1. Len(r) = IF a < b THEN b - a ELSE 0
        BY <1>7, RestType DEF r
      <4> QED BY <2>3, <3>1, <4>1
    <3>3. r = SubSeq(view, a1, b)
      BY DEF r
    <3>4. a1 = a + 1
      OBVIOUS
    <3> HIDE DEF a, b, a1
    <3>5. r \in Seq(Nat) /\ Len(r) = b - a /\ \A i \in 1 .. b - a : r[i] = view[a + i]
      <4>1. a1 \in Nat /\ 1 <= a1 /\ a1 <= b + 1 /\ b - a1 + 1 = b - a /\ \A i \in 1 .. b - a : a1 + i - 1 = a + i
        BY <3>1, <3>2, <3>4
      <4>2. r \in Seq(Nat) /\ Len(r) = b - a1 + 1 /\ \A i \in 1 .. b - a1 + 1 : r[i] = view[a1 + i - 1]
        <5>1. view \in Seq(Nat) /\ a1 \in Nat /\ b \in Nat /\ 1 <= a1 /\ b = Len(view) /\ a1 <= b + 1
          BY <1>7, <3>1, <4>1
        <5> QED BY <3>3, <5>1, RestElements
      <4> QED BY <4>1, <4>2
    <3>6. m \in Nat /\ m <= Len(r)
      BY <2>3, <3>1, <3>2, <3>5
    <3>7. d \in Seq(Nat) /\ Len(d) = m /\ \A i \in 1 .. m : d[i] = r[i]
      BY <2>5, <3>5, <3>6, BeginElements
    <3>8. NextBlock(download, view, r, d)
      BY <1>7, <3>1, <3>2, <3>5, <3>6, <3>7 DEF NextBlock
    <3>9. download' = download \o d
      BY <2>4
    <3>10. Len(r) = Len(view) - Len(download)
      BY <3>1, <3>5
    <3>11. /\ download \o d \in Seq(Nat) /\ Len(download \o d) = Len(download) + Len(d) /\ Len(download \o d) <= Len(view)
           /\ SubSeq(r, Len(d) + 1, Len(r)) = SubSeq(view, Len(download \o d) + 1, Len(view))
           /\ C!IsPrefix(download, view) => C!IsPrefix(download \o d, view)
      BY <3>8, NextOfRest
    <3> QED BY <3>7, <3>9, <3>10, <3>11
  <2>7. asked.left = Len(r) /\ m \in Nat /\ 1 <= m /\ m <= Len(r) /\ Len(r) \in Nat
    <3>1. asked.left = IF opened.size > Len(download) THEN opened.size - Len(download) ELSE 0
      BY <1>14 DEF C!InStep, C!CallInRange
    <3>2. m \in Nat /\ 1 <= m /\ m <= Len(r) /\ Len(r) \in Nat
      BY <2>1, <2>3, LenProperties
    <3> QED BY <1>7, <2>1, <2>6, <3>1, <3>2
  <2>8. ~mixed => C!IsPrefix(download', view) /\ C!IsPrefix(download', file[opened.file])
    <3> SUFFICES ASSUME ~mixed
                 PROVE  C!IsPrefix(download', view) /\ C!IsPrefix(download', file[opened.file])
      OBVIOUS
    <3>1. C!IsPrefix(download', view)
      BY <1>3, <2>6 DEF C!InStep, C!LocalTrue
    <3>2. view = file[opened.file] \/ C!IsPrefix(view, file[opened.file])
      BY <1>8, <1>9 DEF C!ViewTrue, C!Settled
    <3> QED BY <1>7, <2>6, <3>1, <3>2, PrefixThrough
  <2>9. C!LocalTrue'
    BY <1>2, <1>8, <2>4, <2>8 DEF C!LocalTrue
  <2>10. C!ViewTrue'
    <3>1. (C!Settled)' = C!Settled
      BY <1>2, <1>8, <2>4 DEF C!Settled
    <3> QED BY <1>2, <1>9, <2>4, <3>1 DEF C!ViewTrue
  <2>11. CASE asked.left <= Len(d)
    <3>1. asked' = C!Idle /\ out' = [k |-> "download"] /\ m = Len(r)
      BY <2>4, <2>6, <2>7, <2>11
    <3>2. toClient' = <<>>
      <4>1. SubSeq(r, m + 1, Len(r)) = <<>>
        BY <2>1, <2>7, <3>1
      <4> QED BY <2>3, <4>1, NoBlocks
    <3>3. C!NotSeen'
      BY <1>10, <3>1, <3>2
    <3>4. C!CallInRange' /\ C!SlaveReadsTrue'
      BY <1>2, <1>7, <2>4, <3>1 DEF C!CallInRange, C!SlaveReadsTrue, C!Idle
    <3>5. C!DownloadWhole'
      <4>1. Len(download') >= opened.size
        BY <1>7, <2>1, <2>6, <3>1
      <4> QED BY <1>2, <2>4, <2>8, <4>1 DEF C!DownloadWhole
    <3> QED BY <1>2, <1>3, <2>9, <2>10, <3>3, <3>4, <3>5 DEF C!InStep
  <2>12. CASE ~(asked.left <= Len(d))
    <3>1. asked' = [asked EXCEPT !.left = asked.left - m] /\ UNCHANGED out
      BY <2>4, <2>6, <2>12
    <3>2. asked'.k = "download" /\ asked'.at = "data" /\ asked'.left = asked.left - m /\ asked' # C!Idle
      <4>1. asked \in [k : {"download"}, at : {"consent", "data"}, left : Nat]
        BY <1>7, <1>14, CallShapes
      <4> QED BY <1>2, <3>1, <4>1 DEF C!Idle
    <3>3. C!CallInRange'
      <4>1. asked.left - m = IF opened.size > Len(download') THEN opened.size - Len(download') ELSE 0
        BY <1>7, <2>1, <2>6, <2>7, <2>12
      <4>2. opened' = opened /\ view' = view
        BY <1>2, <2>4
      <4> QED BY <1>7, <3>2, <4>1, <4>2 DEF C!CallInRange
    <3>4. C!SlaveReadsTrue' /\ C!DownloadWhole'
      BY <1>2, <2>4, <3>1, <3>2 DEF C!InStep, C!SlaveReadsTrue, C!DownloadWhole
    <3>5. C!Answered'
      <4>1. (C!Told)' = <<>> /\ (C!DataOf)' = C!Blocks(SubSeq(view', Len(download') + 1, Len(view')))
        BY <3>2 DEF C!Told, C!DataOf
      <4>2. toClient' = (C!DataOf)'
        BY <1>2, <2>3, <2>6, <4>1
      <4>3. toClient' \in Seq(C!ToClient)
        BY <1>1, <1>2, TailElements DEF C!TypeOK
      <4>4. toClient' = (C!Told)' \o (C!DataOf)'
        BY <4>1, <4>2, <4>3, NothingBefore
      <4> QED BY <1>2, <1>5, <2>1, <2>4, <3>2, <4>4 DEF C!Answered
    <3> QED BY <1>2, <1>3, <2>9, <2>10, <3>3, <3>4, <3>5 DEF C!InStep
  <2> QED BY <2>11, <2>12
<1> QED BY <1>5, <1>12, <1>13, <1>14

LEMMA NothingRests ==
  ASSUME NEW s \in Seq(Nat), NEW a \in Nat, Len(s) <= a
  PROVE  SubSeq(s, a + 1, Len(s)) = <<>>
<1>1. Len(s) \in Nat
  BY LenProperties
<1>2. SubSeq(s, a + 1, Len(s)) \in Seq(Nat) /\ Len(SubSeq(s, a + 1, Len(s))) = 0
  BY <1>1, RestType
<1> QED BY <1>2, EmptySeq

\* A download of which there is nothing left to come.
LEMMA EmptyInStep ==
  ASSUME ClientBasics, ClientAssumption, C!InStep, C!DownloadEmpty
  PROVE  C!InStep'
<1>1. C!TypeOK /\ C!OneFile
  BY DEF ClientBasics
<1>2. /\ asked # C!Idle /\ asked.k = "download" /\ asked.at = "data" /\ asked.left = 0
      /\ asked' = C!Idle /\ out' = [k |-> "download"]
      /\ UNCHANGED <<file, opened, download, mixed, view, up, toSlave, toClient, slave, skew>>
  BY DEF C!DownloadEmpty, C!data, C!session
<1>3. opened.open /\ opened.size \in Nat /\ Len(download) \in Nat /\ opened.size <= Len(download) /\ Len(view) \in Nat
  <2>1. opened.open /\ opened.size \in Nat /\ Len(download) \in Nat /\ Len(view) \in Nat
    BY <1>1, <1>2, HandleTypes, LenProperties DEF C!OneFile, C!TypeOK
  <2>2. asked.left = IF opened.size > Len(download) THEN opened.size - Len(download) ELSE 0
    BY <1>2 DEF C!InStep, C!CallInRange
  <2> QED BY <1>2, <2>1, <2>2
<1>4. C!CallInRange'
  BY <1>2 DEF C!InStep, C!CallInRange, C!Idle
<1>5. C!Pending' = C!Pending /\ C!Serves' = C!Serves /\ (C!Settled)' = C!Settled
  BY <1>2 DEF C!Pending, C!Serves, C!Settled
<1>6. C!LocalTrue' /\ (C!ViewTrue' <=> C!ViewTrue)
  BY <1>2, <1>5 DEF C!InStep, C!LocalTrue, C!ViewTrue
<1>7. C!SlaveReadsTrue'
  BY <1>2 DEF C!SlaveReadsTrue
<1>8. C!DownloadWhole'
  <2>1. ~mixed => C!IsPrefix(download, view)
    BY <1>3 DEF C!InStep, C!LocalTrue
  <2>2. Len(download) >= opened.size
    BY <1>3
  <2> QED BY <1>2, <2>1, <2>2 DEF C!DownloadWhole
<1>9. (C!Asked)' = <<>>
  BY <1>2 DEF C!Asked
<1>10. C!Told = <<>>
  BY <1>2 DEF C!Told
<1>11. up /\ C!Seen => C!NotSeen'
  <2> SUFFICES ASSUME C!Seen
               PROVE  C!NotSeen'
    OBVIOUS
  <2>1. slave.st = "download" /\ toSlave = <<C!Req(Len(download), 0)>> /\ toClient = <<>>
    BY <1>2, <1>10, ParametersAre DEF C!Seen
  <2>2. C!Req(Len(download), 0) \in C!ToSlave /\ C!Req(Len(download), 0).off = Len(download)
    BY <1>3, ItemsTyped
  <2>3. toSlave # <<>> /\ Tail(toSlave) = <<>> /\ Head(toSlave) = C!Req(Len(download), 0)
    BY <2>1, <2>2, PairOf
  <2>4. Head(toSlave).off >= opened.size
    BY <1>3, <2>2, <2>3
  <2> QED BY <1>2, <1>9, <2>1, <2>3, <2>4 DEF C!NotSeen
<1>12. up /\ C!Answered => C!NotSeen'
  <2> SUFFICES ASSUME C!Answered
               PROVE  C!NotSeen'
    OBVIOUS
  <2>1. opened.size = Len(view) /\ slave.st = "cmd" /\ toSlave = <<>> /\ toClient = <<>> \o C!DataOf
    BY <1>2, <1>10 DEF C!Answered
  <2>2. C!DataOf \in Seq(C!ToClient) /\ C!DataOf = C!Blocks(SubSeq(view, Len(download) + 1, Len(view)))
    BY <1>1, <1>2, DataAre
  <2>3. SubSeq(view, Len(download) + 1, Len(view)) = <<>>
    BY <1>1, <1>3, <2>1, NothingRests DEF C!TypeOK
  <2>4. toClient = <<>>
    BY <2>1, <2>2, <2>3, NoBlocks, NothingBefore
  <2> QED BY <1>2, <1>9, <2>1, <2>4 DEF C!NotSeen
<1>13. up /\ C!Over => C!Over'
  <2> SUFFICES ASSUME C!Over
               PROVE  C!Over'
    OBVIOUS
  <2>1. toClient = <<>>
    BY <1>2 DEF C!Over
  <2> QED BY <1>2, <1>5, <2>1, YesNo DEF C!Over
<1>14. ~C!NotSeen
  BY <1>2 DEF C!NotSeen
<1> QED BY <1>2, <1>4, <1>5, <1>6, <1>7, <1>8, <1>11, <1>12, <1>13, <1>14 DEF C!InStep

\* A connection that is broken.
LEMMA DownInStep ==
  ASSUME C!InStep, ~skew, UNCHANGED <<opened, asked, file, view, download, mixed, out>>, ~up', toSlave' = <<>>
  PROVE  C!InStep'
<1>1. C!CallInRange'
  BY DEF C!InStep, C!CallInRange
<1>2. C!SlaveReadsTrue' /\ C!DownloadWhole'
  BY DEF C!InStep, C!SlaveReadsTrue, C!DownloadWhole
<1>3. ~C!Pending'
  BY DEF C!Pending
<1>4. C!LocalTrue'
  BY <1>3 DEF C!InStep, C!LocalTrue
<1> QED BY <1>1, <1>2, <1>4 DEF C!InStep

LEMMA NotReceivedInStep ==
  ASSUME ClientBasics, C!InStep, C!NotReceived
  PROVE  C!InStep'
<1>1. C!TypeOK /\ C!OneFile
  BY DEF ClientBasics
<1>2. /\ asked # C!Idle /\ ~up /\ UNCHANGED <<file, download, mixed, view, toSlave, toClient, slave, skew>>
  BY DEF C!NotReceived, C!data
<1>3. toSlave' = <<>> /\ ~C!Pending'
  <2>1. toSlave' = <<>>
    BY <1>2 DEF C!InStep
  <2> QED BY <2>1 DEF C!Pending
<1>4. asked' = C!Idle
  BY DEF C!NotReceived, C!ClosedNow, C!Fails
<1>5. CASE C!ClosedNow /\ UNCHANGED out
  <2>1. opened' = [opened EXCEPT !.open = FALSE] /\ up' = FALSE
    BY <1>5 DEF C!ClosedNow
  <2>2. ~opened'.open /\ opened'.file = opened.file /\ opened'.size = opened.size
    BY <1>1, <2>1 DEF C!TypeOK, C!Handles
  <2>3. C!CallInRange'
    BY <1>4, <2>2 DEF C!CallInRange, C!Idle
  <2>4. C!LocalTrue'
    BY <1>2, <1>3, <2>2 DEF C!InStep, C!LocalTrue
  <2>5. C!SlaveReadsTrue' /\ C!DownloadWhole'
    BY <1>2, <1>5, <2>2 DEF C!InStep, C!SlaveReadsTrue, C!DownloadWhole
  <2> QED BY <1>3, <2>1, <2>3, <2>4, <2>5 DEF C!InStep
<1>6. CASE C!Fails(asked.k) /\ UNCHANGED <<opened, up>>
  <2>1. out'.k = "failed"
    BY <1>6 DEF C!Fails
  <2>2. C!CallInRange'
    BY <1>2, <1>4, <1>6 DEF C!InStep, C!CallInRange, C!Idle
  <2>3. C!SlaveReadsTrue' /\ C!DownloadWhole'
    BY <2>1 DEF C!SlaveReadsTrue, C!DownloadWhole
  <2>4. C!LocalTrue'
    BY <1>2, <1>3, <1>6 DEF C!InStep, C!LocalTrue
  <2> QED BY <1>2, <1>3, <1>6, <2>2, <2>3, <2>4 DEF C!InStep
<1> QED BY <1>5, <1>6 DEF C!NotReceived

\* The slave goes on, and writes nothing.
LEMMA SlaveInStep ==
  ASSUME C!InStep, ~skew, UNCHANGED <<opened, asked, up, file, view, download, mixed, out>>, up, ~C!Pending, ~C!Pending',
         C!Serves' => C!Serves, C!NotSeen' \/ C!Seen' \/ C!Answered' \/ C!Over'
  PROVE  C!InStep'
<1>1. C!CallInRange'
  BY DEF C!InStep, C!CallInRange
<1>2. C!SlaveReadsTrue' /\ C!DownloadWhole'
  BY DEF C!InStep, C!SlaveReadsTrue, C!DownloadWhole
<1>3. (C!Settled)' = C!Settled
  BY DEF C!Settled
<1>4. C!LocalTrue' /\ (C!ViewTrue' <=> C!ViewTrue)
  BY <1>3 DEF C!InStep, C!LocalTrue, C!ViewTrue
<1> QED BY <1>1, <1>2, <1>4 DEF C!InStep

LEMMA ParametersShort ==
  ASSUME C!TypeOK
  PROVE  ~(Len(C!Parameters) >= 2)
<1>1. \A x : ~(Len(<<x>>) >= 2)
  OBVIOUS
<1>2. ~(Len(<<>>) >= 2)
  OBVIOUS
<1>3. C!Parameters = <<>> \/ \E x : C!Parameters = <<x>>
  BY DEF C!Parameters
<1> QED BY <1>1, <1>2, <1>3

\* The slave takes the next command.
LEMMA CommandInStep ==
  ASSUME ClientBasics, C!InStep, ~skew, C!SlaveCommand
  PROVE  C!InStep'
<1>1. C!TypeOK /\ C!OneFile
  BY DEF ClientBasics
<1>2. /\ slave.st = "cmd" /\ toSlave # <<>> /\ toSlave' = Tail(toSlave)
      /\ UNCHANGED <<file, opened, asked, download, mixed, view, out, up, skew>>
  BY DEF C!SlaveCommand, C!data, C!client
<1>3. (up = TRUE) /\ C!Serves /\ ~C!Pending
  <2>1. up
    BY <1>2 DEF C!InStep
  <2> QED BY <1>1, <1>2, <2>1 DEF C!Serves, C!Pending, C!TypeOK
<1>4. ~C!Seen
  BY <1>1, <1>2, AskedTyped DEF C!Seen, C!Commands
<1>5. C!NotSeen
  BY <1>2, <1>3, <1>4 DEF C!InStep, C!Answered, C!Over
<1>6. toSlave = C!Asked /\ toClient = <<>>
  BY <1>2, <1>3, <1>5 DEF C!NotSeen
<1>7. asked # C!Idle /\ asked.at = "consent"
  BY <1>2, <1>5, <1>6 DEF C!NotSeen, C!Asked
<1>8. Head(toSlave) = C!Cmd(C!CommandOf) /\ toSlave' = C!Parameters /\ C!CommandOf \in C!Commands
  BY <1>1, <1>2, <1>6, <1>7, AskedTyped
<1>9. Head(toSlave).c = C!CommandOf
  BY <1>8 DEF C!Cmd
<1>10. C!CommandOf = "close" <=> asked.k = "close"
  BY DEF C!CommandOf
<1> DEFINE c == C!CommandOf
<1>11. ASSUME slave'.st = "end", toClient' = <<>> \/ (toClient' = <<C!No>> /\ asked.k # "close")
       PROVE  C!InStep'
  <2>1. ~C!Serves' /\ ~C!Pending'
    BY <1>11 DEF C!Serves, C!Pending
  <2>2. C!Over'
    BY <1>2, <1>7, <1>11, <2>1, YesNo DEF C!Over
  <2> QED BY <1>2, <1>3, <2>1, <2>2, SlaveInStep
<1>12. ASSUME NEW st, slave' = [slave EXCEPT !.st = st]
       PROVE  slave'.st = st
  BY <1>1, <1>12 DEF C!TypeOK
<1>13. CASE c = "close"
  <2>1. slave' = [slave EXCEPT !.st = "end"] /\ UNCHANGED toClient
    BY <1>9, <1>13 DEF C!SlaveCommand
  <2> QED BY <1>6, <1>11, <1>12, <2>1
<1>14. CASE c # "close"
  <2>1. C!Answer(<<C!Consents(c)>>) /\ slave' = [slave EXCEPT !.st = IF C!Consents(c).ok THEN c ELSE "end"]
    BY <1>9, <1>14 DEF C!SlaveCommand
  <2>2. toClient' = <<C!Consents(c)>> /\ asked.k # "close"
    <3>1. toClient' = <<>> \o <<C!Consents(c)>>
      BY <1>3, <1>6, <2>1 DEF C!Answer
    <3>2. C!Consents(c) \in C!ToClient
      BY ConsentsShape
    <3> QED BY <1>10, <1>14, <3>1, <3>2, PairOf
  <2>3. CASE C!Consents(c) = C!No
    <3>1. ~C!Consents(c).ok
      BY <2>3, YesNo, ConsentsShape
    <3> QED BY <1>11, <1>12, <2>1, <2>2, <2>3, <3>1
  <2>4. CASE C!Consents(c) = C!Yes
    <3>1. slave'.st = c
      <4>1. C!Consents(c).ok
        BY <2>4, ConsentsShape
      <4> QED BY <1>12, <2>1, <4>1
    <3>2. (C!CommandOf)' = C!CommandOf /\ (C!Parameters)' = C!Parameters /\ (C!Told)' = <<C!Yes>>
      BY <1>2, <1>7 DEF C!CommandOf, C!Parameters, C!Told
    <3>3. C!Seen'
      BY <1>2, <1>7, <1>8, <2>2, <2>4, <3>1, <3>2 DEF C!Seen
    <3>4. ~C!Pending'
      <4>1. ~(Len(toSlave') >= 2)
        BY <1>1, <1>8, ParametersShort
      <4> QED BY <4>1 DEF C!Pending
    <3> QED BY <1>2, <1>3, <3>3, <3>4, SlaveInStep
  <2> QED BY <2>3, <2>4, ConsentsShape
<1> QED BY <1>13, <1>14

\* It does what a write asked for.
LEMMA StoresInStep ==
  ASSUME ClientBasics, C!InStep, ~skew, C!SlaveStores
  PROVE  C!InStep'
<1>1. C!TypeOK /\ C!OneFile
  BY DEF ClientBasics
<1> DEFINE w == C!Written(file[opened.file], toSlave[1].off, toSlave[2].d)
<1>2. /\ C!Serves /\ slave.st \in {"write", "upload"} /\ Len(toSlave) >= 2
      /\ toSlave' = SubSeq(toSlave, 3, Len(toSlave))
      /\ UNCHANGED <<opened, asked, download, mixed, view, out, up, skew, toClient>>
      /\ slave'.st = "cmd" /\ slave.file = opened.file /\ slave.wr = opened.wr /\ slave.wr
      /\ toSlave[1].off \in Nat /\ toSlave[2].d \in Seq(Nat)
      /\ file' = [file EXCEPT ![opened.file] = w] /\ w \in Seq(Nat)
  <2>1. slave.file = opened.file /\ slave.wr = opened.wr
    BY <1>1 DEF C!OneFile
  <2> QED BY <1>1, <2>1, StoresShapes DEF C!OneFile
<1>3. C!Pending /\ ~C!Pending' /\ C!Serves'
  BY <1>2 DEF C!Pending, C!Serves
<1>4. file'[opened.file] = w
  BY <1>1, <1>2, HandleTypes DEF C!TypeOK
<1>5. up
  <2>1. toSlave # <<>>
    BY <1>2
  <2> QED BY <2>1 DEF C!InStep
<1>6. ~C!Seen
  <2>1. ~(Len(C!Parameters) >= 2)
    BY <1>1, ParametersShort
  <2> QED BY <1>2, <2>1 DEF C!Seen
<1>7. C!NotSeen
  BY <1>2, <1>5, <1>6 DEF C!InStep, C!Answered, C!Over
<1>8. SubSeq(toSlave, 3, Len(toSlave)) = C!Asked /\ toClient = <<>> /\ (asked = C!Idle \/ asked.at = "consent")
  BY <1>2, <1>7 DEF C!NotSeen
<1>9. C!NotSeen'
  <2>1. (C!Asked)' = C!Asked
    BY <1>2 DEF C!Asked, C!Parameters, C!CommandOf
  <2> QED BY <1>2, <1>8, <2>1 DEF C!NotSeen
<1>10. C!ViewTrue'
  <2>1. view = w
    BY <1>2, <1>3, <1>5 DEF C!InStep, C!ViewTrue, C!Settled
  <2>2. (C!Settled)' = w
    BY <1>2, <1>3, <1>4 DEF C!Settled
  <2> QED BY <1>2, <2>1, <2>2 DEF C!ViewTrue
<1>11. C!LocalTrue'
  <2>1. ~mixed => C!IsPrefix(download, w) /\ (opened.open => C!IsPrefix(download, view))
    <3> SUFFICES ASSUME ~mixed
                 PROVE  C!IsPrefix(download, w) /\ (opened.open => C!IsPrefix(download, view))
      OBVIOUS
    <3>1. /\ C!IsPrefix(download, file[opened.file]) /\ (opened.open => C!IsPrefix(download, view))
          /\ toSlave[1].off >= Len(download)
      BY <1>3 DEF C!InStep, C!LocalTrue
    <3>2. download \in Seq(Nat) /\ file[opened.file] \in Seq(Nat) /\ Len(download) \in Nat /\ Len(download) <= toSlave[1].off
      BY <1>1, <1>2, <3>1, HandleTypes DEF C!TypeOK
    <3> QED BY <1>2, <3>1, <3>2, PrefixWritten
  <2> HIDE DEF w
  <2> QED BY <1>2, <1>3, <1>4, <2>1 DEF C!LocalTrue
<1>12. C!CallInRange' /\ C!SlaveReadsTrue' /\ C!DownloadWhole'
  BY <1>2 DEF C!InStep, C!CallInRange, C!SlaveReadsTrue, C!DownloadWhole
<1> QED BY <1>2, <1>5, <1>9, <1>10, <1>11, <1>12 DEF C!InStep

\* What the slave sends of its file is what the handle takes it for.
LEMMA SameOfView ==
  ASSUME ClientBasics, C!InStep, up, C!Serves, ~C!Pending
  PROVE  /\ \A n \in Nat : opened.rpos + n <= opened.size => C!Piece(file[opened.file], opened.rpos, n) = C!Piece(view, opened.rpos, n)
         /\ Len(file[opened.file]) = opened.size => view = file[opened.file]
<1>1. C!TypeOK /\ C!OneFile
  BY DEF ClientBasics
<1> DEFINE f == file[opened.file]
<1>2. f \in Seq(Nat) /\ view \in Seq(Nat) /\ Len(f) \in Nat /\ Len(view) \in Nat /\ opened.rpos \in Nat /\ opened.size \in Nat
  BY <1>1, HandleTypes DEF C!TypeOK
<1>3. opened.open
  BY <1>1 DEF C!OneFile
<1>4. opened.size <= Len(view)
  BY <1>3 DEF C!InStep, C!CallInRange
<1>5. view = f \/ C!IsPrefix(view, f)
  BY DEF C!InStep, C!ViewTrue, C!Settled
<1> HIDE DEF f
<1>6. ASSUME NEW n \in Nat, opened.rpos + n <= opened.size
      PROVE  C!Piece(f, opened.rpos, n) = C!Piece(view, opened.rpos, n)
  <2>1. opened.rpos + n <= Len(view)
    BY <1>2, <1>4, <1>6
  <2>2. CASE view = f
    BY <2>2
  <2>3. CASE C!IsPrefix(view, f)
    BY <1>2, <2>1, <2>3, PieceOfPrefix
  <2> QED BY <1>5, <2>2, <2>3
<1>7. ASSUME Len(f) = opened.size
      PROVE  view = f
  BY <1>2, <1>4, <1>5, <1>7, PrefixAsLong
<1> QED BY <1>6, <1>7 DEF f

LEMMA SendsInStep ==
  ASSUME ClientBasics, ClientAssumption, C!InStep, ~skew, ~skew', C!SlaveSends
  PROVE  C!InStep'
<1>1. C!TypeOK /\ C!OneFile /\ C!CommandsInARow
  BY DEF ClientBasics
<1> DEFINE f == file[opened.file]
<1>2. /\ C!Serves /\ slave.st \in {"read", "download"} /\ toSlave # <<>> /\ toSlave' = Tail(toSlave)
      /\ UNCHANGED <<file, opened, asked, download, mixed, view, out, up>>
      /\ slave'.st = "cmd" /\ slave.file = opened.file /\ Head(toSlave).off \in Nat
  BY <1>1, SendsShapes DEF C!OneFile
<1>3. up /\ ~C!Pending /\ ~C!Pending'
  BY <1>2 DEF C!InStep, C!Pending
<1>4. C!NotSeen \/ C!Seen
  BY <1>2, <1>3 DEF C!InStep, C!Answered, C!Over
<1>5. (C!Asked)' = C!Asked /\ (C!Told)' = C!Told /\ (C!DataOf)' = C!DataOf
  BY <1>2 DEF C!Asked, C!Parameters, C!CommandOf, C!Told, C!DataOf
<1>6. /\ slave.st = "read" => C!Answer(<<C!Block(C!Piece(f, Head(toSlave).off, Head(toSlave).n))>>)
      /\ slave.st = "download" => /\ C!Answer(C!Blocks(SubSeq(f, Head(toSlave).off + 1, Len(f))))
                                  /\ skew' = (skew \/ Len(f) # opened.size)
  BY <1>2 DEF C!SlaveSends
<1>7. slave.st = "download" => Len(f) = opened.size
  BY <1>6
<1>8. toClient \in Seq(C!ToClient) /\ f \in Seq(Nat) /\ opened.size \in Nat /\ view \in Seq(Nat) /\ asked \in C!Calls
      /\ opened.rpos \in Nat /\ opened.rpos <= opened.size /\ Len(download) \in Nat /\ opened.open
  <2>1. opened.open
    BY <1>1, <1>3 DEF C!OneFile
  <2> QED BY <1>1, <2>1, HandleTypes DEF C!TypeOK, C!InStep, C!CallInRange
<1>9. ASSUME NEW items, C!Answer(items)
      PROVE  toClient' = toClient \o items
  BY <1>3, <1>9 DEF C!Answer
<1> HIDE DEF f
<1>10. CASE C!NotSeen
  <2>1. slave.st = "download" /\ Tail(toSlave) = C!Asked /\ Head(toSlave).off >= opened.size /\ toClient = <<>>
        /\ (asked = C!Idle \/ asked.at = "consent")
    BY <1>2, <1>10 DEF C!NotSeen, C!Pending
  <2> DEFINE o == Head(toSlave).off
  <2>2. o \in Nat /\ Len(f) <= o
    BY <1>2, <1>7, <1>8, <2>1
  <2> HIDE DEF o
  <2>3. SubSeq(f, o + 1, Len(f)) = <<>>
    BY <1>8, <2>2, NothingRests
  <2>4. C!Answer(<<>>)
    BY <1>6, <2>1, <2>3, NoBlocks DEF o
  <2>5. toClient' = <<>>
    BY <1>8, <1>9, <2>1, <2>4, NothingBefore
  <2>6. C!NotSeen'
    BY <1>2, <1>5, <2>1, <2>5 DEF C!NotSeen
  <2> QED BY <1>2, <1>3, <2>6, SlaveInStep
<1>11. CASE C!Seen
  <2>1. slave.st = C!CommandOf /\ toSlave = C!Parameters /\ toClient = C!Told /\ asked # C!Idle /\ asked.k # "close"
    BY <1>11 DEF C!Seen
  <2>2. ASSUME asked.k \in {"read", "prefetch", "download"}, asked.k = "prefetch" => asked.at = "data",
               asked.k = "download" => opened.size = Len(view), toSlave' = <<>>, C!Answer(C!DataOf)
        PROVE  C!InStep'
    <3>1. toClient' = (C!Told)' \o (C!DataOf)'
      BY <1>5, <1>9, <2>1, <2>2
    <3>2. C!Answered'
      BY <1>2, <2>2, <3>1 DEF C!Answered
    <3> QED BY <1>2, <1>3, <3>2, SlaveInStep
  <2>3. \A o \in Nat, n \in Int : /\ Head(<<C!Req(o, n)>>) = C!Req(o, n) /\ Tail(<<C!Req(o, n)>>) = <<>>
                                  /\ C!Req(o, n).off = o /\ C!Req(o, n).n = n
    BY ItemsTyped, PairOf
  <2>4. CASE asked.k = "read"
    <3>1. asked.n \in Int /\ slave.st = "read" /\ toSlave = <<C!Req(opened.rpos, asked.n)>>
      BY <1>8, <2>1, <2>4, CallShapes, ParametersAre
    <3>2. asked.n \in Nat /\ opened.rpos + asked.n <= opened.size
      <4>1. 0 <= asked.n /\ asked.n <= opened.size - opened.rpos
        BY <2>4 DEF C!InStep, C!CallInRange
      <4> QED BY <1>8, <3>1, <4>1
    <3>3. C!Answer(<<C!Block(C!Piece(f, opened.rpos, asked.n))>>) /\ toSlave' = <<>>
      <4>1. Head(toSlave).off = opened.rpos /\ Head(toSlave).n = asked.n /\ Tail(toSlave) = <<>>
        BY <1>8, <2>3, <3>1
      <4> QED BY <1>2, <1>6, <3>1, <4>1
    <3>4. C!Piece(f, opened.rpos, asked.n) = C!Piece(view, opened.rpos, asked.n)
      BY <1>2, <1>3, <3>2, SameOfView DEF f
    <3>5. C!DataOf = <<C!Block(C!Piece(view, opened.rpos, asked.n))>>
      BY <1>1, <2>4, DataAre
    <3> QED BY <2>2, <2>4, <3>3, <3>4, <3>5
  <2>5. CASE asked.k = "prefetch"
    <3>1. asked.n \in Int /\ asked.ahead \in Int /\ slave.st = "read" /\ asked.at = "data"
          /\ toSlave = <<C!Req(opened.rpos, asked.ahead)>>
      BY <1>2, <1>8, <2>1, <2>5, CallShapes, ParametersAre
    <3>2. asked.ahead \in Nat /\ opened.rpos + asked.ahead <= opened.size
      <4>1. 0 <= asked.n /\ asked.n <= asked.ahead /\ asked.ahead <= opened.size - opened.rpos
        BY <2>5 DEF C!InStep, C!CallInRange
      <4> QED BY <1>8, <3>1, <4>1
    <3>3. C!Answer(<<C!Block(C!Piece(f, opened.rpos, asked.ahead))>>) /\ toSlave' = <<>>
      <4>1. Head(toSlave).off = opened.rpos /\ Head(toSlave).n = asked.ahead /\ Tail(toSlave) = <<>>
        BY <1>8, <2>3, <3>1
      <4> QED BY <1>2, <1>6, <3>1, <4>1
    <3>4. C!Piece(f, opened.rpos, asked.ahead) = C!Piece(view, opened.rpos, asked.ahead)
      BY <1>2, <1>3, <3>2, SameOfView DEF f
    <3>5. C!DataOf = <<C!Block(C!Piece(view, opened.rpos, asked.ahead))>>
      BY <1>1, <2>5, DataAre
    <3> QED BY <2>2, <2>5, <3>1, <3>3, <3>4, <3>5
  <2>6. CASE asked.k = "download"
    <3>1. slave.st = "download" /\ toSlave = <<C!Req(Len(download), 0)>>
      BY <2>1, <2>6, ParametersAre
    <3>2. view = f /\ Len(f) = opened.size
      BY <1>2, <1>3, <1>7, <3>1, SameOfView DEF f
    <3>3. Head(toSlave).off = Len(download) /\ toSlave' = <<>>
      BY <1>2, <1>8, <2>3, <3>1
    <3>4. C!Answer(C!DataOf)
      <4>1. C!DataOf = C!Blocks(SubSeq(view, Len(download) + 1, Len(view)))
        BY <1>1, <2>6, DataAre
      <4> QED BY <1>6, <3>1, <3>2, <3>3, <4>1
    <3> QED BY <2>2, <2>6, <3>2, <3>3, <3>4
  <2> QED BY <1>2, <1>8, <2>1, <2>4, <2>5, <2>6, CallShapes DEF C!CommandOf
<1> QED BY <1>4, <1>10, <1>11

\* It serves no more.
LEMMA EndingInStep ==
  ASSUME ClientBasics, C!InStep, ~skew, C!SlaveNotReceived \/ C!SlaveReports \/ C!SlaveEnds
  PROVE  C!InStep'
<1>1. C!TypeOK
  BY DEF ClientBasics
<1>2. UNCHANGED <<file, opened, asked, download, mixed, view, out, up>>
  BY DEF C!SlaveNotReceived, C!SlaveReports, C!SlaveEnds, C!data, C!client
<1>3. toSlave' = toSlave \/ toSlave' = <<>>
  BY DEF C!SlaveNotReceived, C!SlaveReports, C!SlaveEnds
<1>4. CASE ~up
  <2>1. toSlave' = <<>> /\ ~up'
    BY <1>2, <1>3, <1>4 DEF C!InStep
  <2> QED BY <1>2, <2>1, DownInStep
<1>5. ASSUME NEW st, slave' = [slave EXCEPT !.st = st]
      PROVE  slave'.st = st
  BY <1>1, <1>5 DEF C!TypeOK
<1>6. ASSUME NEW st \in {"bye", "off"}, slave' = [slave EXCEPT !.st = st], slave.st \in {"end", "bye"}, up
      PROVE  slave'.st = st /\ ~C!Serves' /\ ~C!Pending /\ ~C!Pending' /\ C!Over
  <2>1. slave'.st = st
    BY <1>5, <1>6
  <2>2. ~C!Serves' /\ ~C!Pending /\ ~C!Pending'
    BY <1>6, <2>1 DEF C!Serves, C!Pending
  <2>3. C!CommandOf \notin {"end", "bye"} \/ asked = C!Idle
    BY <1>1, AskedTyped DEF C!Commands
  <2>4. C!Over
    BY <1>6, <2>2, <2>3 DEF C!InStep, C!NotSeen, C!Seen, C!Answered
  <2> QED BY <2>1, <2>2, <2>4
<1>7. CASE C!SlaveReports /\ (up = TRUE)
  <2>1. slave.st = "end" /\ slave' = [slave EXCEPT !.st = "bye"] /\ UNCHANGED <<toSlave, toClient>>
    BY <1>7 DEF C!SlaveReports
  <2>2. slave'.st = "bye" /\ ~C!Serves' /\ ~C!Pending /\ ~C!Pending' /\ C!Over
    BY <1>6, <1>7, <2>1
  <2>3. C!Over'
    BY <1>2, <2>1, <2>2 DEF C!Over
  <2> QED BY <1>2, <1>7, <2>2, <2>3, SlaveInStep
<1>8. CASE C!SlaveEnds /\ (up = TRUE)
  <2>1. slave.st = "bye" /\ slave' = [slave EXCEPT !.st = "off"] /\ toSlave' = <<>> /\ toClient' = toClient \o <<C!Yes>>
    BY <1>8 DEF C!SlaveEnds, C!Answer, C!Yes
  <2>2. slave'.st = "off" /\ ~C!Serves' /\ ~C!Pending /\ ~C!Pending' /\ C!Over
    BY <1>6, <1>8, <2>1
  <2>3. (toClient = <<>> /\ toClient' = <<C!Yes>>) \/ (toClient = <<C!No>> /\ toClient' = <<C!No, C!Yes>>)
    <3>1. toClient = <<>> \/ toClient = <<C!No>>
      BY <2>1, <2>2 DEF C!Over
    <3>2. <<>> \o <<C!Yes>> = <<C!Yes>> /\ <<C!No>> \o <<C!Yes>> = <<C!No, C!Yes>>
      BY YesNo, PairOf
    <3> QED BY <2>1, <3>1, <3>2
  <2>4. ~(asked # C!Idle /\ asked.at = "data")
    BY <2>1, <2>2 DEF C!Over
  <2>5. toClient = <<C!No>> => asked # C!Idle /\ asked.k # "close"
    BY <2>2 DEF C!Over
  <2>6. C!Over'
    <3>1. CASE toClient = <<>> /\ toClient' = <<C!Yes>>
      BY <1>2, <2>2, <2>4, <3>1, YesNo DEF C!Over
    <3>2. CASE toClient = <<C!No>> /\ toClient' = <<C!No, C!Yes>>
      BY <1>2, <2>2, <2>4, <2>5, <3>2, YesNo DEF C!Over
    <3> QED BY <2>3, <3>1, <3>2
  <2> QED BY <1>2, <1>8, <2>2, <2>6, SlaveInStep
<1>9. C!SlaveNotReceived => ~up
  BY DEF C!SlaveNotReceived
<1> QED BY <1>1, <1>4, <1>7, <1>8, <1>9 DEF C!TypeOK

LEMMA BreakInStep ==
  ASSUME C!InStep, ~skew, C!Break
  PROVE  C!InStep'
<1>1. /\ up' = FALSE /\ toSlave' = <<>> /\ UNCHANGED <<opened, asked, file, view, download, mixed, out>>
  BY DEF C!Break, C!data, C!client
<1>2. ~up'
  BY <1>1
<1> QED BY <1>1, <1>2, DownInStep

\* The other client appends.
LEMMA AppendInStep ==
  ASSUME ClientBasics, C!InStep, NEW f \in ClientFiles, C!OtherAppends(f)
  PROVE  C!InStep'
<1>1. C!TypeOK /\ C!OneFile /\ C!SizesKnown
  BY DEF ClientBasics
<1>2. /\ f \in other /\ file' = [file EXCEPT ![f] = Append(file[f], 1)]
      /\ UNCHANGED <<opened, asked, up, toSlave, toClient, slave, view, download, mixed, out, skew>>
  BY DEF C!OtherAppends, C!client, C!session
<1>3. /\ download \in Seq(Nat) /\ view \in Seq(Nat) /\ file[opened.file] \in Seq(Nat) /\ opened.file \in ClientFiles
      /\ file \in [ClientFiles -> Seq(Nat)]
  BY <1>1, HandleTypes DEF C!TypeOK
<1>4. file'[opened.file] = file[opened.file] \/ (f = opened.file /\ file'[opened.file] = Append(file[opened.file], 1))
  BY <1>2, <1>3
<1>5. \A s \in Seq(Nat) : C!IsPrefix(s, file[opened.file]) => C!IsPrefix(s, file'[opened.file])
  <2> TAKE s \in Seq(Nat)
  <2> HAVE C!IsPrefix(s, file[opened.file])
  <2>1. C!IsPrefix(s, Append(file[opened.file], 1))
    BY <1>3, PrefixOfLonger
  <2> QED BY <1>4, <2>1
<1>6. C!CallInRange' /\ C!SlaveReadsTrue' /\ C!DownloadWhole'
  BY <1>2 DEF C!InStep, C!CallInRange, C!SlaveReadsTrue, C!DownloadWhole
<1>7. C!Pending' = C!Pending /\ C!Serves' = C!Serves
  BY <1>2 DEF C!Pending, C!Serves
<1>8. C!LocalTrue'
  BY <1>2, <1>3, <1>5, <1>7 DEF C!InStep, C!LocalTrue
<1>9. up /\ C!Serves => C!ViewTrue'
  <2> SUFFICES ASSUME up, C!Serves
               PROVE  C!ViewTrue'
    OBVIOUS
  <2>1. C!ViewTrue
    BY DEF C!InStep
  <2>2. CASE opened.wr
    <3>1. slave.wr /\ slave.file = opened.file /\ slave.st \notin {"bye", "off"}
      BY <1>1, <2>2 DEF C!OneFile, C!Serves
    <3>2. opened.file # f
      BY <1>1, <1>2, <3>1 DEF C!SizesKnown
    <3>3. file'[opened.file] = file[opened.file]
      BY <1>4, <3>2
    <3>4. (C!Settled)' = C!Settled
      BY <1>2, <1>7, <3>3 DEF C!Settled
    <3> QED BY <1>2, <2>1, <2>2, <3>4 DEF C!ViewTrue
  <2>3. CASE ~opened.wr
    BY <1>2, <1>3, <1>5, <2>1, <2>3 DEF C!ViewTrue
  <2> QED BY <2>2, <2>3
<1>10. (C!Parameters)' = C!Parameters /\ (C!CommandOf)' = C!CommandOf /\ (C!Told)' = C!Told /\ (C!DataOf)' = C!DataOf
  BY <1>2 DEF C!Parameters, C!CommandOf, C!Told, C!DataOf
<1>11. (C!Asked)' = C!Asked
  BY <1>2, <1>10 DEF C!Asked
<1>12. (C!NotSeen => C!NotSeen') /\ (C!Seen => C!Seen') /\ (C!Answered => C!Answered') /\ (C!Over => C!Over')
  BY <1>2, <1>7, <1>10, <1>11 DEF C!NotSeen, C!Seen, C!Answered, C!Over
<1> QED BY <1>2, <1>6, <1>7, <1>8, <1>9, <1>12 DEF C!InStep

\* What is stored late changes nothing that the handle has seen, or puts it out of step.
LEMMA LateInStep ==
  ASSUME ClientLocks, C!InStep, NEW x \in late, NEW n \in 0 .. Len(x.d), C!StoresLate(x, n), ~skew'
  PROVE  C!InStep'
<1>1. C!TypeOK /\ C!OneFile /\ C!LateHeld /\ ClientBasics
  BY DEF ClientLocks, ClientBasics
<1>2. /\ UNCHANGED <<opened, asked, up, toSlave, toClient, slave, view, download, out>>
      /\ \A g \in ClientFiles : g # x.file => file'[g] = file[g]
  BY <1>1, LateShapes
<1>3. /\ mixed' = (mixed \/ ~C!IsPrefix(download, file'[opened.file]))
      /\ skew' = (skew \/ (opened.open /\ up /\ ~C!IsPrefix(view, file'[opened.file])))
  BY DEF C!StoresLate
<1>4. C!CallInRange' /\ C!SlaveReadsTrue'
  BY <1>2, <1>3 DEF C!InStep, C!CallInRange, C!SlaveReadsTrue
<1>5. C!DownloadWhole'
  <2>1. ~mixed' => ~mixed
    BY <1>3
  <2> QED BY <1>2, <1>3, <2>1 DEF C!InStep, C!DownloadWhole
<1>6. C!Pending' = C!Pending /\ C!Serves' = C!Serves
  BY <1>2 DEF C!Pending, C!Serves
<1>7. C!LocalTrue'
  BY <1>2, <1>3, <1>6 DEF C!InStep, C!LocalTrue
<1>8. up /\ C!Serves => C!ViewTrue'
  <2> SUFFICES ASSUME up, C!Serves
               PROVE  C!ViewTrue'
    OBVIOUS
  <2>1. C!ViewTrue /\ opened.open /\ opened.file \in ClientFiles /\ opened.wr = slave.wr /\ opened.file = slave.file
    BY <1>1, HandleTypes DEF C!InStep, C!OneFile
  <2>2. CASE opened.wr
    <3>1. opened.file # x.file
      BY <1>1, <2>1, <2>2 DEF C!LateHeld
    <3>2. file'[opened.file] = file[opened.file]
      BY <1>2, <2>1, <3>1
    <3>3. (C!Settled)' = C!Settled
      BY <1>2, <1>6, <3>2 DEF C!Settled
    <3> QED BY <1>2, <2>1, <2>2, <3>3 DEF C!ViewTrue
  <2>3. CASE ~opened.wr
    <3>1. C!IsPrefix(view, file'[opened.file])
      BY <1>3, <2>1
    <3> QED BY <1>2, <2>3, <3>1 DEF C!ViewTrue
  <2> QED BY <2>2, <2>3
<1>9. (C!Parameters)' = C!Parameters /\ (C!CommandOf)' = C!CommandOf /\ (C!Told)' = C!Told /\ (C!DataOf)' = C!DataOf
  BY <1>2 DEF C!Parameters, C!CommandOf, C!Told, C!DataOf
<1>10. (C!Asked)' = C!Asked
  BY <1>2, <1>9 DEF C!Asked
<1>11. (C!NotSeen => C!NotSeen') /\ (C!Seen => C!Seen') /\ (C!Answered => C!Answered') /\ (C!Over => C!Over')
  BY <1>2, <1>6, <1>9, <1>10 DEF C!NotSeen, C!Seen, C!Answered, C!Over
<1> QED BY <1>2, <1>4, <1>5, <1>6, <1>7, <1>8, <1>11 DEF C!InStep

LEMMA OthersInStep ==
  ASSUME C!InStep,
         \/ \E s \in ending : C!ReportsLate(s)
         \/ \E f \in ClientFiles : C!OtherOpens(f) \/ C!OtherCloses(f)
         \/ MasterLooks \/ UNCHANGED C!vars
  PROVE  C!InStep'
<1>1. UNCHANGED <<opened, asked, up, toSlave, toClient, slave, file, view, download, mixed, out, skew>>
  BY DEF C!ReportsLate, C!OtherOpens, C!OtherCloses, MasterLooks, C!LookUp, C!Refused, C!vars, C!data, C!client, C!session
<1> QED BY <1>1, StaysInStep

LEMMA InitInStep ==
  ASSUME C!Init, ClientAssumption
  PROVE  C!InStep
<1>1. ClientBasics
  BY InitBasics
<1>2. /\ opened = C!Closed /\ asked = C!Idle /\ download = <<>> /\ up = FALSE /\ toSlave = <<>>
      /\ out = C!NoResult /\ slave = [st |-> "off", file |-> opened.file, rd |-> FALSE, wr |-> FALSE]
  BY DEF C!Init
<1>3. ~opened.open /\ ~up
  BY <1>2, ClosedShape
<1>4. C!CallInRange
  BY <1>2, <1>3 DEF C!CallInRange, C!Idle
<1>5. ~C!Pending
  BY <1>2 DEF C!Pending
<1>6. C!LocalTrue
  <2>1. C!IsPrefix(<<>>, file[opened.file])
    BY <1>1, HandleTypes, EmptyPrefix DEF ClientBasics
  <2> QED BY <1>2, <1>3, <1>5, <2>1 DEF C!LocalTrue
<1>7. C!SlaveReadsTrue /\ C!DownloadWhole
  BY <1>2 DEF C!SlaveReadsTrue, C!DownloadWhole, C!NoResult
<1> QED BY <1>2, <1>3, <1>4, <1>6, <1>7 DEF C!InStep

\* A session that is out of step stays so.
LEMMA SkewStays ==
  ASSUME C!TypeOK, [C!Next]_C!vars
  PROVE  (~skew' => ~skew) \/ C!Open
<1>1. skew \in BOOLEAN
  BY DEF C!TypeOK
<1>2. C!SlaveSends => (~skew' => ~skew)
  <2>1. ASSUME C!SlaveSends
        PROVE  UNCHANGED skew \/ skew' = (skew \/ Len(file[slave.file]) # opened.size)
    BY <2>1 DEF C!SlaveSends
  <2> QED BY <2>1
<1>3. \/ \E n \in 1 .. 2, ahead \in {0, Ahead} : C!Read(n, ahead)
      \/ \E n \in 1 .. 2 : C!Write(n)
      \/ \E cont \in BOOLEAN : C!Download(cont)
      \/ C!Upload(2) \/ C!Close
      \/ \E g \in BOOLEAN, p \in {0, 1} : C!Seek(g, p)
      => UNCHANGED skew
  BY DEF C!Read, C!Write, C!Download, C!Upload, C!Close, C!Seek, C!session
<1>4. C!Consent \/ C!Received \/ C!DownloadEmpty \/ C!NotReceived => UNCHANGED skew
  BY DEF C!Consent, C!Received, C!DownloadEmpty, C!NotReceived, C!session
<1>5. C!SlaveCommand \/ C!SlaveStores \/ C!SlaveNotReceived \/ C!SlaveReports \/ C!SlaveEnds \/ C!Break => UNCHANGED skew
  BY DEF C!SlaveCommand, C!SlaveStores, C!SlaveNotReceived, C!SlaveReports, C!SlaveEnds, C!Break
<1>6. \/ \E s \in ending : C!ReportsLate(s)
      \/ \E f \in ClientFiles : C!OtherOpens(f) \/ C!OtherAppends(f) \/ C!OtherCloses(f)
      \/ MasterLooks \/ UNCHANGED C!vars
      => UNCHANGED skew
  BY DEF C!ReportsLate, C!OtherOpens, C!OtherAppends, C!OtherCloses, MasterLooks, C!LookUp, C!Refused, C!vars, C!session
<1>7. (\E x \in late : \E n \in 0 .. Len(x.d) : C!StoresLate(x, n)) => (~skew' => ~skew)
  BY DEF C!StoresLate
<1> QED BY <1>2, <1>3, <1>4, <1>5, <1>6, <1>7 DEF C!Next, MasterLooks

LEMMA StepInStep ==
  ASSUME ClientLocks, ClientLocks', ClientAssumption, ~skew => C!InStep, ~skew', [C!Next]_C!vars
  PROVE  C!InStep'
<1> USE DEF ClientLocks
<1>1. CASE C!Open
  BY <1>1, OpenInStep
<1>2. CASE ~C!Open
  <2>1. ~skew
    BY <1>2, SkewStays DEF ClientBasics
  <2>2. C!InStep
    BY <2>1
  <2>3. CASE \E n \in 1 .. 2, ahead \in {0, Ahead} : C!Read(n, ahead)
    BY <2>2, <2>3, ReadInStep
  <2>4. CASE \E n \in 1 .. 2 : C!Write(n)
    BY <2>2, <2>4, WriteInStep
  <2>5. CASE \E cont \in BOOLEAN : C!Download(cont)
    BY <2>2, <2>5, DownloadInStep
  <2>6. CASE C!Upload(2) \/ C!Close
    BY <2>2, <2>6, UploadInStep, CloseInStep
  <2>7. CASE \E g \in BOOLEAN, p \in {0, 1} : C!Seek(g, p)
    BY <2>2, <2>7, SeekInStep
  <2>8. CASE C!Consent \/ C!Received \/ C!DownloadEmpty \/ C!NotReceived
    BY <2>2, <2>8, ConsentInStep, ReceivedInStep, EmptyInStep, NotReceivedInStep
  <2>9. CASE C!SlaveCommand \/ C!SlaveSends \/ C!SlaveStores
    BY <2>1, <2>2, <2>9, CommandInStep, SendsInStep, StoresInStep
  <2>10. CASE C!SlaveNotReceived \/ C!SlaveReports \/ C!SlaveEnds \/ C!Break
    BY <2>1, <2>2, <2>10, EndingInStep, BreakInStep
  <2>11. CASE \/ \E s \in ending : C!ReportsLate(s)
              \/ \E f \in ClientFiles : C!OtherOpens(f) \/ C!OtherAppends(f) \/ C!OtherCloses(f)
              \/ MasterLooks \/ UNCHANGED C!vars
    BY <2>2, <2>11, AppendInStep, OthersInStep
  <2>12. CASE \E x \in late : \E n \in 0 .. Len(x.d) : C!StoresLate(x, n)
    BY <2>2, <2>12, LateInStep
  <2> QED BY <1>2, <2>3, <2>4, <2>5, <2>6, <2>7, <2>8, <2>9, <2>10, <2>11, <2>12 DEF C!Next, MasterLooks
<1> QED BY <1>1, <1>2

\* The invariant says what is asked of it.
LEMMA InvIsTrue ==
  ASSUME ClientLocks, ~skew => C!InStep
  PROVE  SlaveSendsTrue
<1>1. C!ClientInv
  BY DEF ClientLocks, ClientBasics, C!ClientInv
<1>2. C!SlaveReadsTrue /\ C!DownloadWhole
  BY DEF C!InStep, C!SlaveReadsTrue, C!DownloadWhole
<1>3. C!StreamsInStep
  <2> SUFFICES ASSUME asked = C!Idle, up, slave.st = "cmd", ~skew
               PROVE  toClient = <<>>
    BY DEF C!StreamsInStep
  <2>1. ~C!Over
    BY DEF C!Over, C!Serves
  <2> QED BY <2>1, IdleSession DEF C!NotSeen
<1>4. C!WithinTheFile
  BY DEF C!WithinTheFile, C!InStep, C!CallInRange
<1> QED BY <1>1, <1>2, <1>3, <1>4 DEF SlaveSendsTrue

\* What a slave sends is what was asked for, for any files, sizes, units, calls and breaks: unless a
\* download finds another size than the handle goes by, the two ends of a session agree on every
\* step of its commands, so reads and downloads are true to the file that was opened, and between
\* two calls nothing is left on the stream (fsclient.cpp: read, write, download, upload, close;
\* serv_file.cpp: cases 1 to 5).
THEOREM SlavesSendTrue ==
  ASSUME ClientAssumption
  PROVE  C!Spec => []SlaveSendsTrue
<1> DEFINE Inv == ClientLocks /\ (~skew => C!InStep)
<1>1. C!Init => Inv
  BY InitLocks, InitInStep
<1>2. Inv /\ [C!Next]_(C!vars) => Inv'
  <2> SUFFICES ASSUME Inv, [C!Next]_(C!vars)
               PROVE  Inv'
    OBVIOUS
  <2>1. ClientLocks'
    BY StepKeepsLocks
  <2>2. ~skew' => C!InStep'
    BY <2>1, StepInStep
  <2> QED BY <2>1, <2>2
<1>3. Inv => SlaveSendsTrue
  BY InvIsTrue
<1> QED BY <1>1, <1>2, <1>3, PTL DEF C!Spec
=============================================================================
