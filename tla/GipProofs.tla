------------------------------- MODULE GipProofs -------------------------------
(***************************************************************************)
(* Proofs about module Gip, two programs that talk over channels, for      *)
(* channels and queues of any size and any number of commands: messages    *)
(* stay whole and every request is answered once.                          *)
(*                                                                         *)
(* The inductive invariant is GInv.  FramesWhole is not inductive alone: a *)
(* program must know how much of a message is still to come, so that it    *)
(* never takes the beginning of the next one.  RequestsExact also needs    *)
(* that the numbers in use are below next_req_id.                          *)
(***************************************************************************)
EXTENDS Gip, FiniteSetTheorems, SequenceTheorems, TLAPS

\* Induction over the natural numbers, in sets: one that has 0 and every successor
\* has them all, or adding one would be onto for a finite part of it.
LEMMA SetInduction ==
  ASSUME NEW S, 0 \in S, \A n \in Nat : n \in S => n + 1 \in S
  PROVE  Nat \subseteq S
<1> SUFFICES ASSUME NEW m \in Nat, m \notin S PROVE FALSE
  OBVIOUS
<1> DEFINE A == S \cap (0 .. m)
           f == [n \in A |-> n + 1]
<1>1. A \in SUBSET (0 .. m) /\ IsFiniteSet(A)
  <2>1. A \in SUBSET (0 .. m)
    OBVIOUS
  <2>2. IsFiniteSet(0 .. m)
    BY FS_Interval
  <2> HIDE DEF A
  <2> QED
    BY <2>1, <2>2, FS_Subset
<1>2. f \in Injection(A, A)
  BY <1>1 DEF Injection, IsInjective
<1>3. f \in Surjection(A, A)
  BY <1>1, <1>2, FS_Injection
<1>4. 0 \in A /\ \A n \in A : f[n] = n + 1 /\ n \in Nat
  OBVIOUS
<1>5. PICK n \in A : f[n] = 0
  BY <1>3, <1>4 DEF Surjection
<1> QED
  BY <1>4, <1>5


-----------------------------------------------------------------------------
(***************************************************************************)
(* What FlattenSeq() makes of a sequence of sequences.                     *)
(***************************************************************************)

\* The function that FlattenSeq() is defined by.
Joins(s, j) ==
  j = [i \in 1 .. Len(s) |-> IF i = 1 THEN s[i] ELSE j[i - 1] \o s[i]]

\* There is one such function.
LEMMA JoinsOnce ==
  ASSUME NEW S, NEW s \in Seq(Seq(S)), NEW j, Joins(s, j), NEW k, Joins(s, k)
  PROVE  j = k
<1>1. Len(s) \in Nat
  OBVIOUS
<1>2. /\ j = [i \in 1 .. Len(s) |-> j[i]] /\ k = [i \in 1 .. Len(s) |-> k[i]]
      /\ \A i \in 1 .. Len(s) : /\ j[i] = IF i = 1 THEN s[i] ELSE j[i - 1] \o s[i]
                                /\ k[i] = IF i = 1 THEN s[i] ELSE k[i - 1] \o s[i]
  BY DEF Joins
<1> DEFINE Good == {n \in Nat : n + 1 \in 1 .. Len(s) => j[n + 1] = k[n + 1]}
<1>3. 0 \in Good
  <2>1. 0 + 1 = 1 /\ 0 \in Nat
    OBVIOUS
  <2> QED
    BY <1>2, <2>1
<1>4. ASSUME NEW n \in Nat, n \in Good PROVE n + 1 \in Good
  <2> SUFFICES ASSUME n + 1 + 1 \in 1 .. Len(s) PROVE j[n + 1 + 1] = k[n + 1 + 1]
    OBVIOUS
  <2> HIDE DEF Good
  <2>1. n + 1 \in 1 .. Len(s) /\ n + 1 + 1 # 1 /\ (n + 1 + 1) - 1 = n + 1
    BY <1>1
  <2>2. j[n + 1] = k[n + 1]
    BY <1>4, <2>1 DEF Good
  <2>3. /\ j[n + 1 + 1] = j[(n + 1 + 1) - 1] \o s[n + 1 + 1]
        /\ k[n + 1 + 1] = k[(n + 1 + 1) - 1] \o s[n + 1 + 1]
    BY <1>2, <2>1
  <2> QED
    BY <2>1, <2>2, <2>3
<1>5. \A n \in Nat : n \in Good => n + 1 \in Good
  BY <1>4
<1> HIDE DEF Good
<1>6. Nat \subseteq Good
  BY <1>3, <1>5, SetInduction
<1>7. \A i \in 1 .. Len(s) : j[i] = k[i]
  <2> SUFFICES ASSUME NEW i \in 1 .. Len(s) PROVE j[i] = k[i]
    OBVIOUS
  <2>1. i - 1 \in Nat /\ (i - 1) + 1 = i
    BY <1>1
  <2> QED
    BY <1>6, <2>1 DEF Good
<1> QED
  BY <1>2, <1>7

\* The function for a sequence that is one longer.
LEMMA JoinsAppend ==
  ASSUME NEW S, NEW s \in Seq(Seq(S)), NEW x \in Seq(S),
         NEW j \in [1 .. Len(s) -> Seq(S)], Joins(s, j)
  PROVE  \E k \in [1 .. Len(Append(s, x)) -> Seq(S)] :
           /\ Joins(Append(s, x), k)
           /\ k[Len(s) + 1] = IF s = <<>> THEN x ELSE j[Len(s)] \o x
<1> DEFINE r == Append(s, x)
           y == IF s = <<>> THEN x ELSE j[Len(s)] \o x
           k == [i \in 1 .. Len(r) |-> IF i = Len(s) + 1 THEN y ELSE j[i]]
<1>1. /\ Len(r) = Len(s) + 1 /\ Len(s) \in Nat /\ r[Len(s) + 1] = x
      /\ \A i \in 1 .. Len(s) : r[i] = s[i]
  BY AppendProperties
<1>2. s = <<>> <=> Len(s) = 0
  OBVIOUS
<1>3. \A i \in 1 .. Len(s) : j[i] = IF i = 1 THEN s[i] ELSE j[i - 1] \o s[i]
  BY DEF Joins
<1>4. y \in Seq(S)
  <2>1. CASE s = <<>>
    BY <2>1
  <2>2. CASE s # <<>>
    <3>1. Len(s) \in 1 .. Len(s)
      BY <1>1, <1>2, <2>2
    <3>2. j[Len(s)] \in Seq(S)
      BY <3>1
    <3> QED
      BY <2>2, <3>2, ConcatProperties
  <2> QED
    BY <2>1, <2>2
<1> HIDE DEF r, y
<1>5. k \in [1 .. Len(r) -> Seq(S)]
  <2> SUFFICES ASSUME NEW i \in 1 .. Len(r), i # Len(s) + 1 PROVE j[i] \in Seq(S)
    BY <1>4
  <2>1. i \in 1 .. Len(s)
    BY <1>1
  <2> QED
    BY <2>1
<1>6. ASSUME NEW i \in 1 .. Len(r)
      PROVE  k[i] = IF i = 1 THEN r[i] ELSE k[i - 1] \o r[i]
  <2>1. CASE i = Len(s) + 1 /\ Len(s) = 0
    BY <1>1, <1>2, <2>1 DEF y
  <2>2. CASE i = Len(s) + 1 /\ Len(s) # 0
    <3>1. i # 1 /\ i - 1 = Len(s) /\ i - 1 \in 1 .. Len(r) /\ i - 1 # Len(s) + 1
      BY <1>1, <2>2
    <3>2. k[i - 1] = j[Len(s)] /\ k[i] = y
      BY <2>2, <3>1
    <3> QED
      BY <1>1, <1>2, <2>2, <3>1, <3>2 DEF y
  <2>3. CASE i # Len(s) + 1
    <3>1. i \in 1 .. Len(s) /\ k[i] = j[i] /\ r[i] = s[i]
      BY <1>1, <2>3
    <3>2. i # 1 => i - 1 \in 1 .. Len(r) /\ i - 1 # Len(s) + 1
      BY <1>1, <3>1
    <3>3. i # 1 => k[i - 1] = j[i - 1]
      BY <3>2
    <3> QED
      BY <1>3, <3>1, <3>3
  <2> QED
    BY <2>1, <2>2, <2>3
<1>7. Joins(r, k)
  <2>1. k = [i \in 1 .. Len(r) |-> k[i]]
    OBVIOUS
  <2> HIDE DEF k
  <2> QED
    BY <1>6, <2>1 DEF Joins
<1>8. k[Len(s) + 1] = y
  BY <1>1
<1> QED
  BY <1>5, <1>7, <1>8 DEF r, y

\* The function of every sequence.
LEMMA JoinsExist ==
  ASSUME NEW S, NEW s \in Seq(Seq(S))
  PROVE  \E j \in [1 .. Len(s) -> Seq(S)] : Joins(s, j)
<1> DEFINE P(t) == \E j \in [1 .. Len(t) -> Seq(S)] : Joins(t, j)
           Good == {n \in Nat : \A t \in Seq(Seq(S)) : Len(t) = n => P(t)}
<1>1. 0 \in Good
  <2> SUFFICES ASSUME NEW t \in Seq(Seq(S)), Len(t) = 0 PROVE P(t)
    OBVIOUS
  <2> DEFINE e == [i \in 1 .. Len(t) |-> <<>>]
  <2>1. e \in [1 .. Len(t) -> Seq(S)] /\ Joins(t, e)
    BY DEF Joins
  <2> HIDE DEF e
  <2> QED
    BY <2>1
<1>2. ASSUME NEW n \in Nat, n \in Good PROVE n + 1 \in Good
  <2> SUFFICES ASSUME NEW t \in Seq(Seq(S)), Len(t) = n + 1 PROVE P(t)
    OBVIOUS
  <2>1. t # <<>>
    OBVIOUS
  <2>2. PICK r \in Seq(Seq(S)), x \in Seq(S) : t = Append(r, x)
    BY <2>1, SequenceEmptyOrAppend
  <2>3. Len(r) = n
    BY <2>2, AppendProperties
  <2>4. PICK j \in [1 .. Len(r) -> Seq(S)] : Joins(r, j)
    BY <1>2, <2>3
  <2> QED
    BY <2>2, <2>4, JoinsAppend
<1>3. \A n \in Nat : n \in Good => n + 1 \in Good
  BY <1>2
<1> HIDE DEF Good
<1>4. Nat \subseteq Good
  BY <1>1, <1>3, SetInduction
<1>5. Len(s) \in Good
  BY <1>4
<1> QED
  BY <1>5 DEF Good

\* The sequence of sequences that FlattenSeq() joins ends with x.
LEMMA FlatIs ==
  ASSUME NEW S, NEW s \in Seq(Seq(S)), NEW j \in [1 .. Len(s) -> Seq(S)], Joins(s, j)
  PROVE  FlattenSeq(s) = IF s = <<>> THEN <<>> ELSE j[Len(s)]
<1>1. s = <<>> <=> Len(s) = 0
  OBVIOUS
<1>2. j = CHOOSE k : Joins(s, k)
  <2>1. \A k : Joins(s, k) => k = j
    BY JoinsOnce
  <2> QED
    BY <2>1
<1> QED
  BY <1>1, <1>2 DEF FlattenSeq, Joins

LEMMA FlatAppend ==
  ASSUME NEW S, NEW s \in Seq(Seq(S)), NEW x \in Seq(S)
  PROVE  /\ FlattenSeq(s) \in Seq(S)
         /\ FlattenSeq(Append(s, x)) = FlattenSeq(s) \o x
<1>1. PICK j \in [1 .. Len(s) -> Seq(S)] : Joins(s, j)
  BY JoinsExist
<1>2. PICK k \in [1 .. Len(Append(s, x)) -> Seq(S)] :
        /\ Joins(Append(s, x), k)
        /\ k[Len(s) + 1] = IF s = <<>> THEN x ELSE j[Len(s)] \o x
  BY <1>1, JoinsAppend
<1>3. FlattenSeq(s) = IF s = <<>> THEN <<>> ELSE j[Len(s)]
  BY <1>1, FlatIs
<1>4. Append(s, x) \in Seq(Seq(S)) /\ Append(s, x) # <<>> /\ Len(Append(s, x)) = Len(s) + 1
  BY AppendProperties
<1>5. FlattenSeq(Append(s, x)) = k[Len(s) + 1]
  BY <1>2, <1>4, FlatIs
<1>6. s # <<>> => Len(s) \in 1 .. Len(s)
  OBVIOUS
<1>7. FlattenSeq(s) \in Seq(S)
  <2>1. CASE s = <<>>
    BY <1>3, <2>1
  <2>2. CASE s # <<>>
    <3>1. j[Len(s)] \in Seq(S)
      BY <1>6, <2>2
    <3> QED
      BY <1>3, <2>2, <3>1
  <2> QED
    BY <2>1, <2>2
<1>8. s = <<>> => <<>> \o x = x
  BY ConcatEmptySeq
<1> QED
  BY <1>2, <1>3, <1>5, <1>7, <1>8

Associates(a, b, c) == (a \o b) \o c = a \o (b \o c)

LEMMA JoinThree ==
  ASSUME NEW S, NEW a \in Seq(S), NEW b \in Seq(S), NEW c \in Seq(S)
  PROVE  Associates(a, b, c)
BY ConcatAssociative DEF Associates

\* Sequences of sequences, one after the other.
LEMMA FlatConcat ==
  ASSUME NEW S, NEW s \in Seq(Seq(S)), NEW t \in Seq(Seq(S))
  PROVE  /\ FlattenSeq(s) \in Seq(S) /\ FlattenSeq(t) \in Seq(S)
         /\ FlattenSeq(s \o t) = FlattenSeq(s) \o FlattenSeq(t)
<1> DEFINE P(u) == FlattenSeq(s \o u) = FlattenSeq(s) \o FlattenSeq(u)
           Good == {n \in Nat : \A u \in Seq(Seq(S)) : Len(u) = n => P(u)}
<1>1. PICK x \in Seq(S) : x = FlattenSeq(s)
  BY FlatAppend, EmptySeq
<1>2. FlattenSeq(<<>>) = <<>>
  BY DEF FlattenSeq
<1>3. 0 \in Good
  <2> SUFFICES ASSUME NEW u \in Seq(Seq(S)), Len(u) = 0 PROVE P(u)
    OBVIOUS
  <2>1. u = <<>>
    BY EmptySeq
  <2>2. s \o <<>> = s /\ x \o <<>> = x
    BY ConcatEmptySeq
  <2> QED
    BY <1>1, <1>2, <2>1, <2>2
<1>4. ASSUME NEW n \in Nat, n \in Good PROVE n + 1 \in Good
  <2>0. \A u \in Seq(Seq(S)) : Len(u) = n => P(u)
    BY <1>4
  <2> SUFFICES ASSUME NEW u \in Seq(Seq(S)), Len(u) = n + 1 PROVE P(u)
    <3> HIDE DEF P
    <3> QED
      OBVIOUS
  <2>1. u # <<>>
    BY EmptySeq
  <2>2. PICK r \in Seq(Seq(S)), y \in Seq(S) : u = Append(r, y)
    BY <2>1, SequenceEmptyOrAppend
  <2>3. Len(r) = n
    BY <2>2, AppendProperties
  <2>4. FlattenSeq(s \o r) = FlattenSeq(s) \o FlattenSeq(r)
    BY <2>0, <2>3
  <2> HIDE DEF Good
  <2>5. u = r \o <<y>> /\ <<y>> \in Seq(Seq(S))
    BY <2>2, AppendIsConcat
  <2>6. s \o u = (s \o r) \o <<y>>
    BY <2>5, ConcatAssociative
  <2>7. s \o r \in Seq(Seq(S))
    BY ConcatProperties
  <2>8. s \o u = Append(s \o r, y)
    BY <2>6, <2>7, AppendIsConcat
  <2>9. /\ FlattenSeq(s \o u) = FlattenSeq(s \o r) \o y
        /\ FlattenSeq(u) = FlattenSeq(r) \o y
        /\ FlattenSeq(r) \in Seq(S)
    BY <2>2, <2>7, <2>8, FlatAppend
  <2>10. (x \o FlattenSeq(r)) \o y = x \o (FlattenSeq(r) \o y)
    <3>1. PICK z \in Seq(S) : z = FlattenSeq(r)
      BY <2>9
    <3>2. x \in Seq(S) /\ y \in Seq(S) /\ z \in Seq(S)
      BY <1>1, <2>2, <3>1
    <3>3. Associates(x, z, y)
      BY <3>2, JoinThree
    <3>4. (x \o z) \o y = x \o (z \o y)
      BY <3>3 DEF Associates
    <3> QED
      BY <3>1, <3>4
  <2> QED
    BY <1>1, <2>4, <2>9, <2>10
<1>5. \A n \in Nat : n \in Good => n + 1 \in Good
  BY <1>4
<1> HIDE DEF Good
<1>6. Nat \subseteq Good
  BY <1>3, <1>5, SetInduction
<1>7. Len(t) \in Good
  BY <1>6
<1>8. P(t)
  BY <1>7 DEF Good
<1>9. FlattenSeq(s) \in Seq(S) /\ FlattenSeq(t) \in Seq(S)
  BY FlatAppend, EmptySeq
<1> QED
  BY <1>8, <1>9

\* A sequence of one sequence.
LEMMA FlatOne ==
  ASSUME NEW S, NEW x \in Seq(S)
  PROVE  FlattenSeq(<<x>>) = x
<1>1. <<x>> = Append(<<>>, x) /\ <<>> \in Seq(Seq(S))
  OBVIOUS
<1>2. FlattenSeq(<<>>) = <<>>
  BY DEF FlattenSeq
<1>3. FlattenSeq(Append(<<>>, x)) = FlattenSeq(<<>>) \o x
  BY <1>1, FlatAppend
<1> QED
  BY <1>1, <1>2, <1>3, ConcatEmptySeq

-----------------------------------------------------------------------------
(***************************************************************************)
(* Messages.                                                               *)
(***************************************************************************)

\* What a client sends and what giosrv sends.  Only commands that wait for an
\* answer, and answers, have a number.
Commands ==
  {m \in [code : {"reset", "query_mode", "switch_buffer"}, id : Nat] :
     m.id = 0 <=> m.code = "switch_buffer"}
Answers ==
  {m \in [code : {"initiate", "failure", "buffer_info", "key_down"}, id : Nat] :
     m.id = 0 <=> m.code \in {"buffer_info", "key_down"}}
Msgs == Commands \cup Answers
Unit == Msgs \X (1 .. 3)

\* The messages of a sequence as buffers, and as units one after the other.
Framed(c) == [k \in DOMAIN c |-> Units(c[k])]
Stream(c) == FlattenSeq(Framed(c))

\* How many messages of a sequence have the number i.
Count(c, i) == Cardinality({k \in DOMAIN c : c[k].id = i})

LEMMA UnitsOf ==
  ASSUME NEW m \in Msgs
  PROVE  /\ Units(m) \in Seq(Unit) /\ Len(Units(m)) = MsgSize(m)
         /\ MsgSize(m) \in {2, 3} /\ Units(m)[1] = <<m, 1>>
<1>1. MsgSize(m) \in {2, 3}
  BY DEF MsgSize
<1>2. Units(m) = [k \in 1 .. MsgSize(m) |-> <<m, k>>]
  BY DEF Units
<1>3. \A k \in 1 .. MsgSize(m) : <<m, k>> \in Unit
  BY <1>1 DEF Unit
<1>4. Units(m) \in Seq(Unit) /\ Len(Units(m)) = MsgSize(m)
  BY <1>1, <1>2, <1>3
<1> QED
  BY <1>1, <1>2, <1>4

LEMMA FramedConcat ==
  ASSUME NEW c \in Seq(Msgs), NEW d \in Seq(Msgs)
  PROVE  /\ Framed(c) \in Seq(Seq(Unit)) /\ Framed(d) \in Seq(Seq(Unit))
         /\ Len(Framed(d)) = Len(d)
         /\ Framed(c \o d) = Framed(c) \o Framed(d)
<1>1. ASSUME NEW e \in Seq(Msgs)
      PROVE  /\ Framed(e) \in Seq(Seq(Unit)) /\ Len(Framed(e)) = Len(e)
             /\ \A k \in 1 .. Len(e) : Framed(e)[k] = Units(e[k])
  <2>1. DOMAIN e = 1 .. Len(e) /\ Len(e) \in Nat
    OBVIOUS
  <2>2. Framed(e) = [k \in 1 .. Len(e) |-> Units(e[k])]
    BY <2>1 DEF Framed
  <2>3. \A k \in 1 .. Len(e) : Units(e[k]) \in Seq(Unit)
    BY UnitsOf
  <2> QED
    BY <2>1, <2>2, <2>3
<1>2. /\ c \o d \in Seq(Msgs) /\ Len(c \o d) = Len(c) + Len(d)
      /\ \A i \in 1 .. Len(c) + Len(d) : (c \o d)[i] = IF i <= Len(c) THEN c[i] ELSE d[i - Len(c)]
  BY ConcatProperties
<1>3. /\ Framed(c) \o Framed(d) \in Seq(Seq(Unit))
      /\ Len(Framed(c) \o Framed(d)) = Len(c) + Len(d)
      /\ \A i \in 1 .. Len(c) + Len(d) : (Framed(c) \o Framed(d))[i] =
           IF i <= Len(c) THEN Framed(c)[i] ELSE Framed(d)[i - Len(c)]
  <2>1. /\ Framed(c) \in Seq(Seq(Unit)) /\ Len(Framed(c)) = Len(c)
        /\ Framed(d) \in Seq(Seq(Unit)) /\ Len(Framed(d)) = Len(d)
    BY <1>1
  <2>2. PICK x \in Seq(Seq(Unit)), y \in Seq(Seq(Unit)) : x = Framed(c) /\ y = Framed(d)
    BY <2>1
  <2>3. /\ x \o y \in Seq(Seq(Unit)) /\ Len(x \o y) = Len(x) + Len(y)
        /\ \A i \in 1 .. Len(x) + Len(y) : (x \o y)[i] = IF i <= Len(x) THEN x[i] ELSE y[i - Len(x)]
    BY ConcatProperties
  <2> QED
    BY <2>1, <2>2, <2>3
<1>4. ASSUME NEW i \in 1 .. Len(c) + Len(d)
      PROVE  Framed(c \o d)[i] = (Framed(c) \o Framed(d))[i]
  <2>0. Len(c) \in Nat /\ Len(d) \in Nat
    OBVIOUS
  <2>1. Framed(c \o d)[i] = Units((c \o d)[i])
    BY <1>1, <1>2
  <2>2. CASE i <= Len(c)
    <3>1. i \in 1 .. Len(c)
      BY <2>0, <2>2
    <3>2. Framed(c)[i] = Units(c[i])
      BY <1>1, <3>1
    <3> QED
      BY <1>2, <1>3, <2>1, <2>2, <3>2
  <2>3. CASE ~ (i <= Len(c))
    <3>1. i - Len(c) \in 1 .. Len(d)
      BY <2>0, <2>3
    <3>2. Framed(d)[i - Len(c)] = Units(d[i - Len(c)])
      BY <1>1, <3>1
    <3> QED
      BY <1>2, <1>3, <2>1, <2>3, <3>2
  <2> QED
    BY <2>2, <2>3
<1>5. Framed(c \o d) \in Seq(Seq(Unit)) /\ Len(Framed(c \o d)) = Len(c) + Len(d)
  BY <1>1, <1>2
<1>6. Framed(c \o d) = Framed(c) \o Framed(d)
  BY <1>3, <1>4, <1>5, SeqEqual
<1> QED
  BY <1>1, <1>6

LEMMA StreamConcat ==
  ASSUME NEW c \in Seq(Msgs), NEW d \in Seq(Msgs)
  PROVE  /\ Stream(c) \in Seq(Unit) /\ Stream(d) \in Seq(Unit)
         /\ Stream(c \o d) = Stream(c) \o Stream(d)
BY FramedConcat, FlatConcat DEF Stream

\* The stream begins with the units of its first message.
LEMMA StreamFirst ==
  ASSUME NEW c \in Seq(Msgs), c # <<>>
  PROVE  /\ Head(c) \in Msgs /\ Tail(c) \in Seq(Msgs) /\ Stream(Tail(c)) \in Seq(Unit)
         /\ Stream(c) = Units(Head(c)) \o Stream(Tail(c))
<1>1. Head(c) \in Msgs /\ Tail(c) \in Seq(Msgs)
  BY HeadTailProperties
<1>2. c = <<Head(c)>> \o Tail(c)
  OBVIOUS
<1>3. PICK m \in Msgs : m = Head(c)
  BY <1>1
<1>4. PICK t \in Seq(Msgs) : t = Tail(c)
  BY <1>1
<1>5. Framed(<<m>>) = <<Units(m)>>
  BY DEF Framed
<1>6. Stream(<<m>>) = Units(m)
  BY <1>5, UnitsOf, FlatOne DEF Stream
<1>7. <<m>> \in Seq(Msgs)
  OBVIOUS
<1>8. Stream(<<m>> \o t) = Stream(<<m>>) \o Stream(t) /\ Stream(t) \in Seq(Unit)
  BY <1>7, StreamConcat
<1> QED
  BY <1>1, <1>2, <1>3, <1>4, <1>6, <1>8

LEMMA StreamEmpty == Stream(<<>>) = <<>> /\ Framed(<<>>) = <<>>
BY DEF Stream, Framed, FlattenSeq

\* The places of the messages with the number i.
Places(c, i) == {k \in DOMAIN c : c[k].id = i}

LEMMA PlacesFinite ==
  ASSUME NEW c \in Seq(Msgs), NEW i
  PROVE  IsFiniteSet(Places(c, i)) /\ Count(c, i) \in Nat /\ Places(c, i) \in SUBSET (1 .. Len(c))
<1>1. Places(c, i) \in SUBSET (1 .. Len(c)) /\ Len(c) \in Nat
  BY DEF Places
<1>2. IsFiniteSet(1 .. Len(c))
  BY <1>1, FS_Interval
<1>3. IsFiniteSet(Places(c, i))
  BY <1>1, <1>2, FS_Subset
<1> QED
  BY <1>1, <1>3, FS_CardinalityType DEF Count, Places

\* A message counts if it has the number.
One(m, i) == IF m.id = i THEN 1 ELSE 0

LEMMA CountAppend ==
  ASSUME NEW c \in Seq(Msgs), NEW m \in Msgs, NEW i
  PROVE  Count(Append(c, m), i) = Count(c, i) + One(m, i)
<1> DEFINE d == Append(c, m)
           n == Len(c) + 1
<1>1. /\ Len(d) = n /\ Len(c) \in Nat /\ d[n] = m /\ d \in Seq(Msgs)
      /\ \A k \in 1 .. Len(c) : d[k] = c[k]
  BY AppendProperties
<1>2. DOMAIN d = 1 .. n /\ DOMAIN c = 1 .. Len(c)
  BY <1>1
<1> HIDE DEF d
<1>3. \A k \in 1 .. n : k = n \/ k \in 1 .. Len(c)
  BY <1>1
<1>4. n \in 1 .. n /\ n \notin 1 .. Len(c) /\ 1 .. Len(c) \subseteq 1 .. n
  BY <1>1
<1> HIDE DEF n
<1>5. Places(d, i) = IF m.id = i THEN Places(c, i) \cup {n} ELSE Places(c, i)
  BY <1>1, <1>2, <1>3, <1>4 DEF Places
<1>6. IsFiniteSet(Places(c, i)) /\ n \notin Places(c, i) /\ Cardinality(Places(c, i)) \in Nat
  BY <1>4, PlacesFinite DEF Count, Places
<1>7. Cardinality(Places(c, i) \cup {n}) = Cardinality(Places(c, i)) + 1
  BY <1>6, FS_AddElement
<1>8. Count(d, i) = Count(c, i) + One(m, i)
  <2>1. Count(d, i) = Cardinality(Places(d, i)) /\ Count(c, i) = Cardinality(Places(c, i))
    BY DEF Count, Places
  <2> QED
    BY <1>5, <1>6, <1>7, <2>1 DEF One
<1> QED
  BY <1>8 DEF d

LEMMA CountTail ==
  ASSUME NEW c \in Seq(Msgs), c # <<>>, NEW i
  PROVE  Count(c, i) = One(Head(c), i) + Count(Tail(c), i)
<1> DEFINE t == Tail(c)
           A == Places(t, i)
           B == Places(c, i) \ {1}
           f == [k \in A |-> k + 1]
<1>1. /\ Len(c) \in Nat \ {0} /\ t \in Seq(Msgs) /\ Len(t) = Len(c) - 1 /\ Head(c) = c[1]
      /\ \A k \in 1 .. Len(t) : t[k] = c[k + 1]
  BY HeadTailProperties, EmptySeq
<1>2. DOMAIN c = 1 .. Len(c) /\ DOMAIN t = 1 .. Len(t)
  BY <1>1
<1> HIDE DEF t
<1>3. \A k \in 1 .. Len(t) : k + 1 \in 1 .. Len(c) /\ k + 1 # 1 /\ k \in Nat
  BY <1>1
<1>4. \A k \in 1 .. Len(c) : k # 1 => k - 1 \in 1 .. Len(t) /\ (k - 1) + 1 = k
  BY <1>1
<1>5. f \in [A -> B]
  BY <1>1, <1>2, <1>3 DEF Places
<1>6. \A k \in A : k \in 1 .. Len(t)
  BY <1>2 DEF Places
<1>7. \A k, l \in A : f[k] = f[l] => k = l
  BY <1>3, <1>6
<1>8. \A k \in B : \E l \in A : f[l] = k
  <2> SUFFICES ASSUME NEW k \in B PROVE k - 1 \in A /\ f[k - 1] = k
    OBVIOUS
  <2>1. k \in 1 .. Len(c) /\ k # 1 /\ c[k].id = i
    BY <1>2 DEF Places
  <2>2. k - 1 \in 1 .. Len(t) /\ (k - 1) + 1 = k
    BY <1>4, <2>1
  <2>3. t[k - 1] = c[k]
    BY <1>1, <2>2
  <2>4. k - 1 \in A
    BY <1>2, <2>1, <2>2, <2>3 DEF Places
  <2> QED
    BY <2>2, <2>4
<1>9. f \in Bijection(A, B)
  BY <1>5, <1>7, <1>8 DEF Bijection, Injection, IsInjective, Surjection
<1>10. IsFiniteSet(A) /\ IsFiniteSet(Places(c, i)) /\ Cardinality(Places(c, i)) \in Nat
  BY <1>1, PlacesFinite DEF Count, Places
<1>11. IsFiniteSet(B) /\ Cardinality(A) = Cardinality(B) /\ Cardinality(A) \in Nat
  <2> HIDE DEF A, B, f
  <2>1. ExistsBijection(A, B)
    BY <1>9 DEF ExistsBijection
  <2> QED
    BY <1>10, <2>1, FS_Bijection, FS_CardinalityType
<1>12. 1 \in Places(c, i) <=> Head(c).id = i
  <2>1. 1 \in 1 .. Len(c)
    BY <1>1
  <2> QED
    BY <1>1, <1>2, <2>1 DEF Places
<1>13. Count(c, i) = Cardinality(Places(c, i)) /\ Count(t, i) = Cardinality(A)
  BY DEF Count, Places
<1>14. CASE Head(c).id = i
  <2>1. 1 \notin B /\ B \cup {1} = Places(c, i)
    BY <1>12, <1>14
  <2> HIDE DEF A, B
  <2>2. Cardinality(Places(c, i)) = Cardinality(B) + 1
    BY <1>11, <2>1, FS_AddElement
  <2>3. Count(c, i) = 1 + Count(t, i)
    BY <1>11, <1>13, <2>2
  <2>4. One(Head(c), i) = 1
    BY <1>14 DEF One
  <2> QED
    BY <2>3, <2>4 DEF t
<1>15. CASE Head(c).id # i
  <2>1. B = Places(c, i)
    BY <1>12, <1>15
  <2> HIDE DEF A, B
  <2>3. Count(c, i) = 0 + Count(t, i)
    BY <1>11, <1>13, <2>1
  <2>4. One(Head(c), i) = 0
    BY <1>15 DEF One
  <2> QED
    BY <2>3, <2>4 DEF t
<1> QED
  BY <1>14, <1>15

\* At most two messages are sent at a time.
LEMMA CountSent ==
  ASSUME NEW c \in Seq(Msgs), NEW d \in Seq(Msgs), NEW i, Len(d) <= 2
  PROVE  Count(c \o d, i) = Count(c, i) + (IF Len(d) >= 1 THEN One(d[1], i) ELSE 0)
                                        + (IF Len(d) = 2 THEN One(d[2], i) ELSE 0)
<1>1. Count(c, i) \in Nat /\ \A m : One(m, i) \in Nat
  BY PlacesFinite DEF One
<1>2. CASE Len(d) = 0
  <2>1. c \o d = c
    BY <1>2, EmptySeq, ConcatEmptySeq
  <2> QED
    BY <1>1, <1>2, <2>1
<1>3. CASE Len(d) = 1
  <2>1. d = <<d[1]>> /\ d[1] \in Msgs
    BY <1>3
  <2>2. c \o d = Append(c, d[1])
    BY <2>1, AppendIsConcat
  <2>3. PICK x \in Msgs : x = d[1]
    BY <2>1
  <2>4. Count(Append(c, x), i) = Count(c, i) + One(x, i)
    BY CountAppend
  <2> QED
    BY <1>1, <1>3, <2>2, <2>3, <2>4
<1>4. CASE Len(d) = 2
  <2>1. d = <<d[1], d[2]>> /\ d[1] \in Msgs /\ d[2] \in Msgs
    <3>1. d[1] \in Msgs /\ d[2] \in Msgs
      <4>1. 1 \in 1 .. Len(d) /\ 2 \in 1 .. Len(d)
        BY <1>4
      <4> QED
        BY <4>1, ElementOfSeq
    <3>2. \A x, y \in Msgs : /\ <<x, y>> \in Seq(Msgs) /\ Len(<<x, y>>) = 2
                             /\ <<x, y>>[1] = x /\ <<x, y>>[2] = y
      OBVIOUS
    <3>3. PICK e \in Seq(Msgs) : e = <<d[1], d[2]>> /\ Len(e) = 2 /\ e[1] = d[1] /\ e[2] = d[2]
      BY <3>1, <3>2
    <3>4. \A k \in 1 .. Len(d) : d[k] = e[k]
      BY <1>4, <3>3
    <3>5. d = e
      BY <1>4, <3>3, <3>4, SeqEqual
    <3> QED
      BY <3>1, <3>3, <3>5
  <2>2. PICK x \in Msgs, y \in Msgs : x = d[1] /\ y = d[2]
    BY <2>1
  <2>3. d = <<x>> \o <<y>> /\ <<x>> \in Seq(Msgs) /\ <<y>> \in Seq(Msgs)
    BY <2>1, <2>2
  <2>4. c \o d = (c \o <<x>>) \o <<y>>
    BY <2>3, ConcatAssociative
  <2>5. c \o <<x>> = Append(c, x) /\ Append(c, x) \in Seq(Msgs)
    BY AppendIsConcat, AppendProperties
  <2>6. c \o d = Append(Append(c, x), y)
    BY <2>4, <2>5, AppendIsConcat
  <2>7. /\ Count(Append(Append(c, x), y), i) = Count(Append(c, x), i) + One(y, i)
        /\ Count(Append(c, x), i) = Count(c, i) + One(x, i)
    BY <2>5, CountAppend
  <2> QED
    BY <1>1, <1>4, <2>2, <2>6, <2>7
<1>5. Len(d) \in {0, 1, 2}
  <2>1. Len(d) \in Nat
    BY LenProperties
  <2>2. PICK n \in Nat : n = Len(d) /\ n <= 2
    BY <2>1
  <2>3. n \in {0, 1, 2}
    BY <2>2
  <2> QED
    BY <2>2, <2>3
<1> QED
  BY <1>2, <1>3, <1>4, <1>5

-----------------------------------------------------------------------------
(***************************************************************************)
(* The stream of a side, (r \o s) \o w: what was read of a message, what   *)
(* is in the channel, and what waits in wr_bufs[] of the other side.       *)
(***************************************************************************)

Holds(r, s, w, c) == (r \o s) \o FlattenSeq(w) = Stream(c)

\* A buffer that is filled part by part misses units: some of a header or, if
\* that announces one, the body.
Partial(r) == Len(r) <= 2 /\ (Len(r) = 2 => MsgSize(r[1][1]) = 3)

\* What sc_read() takes for the buffer r from the channel's content s.
Taking(r, s) == Least(Missing(r), Len(s))
NowRead(r, s) == r \o SubSeq(s, 1, Taking(r, s))
Behind(r, s) == SubSeq(s, Taking(r, s) + 1, Len(s))

\* A sequence is cut in two.
LEMMA Cut ==
  ASSUME NEW S, NEW s \in Seq(S), NEW n \in 0 .. Len(s)
  PROVE  /\ SubSeq(s, 1, n) \in Seq(S) /\ SubSeq(s, n + 1, Len(s)) \in Seq(S)
         /\ Len(SubSeq(s, 1, n)) = n /\ Len(SubSeq(s, n + 1, Len(s))) = Len(s) - n
         /\ SubSeq(s, 1, n) \o SubSeq(s, n + 1, Len(s)) = s
<1>1. Len(s) \in Nat /\ n \in Nat /\ n <= Len(s) /\ \A i \in 1 .. Len(s) : s[i] \in S
  BY LenProperties, ElementOfSeq
<1>2. /\ 1 \in Int /\ n \in Int /\ n + 1 \in Int /\ Len(s) \in Int
      /\ \A i \in 1 .. n : s[i] \in S
      /\ \A i \in n + 1 .. Len(s) : s[i] \in S
  BY <1>1
<1>3. /\ SubSeq(s, 1, n) \in Seq(S)
      /\ Len(SubSeq(s, 1, n)) = IF 1 <= n THEN n - 1 + 1 ELSE 0
  BY <1>2, SubSeqProperties
<1>4. /\ SubSeq(s, n + 1, Len(s)) \in Seq(S)
      /\ Len(SubSeq(s, n + 1, Len(s))) = IF n + 1 <= Len(s) THEN Len(s) - (n + 1) + 1 ELSE 0
  BY <1>2, SubSeqProperties
<1>5. Len(SubSeq(s, 1, n)) = n
  BY <1>1, <1>3
<1>6. Len(SubSeq(s, n + 1, Len(s))) = Len(s) - n
  BY <1>1, <1>4
<1>7. 1 \in 1 .. Len(s) + 1 /\ n \in 1 - 1 .. Len(s) /\ Len(s) \in n .. Len(s)
  BY <1>1
<1>8. SubSeq(s, 1, n) \o SubSeq(s, n + 1, Len(s)) = SubSeq(s, 1, Len(s))
  BY <1>7, ConcatAdjacentSubSeq
<1> QED
  BY <1>3, <1>4, <1>5, <1>6, <1>8, SubSeqFull

\* Equal sequences have equal beginnings.
LEMMA SameBeginning ==
  ASSUME NEW S, NEW a \in Seq(S), NEW b \in Seq(S), NEW x \in Seq(S), NEW y \in Seq(S),
         a \o x = b \o y, Len(a) = Len(b)
  PROVE  a = b /\ x = y
<1>1. \A i \in 1 .. Len(a) : a[i] = b[i]
  <2> SUFFICES ASSUME NEW i \in 1 .. Len(a) PROVE a[i] = b[i]
    OBVIOUS
  <2>1. Len(a) \in Nat /\ Len(x) \in Nat /\ Len(y) \in Nat
    BY LenProperties
  <2>2. i \in 1 .. Len(a) + Len(x) /\ i \in 1 .. Len(b) + Len(y) /\ i <= Len(a)
    BY <2>1
  <2>3. (a \o x)[i] = a[i]
    BY <2>2, ConcatProperties
  <2>4. (b \o y)[i] = b[i]
    BY <2>2, ConcatProperties
  <2> QED
    BY <2>3, <2>4
<1>2. a = b
  BY <1>1, SeqEqual
<1> QED
  BY <1>2, ConcatSimplifications

\* What comes first, stays first.
LEMMA FirstStays ==
  ASSUME NEW S, NEW a \in Seq(S), NEW b \in Seq(S), Len(a) >= 1
  PROVE  (a \o b)[1] = a[1]
<1>1. Len(a) \in Nat /\ Len(b) \in Nat
  BY LenProperties
<1>2. 1 \in 1 .. Len(a) + Len(b) /\ 1 <= Len(a)
  BY <1>1
<1>3. (a \o b)[1] = IF 1 <= Len(a) THEN a[1] ELSE b[1 - Len(a)]
  BY <1>2, ConcatProperties
<1> QED
  BY <1>2, <1>3

LEMMA ReadTaken ==
  ASSUME NEW r \in Seq(Unit), NEW s \in Seq(Unit), Partial(r)
  PROVE  LET read == NowRead(r, s)  left == Behind(r, s) IN
         /\ read \in Seq(Unit) /\ left \in Seq(Unit) /\ Len(left) <= Len(s)
         /\ read \o left = r \o s
         /\ ~ Complete(read) => Partial(read)
         /\ Complete(read) => Len(read) >= 2 /\ Len(read) = MsgSize(read[1][1])
<1> DEFINE n == Taking(r, s)
           a == SubSeq(s, 1, n)
           b == SubSeq(s, n + 1, Len(s))
           q == r \o a
<1>0. \A m : MsgSize(m) \in {2, 3}
  BY DEF MsgSize
<1>1. Len(r) \in Nat /\ Len(s) \in Nat
  BY LenProperties
<1>2. Missing(r) = IF Len(r) < 2 THEN 2 - Len(r) ELSE 1
  <2>1. CASE Len(r) < 2
    BY <2>1 DEF Missing
  <2>2. CASE ~ (Len(r) < 2)
    <3>1. Len(r) = 2 /\ MsgSize(r[1][1]) = 3
      <4>1. PICK k \in Nat : k = Len(r)
        BY <1>1
      <4>2. k <= 2 /\ ~ (k < 2) /\ (k = 2 => MsgSize(r[1][1]) = 3)
        BY <2>2, <4>1 DEF Partial
      <4>3. k = 2
        BY <4>2
      <4> QED
        BY <4>1, <4>2, <4>3
    <3>2. Missing(r) = MsgSize(r[1][1]) - Len(r)
      BY <2>2 DEF Missing
    <3>3. Missing(r) = 3 - 2
      BY <3>1, <3>2
    <3> QED
      BY <2>2, <3>3
  <2> QED
    BY <2>1, <2>2
<1>3. n \in 0 .. Len(s) /\ n <= Missing(r) /\ (n = Missing(r) \/ n = Len(s))
  BY <1>1, <1>2 DEF Taking, Least, Partial
<1> HIDE DEF n
<1>4. a \in Seq(Unit) /\ b \in Seq(Unit) /\ Len(a) = n /\ Len(b) = Len(s) - n /\ a \o b = s
  BY <1>3, Cut
<1> HIDE DEF a, b
<1>5. q \in Seq(Unit) /\ Len(q) = Len(r) + n
  BY <1>4, ConcatProperties
<1>6. Len(r) >= 1 => q[1] = r[1]
  <2> SUFFICES ASSUME Len(r) >= 1 PROVE q[1] = r[1]
    OBVIOUS
  <2>1. 1 \in 1 .. Len(r) + Len(a) /\ 1 <= Len(r)
    BY <1>1, <1>3, <1>4
  <2> QED
    BY <1>4, <2>1, ConcatProperties
<1>7. q \o b = r \o s
  <2>1. Associates(r, a, b)
    BY <1>4, JoinThree
  <2> QED
    BY <1>4, <2>1 DEF Associates
<1> HIDE DEF q
<1>8. Len(q) >= 2 => Missing(q) = MsgSize(q[1][1]) - Len(q)
  BY <1>1, <1>3, <1>5 DEF Missing
<1>9. Len(q) <= 3 /\ (Len(q) = 3 => Len(r) = 2)
  <2>1. PICK k \in Nat, l \in Nat : k = Len(r) /\ l = n
    BY <1>1, <1>3
  <2>2. k <= 2
    BY <2>1 DEF Partial
  <2>3. l <= (IF k < 2 THEN 2 - k ELSE 1) /\ Len(q) = k + l
    BY <1>2, <1>3, <1>5, <2>1
  <2>4. k + l <= 3 /\ (k + l = 3 => k = 2)
    BY <2>2, <2>3
  <2> QED
    BY <2>1, <2>3, <2>4
<1>10. Complete(q) => Len(q) >= 2 /\ Len(q) = MsgSize(q[1][1])
  BY <1>0, <1>1, <1>3, <1>5, <1>8 DEF Complete
<1>11. ASSUME ~ Complete(q) PROVE Partial(q)
  <2>1. CASE Len(q) < 2
    BY <1>1, <1>3, <1>5, <2>1 DEF Partial
  <2>2. CASE Len(q) = 2
    BY <1>0, <1>8, <1>11, <2>2 DEF Partial, Complete
  <2>3. CASE Len(q) = 3
    <3>1. Len(r) = 2 /\ MsgSize(q[1][1]) = 3
      <4>1. Len(r) = 2 /\ Len(r) >= 1
        BY <1>9, <2>3
      <4>2. q[1] = r[1]
        BY <1>6, <4>1
      <4> QED
        BY <4>1, <4>2 DEF Partial
    <3> QED
      BY <1>8, <1>11, <2>3, <3>1 DEF Complete
  <2> QED
    BY <1>1, <1>3, <1>5, <1>9, <2>1, <2>2, <2>3
<1>12. Len(b) <= Len(s)
  BY <1>1, <1>3, <1>4
<1>13. NowRead(r, s) = q /\ Behind(r, s) = b
  BY DEF NowRead, Behind, q, a, b, n
<1> QED
  BY <1>4, <1>5, <1>7, <1>10, <1>11, <1>12, <1>13

\* A buffer that is full is the first message of the stream.
LEMMA FirstMessage ==
  ASSUME NEW q \in Seq(Unit), NEW b \in Seq(Unit), NEW w \in Seq(Seq(Unit)),
         NEW c \in Seq(Msgs), Len(q) >= 2, Len(q) = MsgSize(q[1][1]),
         Holds(q, b, w, c)
  PROVE  /\ c # <<>> /\ q[1][1] = Head(c)
         /\ Holds(<<>>, b, w, Tail(c))
<1>1. PICK z \in Seq(Unit) : z = FlattenSeq(w)
  BY FlatAppend, EmptySeq
<1>2. Associates(q, b, z)
  BY JoinThree
<1>3. q \o (b \o z) = Stream(c)
  <2>1. (q \o b) \o z = Stream(c)
    BY <1>1 DEF Holds
  <2> QED
    BY <1>2, <2>1 DEF Associates
<1>4. PICK y \in Seq(Unit) : y = b \o z
  BY ConcatProperties
<1>5. Len(q) \in Nat /\ Len(y) \in Nat
  BY LenProperties
<1>6. Len(q \o y) = Len(q) + Len(y) /\ (q \o y)[1] = q[1]
  <2>1. Len(q \o y) = Len(q) + Len(y)
    BY ConcatProperties
  <2>2. Len(q) >= 1
    BY <1>5
  <2>3. (q \o y)[1] = q[1]
    BY <2>2, FirstStays
  <2> QED
    BY <2>1, <2>3
<1>7. c # <<>>
  <2>1. Len(q \o y) # 0
    BY <1>5, <1>6
  <2> QED
    BY <1>3, <1>4, <2>1, StreamEmpty, EmptySeq
<1>8. /\ Head(c) \in Msgs /\ Stream(Tail(c)) \in Seq(Unit)
      /\ Stream(c) = Units(Head(c)) \o Stream(Tail(c))
  BY <1>7, StreamFirst
<1>9. PICK m \in Msgs : m = Head(c)
  BY <1>8
<1>10. PICK v \in Seq(Unit) : v = Stream(Tail(c))
  BY <1>8
<1>11. PICK u \in Seq(Unit) : u = Units(m) /\ Len(u) = MsgSize(m) /\ u[1] = <<m, 1>> /\ Len(u) \in {2, 3}
  BY UnitsOf
<1>12. q \o y = u \o v
  BY <1>3, <1>4, <1>8, <1>9, <1>10, <1>11
<1>13. (u \o v)[1] = u[1]
  <2>1. Len(u) >= 1
    BY <1>11
  <2> QED
    BY <2>1, FirstStays
<1>14. q[1] = <<m, 1>> /\ q[1][1] = m
  <2>1. q[1] = <<m, 1>>
    <3>1. q[1] = (u \o v)[1]
      BY <1>6, <1>12
    <3> QED
      BY <1>11, <1>13, <3>1
  <2>2. <<m, 1>>[1] = m
    OBVIOUS
  <2> QED
    BY <2>1, <2>2
<1>15. y = v
  <2>1. Len(q) = Len(u)
    BY <1>11, <1>14
  <2> QED
    BY <1>12, <2>1, SameBeginning
<1>16. <<>> \o b = b
  BY ConcatEmptySeq
<1> QED
  BY <1>1, <1>4, <1>7, <1>9, <1>10, <1>14, <1>15, <1>16 DEF Holds

\* sc_write() of the first n units of the first buffer.
LEMMA WriteKeeps ==
  ASSUME NEW r \in Seq(Unit), NEW s \in Seq(Unit), NEW w \in Seq(Seq(Unit)), w # <<>>,
         NEW c, Holds(r, s, w, c), NEW n \in 0 .. Len(Head(w))
  PROVE  LET left == SubSeq(Head(w), n + 1, Len(Head(w)))
             t == (IF left = <<>> THEN <<>> ELSE <<left>>) \o Tail(w)
             q == s \o SubSeq(Head(w), 1, n)
         IN  /\ t \in Seq(Seq(Unit)) /\ Len(t) <= Len(w)
             /\ q \in Seq(Unit) /\ Len(q) = Len(s) + n
             /\ Holds(r, q, t, c)
<1>1. /\ Head(w) \in Seq(Unit) /\ Tail(w) \in Seq(Seq(Unit)) /\ Len(Tail(w)) = Len(w) - 1
      /\ w = <<Head(w)>> \o Tail(w)
  BY HeadTailProperties
<1>2. PICK h \in Seq(Unit) : h = Head(w)
  BY <1>1
<1>3. PICK e \in Seq(Seq(Unit)) : e = Tail(w)
  BY <1>1
<1>4. PICK a \in Seq(Unit) : a = SubSeq(h, 1, n) /\ Len(a) = n
  <2>1. n \in 0 .. Len(h)
    BY <1>2
  <2>2. SubSeq(h, 1, n) \in Seq(Unit) /\ Len(SubSeq(h, 1, n)) = n
    BY <2>1, Cut
  <2> QED
    BY <2>2
<1>5. PICK b \in Seq(Unit) : b = SubSeq(h, n + 1, Len(h))
  <2>1. n \in 0 .. Len(h)
    BY <1>2
  <2>2. SubSeq(h, n + 1, Len(h)) \in Seq(Unit)
    BY <2>1, Cut
  <2> QED
    BY <2>2
<1>6. a \o b = h
  <2>1. n \in 0 .. Len(h)
    BY <1>2
  <2>2. SubSeq(h, 1, n) \o SubSeq(h, n + 1, Len(h)) = h
    BY <2>1, Cut
  <2> QED
    BY <1>4, <1>5, <2>2
<1>7. PICK z \in Seq(Unit) : z = FlattenSeq(e)
  BY FlatAppend, EmptySeq
<1>8. FlattenSeq(w) = h \o z
  <2>1. <<h>> \in Seq(Seq(Unit))
    OBVIOUS
  <2>2. FlattenSeq(<<h>> \o e) = FlattenSeq(<<h>>) \o FlattenSeq(e)
    BY <2>1, FlatConcat
  <2> QED
    BY <1>1, <1>2, <1>3, <1>7, <2>2, FlatOne
<1>9. PICK t : t = (IF b = <<>> THEN <<>> ELSE <<b>>) \o e
  OBVIOUS
<1>10. FlattenSeq(t) = b \o z /\ t \in Seq(Seq(Unit)) /\ Len(t) <= Len(w)
  <2>1. Len(e) = Len(w) - 1 /\ Len(e) \in Nat /\ Len(w) \in Nat
    BY <1>1, <1>3, LenProperties
  <2>2. CASE b = <<>>
    <3>1. t = e
      BY <1>9, <2>2, ConcatEmptySeq
    <3> QED
      BY <1>7, <2>1, <2>2, <3>1, ConcatEmptySeq
  <2>3. CASE b # <<>>
    <3>1. t = <<b>> \o e
      BY <1>9, <2>3
    <3>2. <<b>> \in Seq(Seq(Unit)) /\ Len(<<b>>) = 1
      OBVIOUS
    <3>3. FlattenSeq(<<b>> \o e) = FlattenSeq(<<b>>) \o FlattenSeq(e)
      BY <3>2, FlatConcat
    <3>4. <<b>> \o e \in Seq(Seq(Unit)) /\ Len(<<b>> \o e) = 1 + Len(e)
      BY <3>2, ConcatProperties
    <3>5. FlattenSeq(<<b>>) = b
      BY FlatOne
    <3>6. FlattenSeq(t) = b \o z
      BY <1>7, <3>1, <3>3, <3>5
    <3>7. Len(t) <= Len(w) /\ t \in Seq(Seq(Unit))
      BY <2>1, <3>1, <3>4
    <3> QED
      BY <3>6, <3>7
  <2> QED
    BY <2>2, <2>3
<1>11. PICK q \in Seq(Unit) : q = s \o a /\ Len(q) = Len(s) + n
  <2>1. s \o a \in Seq(Unit) /\ Len(s \o a) = Len(s) + Len(a)
    BY ConcatProperties
  <2> QED
    BY <1>4, <2>1
<1>12. (r \o q) \o (b \o z) = (r \o s) \o (h \o z)
  <2>1. Associates(r, s, a)
    BY JoinThree
  <2>2. PICK x \in Seq(Unit) : x = r \o s
    BY ConcatProperties
  <2>3. r \o q = x \o a
    BY <1>11, <2>1, <2>2 DEF Associates
  <2>4. PICK y \in Seq(Unit) : y = b \o z
    BY ConcatProperties
  <2>5. Associates(x, a, y) /\ Associates(a, b, z)
    BY JoinThree
  <2>6. (x \o a) \o y = x \o (a \o y) /\ a \o y = h \o z
    BY <1>6, <2>4, <2>5 DEF Associates
  <2> QED
    BY <2>2, <2>3, <2>4, <2>6
<1>13. Holds(r, q, t, c)
  BY <1>8, <1>10, <1>12 DEF Holds
<1> QED
  BY <1>2, <1>3, <1>4, <1>5, <1>9, <1>10, <1>11, <1>13

\* Messages that are queued behind the stream.
LEMMA QueueKeeps ==
  ASSUME NEW r \in Seq(Unit), NEW s \in Seq(Unit), NEW w \in Seq(Seq(Unit)),
         NEW c \in Seq(Msgs), Holds(r, s, w, c), NEW d \in Seq(Msgs)
  PROVE  Holds(r, s, w \o Framed(d), c \o d)
<1>1. PICK x \in Seq(Unit) : x = r \o s
  BY ConcatProperties
<1>2. PICK y \in Seq(Unit) : y = FlattenSeq(w)
  BY FlatAppend, EmptySeq
<1>3. PICK z \in Seq(Unit) : z = Stream(d)
  BY StreamConcat
<1>4. FlattenSeq(w \o Framed(d)) = y \o z
  <2>1. Framed(d) \in Seq(Seq(Unit))
    BY FramedConcat
  <2>2. FlattenSeq(w \o Framed(d)) = FlattenSeq(w) \o FlattenSeq(Framed(d))
    BY <2>1, FlatConcat
  <2> QED
    BY <1>2, <1>3, <2>2 DEF Stream
<1>5. Stream(c \o d) = Stream(c) \o z
  BY <1>3, StreamConcat
<1>6. Associates(x, y, z)
  BY JoinThree
<1> QED
  BY <1>1, <1>2, <1>4, <1>5, <1>6 DEF Holds, Associates

-----------------------------------------------------------------------------
(***************************************************************************)
(* The inductive invariant.                                                *)
(***************************************************************************)

Ends == {"srv", "gip"}
Across(f) == IF f = "srv" THEN "gip" ELSE "srv"

\* What comes in at an end.
Kind(f) == IF f = "srv" THEN Commands ELSE Answers
Member(i, S) == IF i \in S THEN 1 ELSE 0

Whole == DOMAIN in = Fds /\ DOMAIN rd = Fds /\ DOMAIN wr_bufs = Fds /\ DOMAIN coming = Fds
Buffers(f) ==
  /\ in[f] \in Seq(Unit) /\ Len(in[f]) <= CHANNEL_BUFFER_SIZE
  /\ rd[f] \in Seq(Unit) /\ Partial(rd[f])
  /\ wr_bufs[f] \in Seq(Seq(Unit)) /\ Len(wr_bufs[f]) <= MAINLOOP_MAX_WR_BUFS
Streams(f) ==
  /\ coming[f] \in Seq(Kind(f))
  /\ Holds(rd[f], in[f], wr_bufs[Across(f)], coming[f])
Exact(i) == Count(coming["srv"], i) + Count(coming["gip"], i) + Member(i, dropped) = Member(i, requests)

GInv ==
  /\ Whole
  /\ \A f \in Ends : Buffers(f) /\ Streams(f)
  /\ wr_bufs["kbd"] = <<>>
  /\ next_req_id \in Nat \ {0} /\ requests \subseteq 1 .. next_req_id - 1
  /\ \A i \in Nat \ {0} : Exact(i)

\* The messages for which wr_bufs[] has room.
Fitting(w, d) ==
  LET room == MAINLOOP_MAX_WR_BUFS - Len(w) IN
  IF Len(d) <= room THEN d ELSE SubSeq(d, 1, room)

LEMMA EndsAre ==
  ASSUME NEW f \in Ends
  PROVE  /\ Peer[f] = Across(f) /\ Across(f) \in Ends /\ Across(Across(f)) = f /\ Across(f) # f
         /\ f \in Fds /\ Across(f) \in Fds /\ f # "kbd"
         /\ \A g \in Ends : g = f \/ g = Across(f)
<1>1. Peer["srv"] = "gip" /\ Peer["gip"] = "srv"
  BY DEF Peer
<1> QED
  BY <1>1 DEF Ends, Across, Fds

\* What fits is a beginning of what is sent.
LEMMA FittingIs ==
  ASSUME MAINLOOP_MAX_WR_BUFS \in Nat,
         NEW w \in Seq(Seq(Unit)), Len(w) <= MAINLOOP_MAX_WR_BUFS,
         NEW T, NEW d \in Seq(T)
  PROVE  /\ Fitting(w, d) \in Seq(T) /\ Len(Fitting(w, d)) <= Len(d)
         /\ Len(w) + Len(Fitting(w, d)) <= MAINLOOP_MAX_WR_BUFS
         /\ \A k \in 1 .. Len(Fitting(w, d)) : Fitting(w, d)[k] = d[k]
<1> DEFINE n == MAINLOOP_MAX_WR_BUFS - Len(w)
<1>1. n \in Nat /\ Len(d) \in Nat /\ Len(w) \in Nat /\ Len(w) + n = MAINLOOP_MAX_WR_BUFS
  BY LenProperties
<1>2. Fitting(w, d) = IF Len(d) <= n THEN d ELSE SubSeq(d, 1, n)
  BY DEF Fitting
<1> HIDE DEF n
<1>3. CASE Len(d) <= n
  <2>1. Len(w) + Len(d) <= MAINLOOP_MAX_WR_BUFS
    BY <1>1, <1>3
  <2> QED
    BY <1>1, <1>2, <1>3, <2>1
<1>4. CASE ~ (Len(d) <= n)
  <2>1. n \in 0 .. Len(d)
    BY <1>1, <1>4
  <2>2. SubSeq(d, 1, n) \in Seq(T) /\ Len(SubSeq(d, 1, n)) = n
    BY <2>1, Cut
  <2>3. \A k \in 1 .. n : SubSeq(d, 1, n)[k] = d[k]
    <3>1. 1 \in Int /\ n \in Int /\ \A i \in 1 .. n : d[i] \in T
      <4>1. \A i \in 1 .. n : i \in 1 .. Len(d)
        BY <1>1, <2>1
      <4> QED
        BY <1>1, <4>1, ElementOfSeq
    <3>2. \A i \in 1 .. n - 1 + 1 : SubSeq(d, 1, n)[i] = d[1 + i - 1]
      BY <3>1, SubSeqProperties
    <3>3. n - 1 + 1 = n /\ \A i \in 1 .. n : 1 + i - 1 = i
      BY <1>1
    <3> QED
      BY <3>2, <3>3
  <2>4. Fitting(w, d) = SubSeq(d, 1, n)
    BY <1>2, <1>4
  <2> QED
    BY <1>1, <2>1, <2>2, <2>3, <2>4
<1> QED
  BY <1>3, <1>4

\* gip_send_msg() puts what fits behind the stream.
LEMMA SendKeeps ==
  ASSUME MAINLOOP_MAX_WR_BUFS \in Nat,
         NEW r \in Seq(Unit), NEW s \in Seq(Unit),
         NEW w \in Seq(Seq(Unit)), Len(w) <= MAINLOOP_MAX_WR_BUFS,
         NEW c \in Seq(Msgs), Holds(r, s, w, c), NEW d \in Seq(Msgs)
  PROVE  /\ w \o Framed(Fitting(w, d)) \in Seq(Seq(Unit))
         /\ Len(w \o Framed(Fitting(w, d))) <= MAINLOOP_MAX_WR_BUFS
         /\ Holds(r, s, w \o Framed(Fitting(w, d)), c \o Fitting(w, d))
<1>1. PICK e \in Seq(Msgs) : e = Fitting(w, d) /\ Len(w) + Len(e) <= MAINLOOP_MAX_WR_BUFS
  BY FittingIs
<1>2. PICK x \in Seq(Seq(Unit)) : x = Framed(e) /\ Len(x) = Len(e)
  BY FramedConcat
<1>3. w \o x \in Seq(Seq(Unit)) /\ Len(w \o x) = Len(w) + Len(x)
  BY ConcatProperties
<1>4. Holds(r, s, w \o Framed(e), c \o e)
  BY QueueKeeps
<1> QED
  BY <1>1, <1>2, <1>3, <1>4

\* What is sent counts as far as it fits.
LEMMA SendCounts ==
  ASSUME MAINLOOP_MAX_WR_BUFS \in Nat,
         NEW w \in Seq(Seq(Unit)), Len(w) <= MAINLOOP_MAX_WR_BUFS,
         NEW c \in Seq(Msgs), NEW d \in Seq(Msgs), Len(d) <= 2, NEW i
  PROVE  LET n == Len(Fitting(w, d)) IN
         Count(c \o Fitting(w, d), i) =
           Count(c, i) + (IF n >= 1 THEN One(d[1], i) ELSE 0) + (IF n = 2 THEN One(d[2], i) ELSE 0)
<1>1. PICK e \in Seq(Msgs) : /\ e = Fitting(w, d) /\ Len(e) <= Len(d)
                             /\ \A k \in 1 .. Len(e) : e[k] = d[k]
  BY FittingIs
<1>2. Len(e) \in Nat /\ Len(d) \in Nat
  BY LenProperties
<1>3. Len(e) <= 2
  BY <1>1, <1>2
<1>4. Count(c \o e, i) = Count(c, i) + (IF Len(e) >= 1 THEN One(e[1], i) ELSE 0)
                                     + (IF Len(e) = 2 THEN One(e[2], i) ELSE 0)
  BY <1>3, CountSent
<1>5. (Len(e) >= 1 => e[1] = d[1]) /\ (Len(e) = 2 => e[2] = d[2])
  BY <1>1, <1>2
<1> QED
  BY <1>1, <1>4, <1>5

LEMMA KindsAre ==
  ASSUME NEW f \in Ends, NEW c \in Seq(Kind(f))
  PROVE  c \in Seq(Msgs)
<1>1. Kind(f) \subseteq Msgs
  BY DEF Kind, Msgs
<1>2. \A k \in 1 .. Len(c) : c[k] \in Msgs
  BY <1>1, ElementOfSeq
<1>3. Len(c) \in Nat /\ DOMAIN c = 1 .. Len(c) /\ c = [k \in 1 .. Len(c) |-> c[k]]
  OBVIOUS
<1> QED
  BY <1>2, <1>3

\* sc_read() at an end.
LEMMA Reads ==
  ASSUME CHANNEL_BUFFER_SIZE \in Nat, GInv, NEW f \in Ends
  PROVE  LET left == Behind(rd[f], in[f]) IN
         /\ left \in Seq(Unit) /\ Len(left) <= CHANNEL_BUFFER_SIZE
         /\ ~ Complete(Reading(f)) =>
              /\ Reading(f) \in Seq(Unit) /\ Partial(Reading(f))
              /\ Holds(Reading(f), left, wr_bufs[Across(f)], coming[f])
         /\ Complete(Reading(f)) =>
              /\ coming[f] # <<>> /\ Message(f) = Head(coming[f])
              /\ Head(coming[f]) \in Kind(f) /\ Tail(coming[f]) \in Seq(Kind(f))
              /\ Holds(<<>>, left, wr_bufs[Across(f)], Tail(coming[f]))
<1>1. PICK r \in Seq(Unit), s \in Seq(Unit), w \in Seq(Seq(Unit)), c \in Seq(Kind(f)) :
        /\ r = rd[f] /\ s = in[f] /\ w = wr_bufs[Across(f)] /\ c = coming[f]
        /\ Partial(r) /\ Len(s) <= CHANNEL_BUFFER_SIZE /\ Holds(r, s, w, c)
  <2>1. Buffers(f) /\ Streams(f) /\ Buffers(Across(f))
    BY EndsAre DEF GInv
  <2> QED
    BY <2>1 DEF Buffers, Streams
<1>2. c \in Seq(Msgs)
  BY KindsAre
<1>3. PICK q \in Seq(Unit), b \in Seq(Unit) :
        /\ q = NowRead(r, s) /\ b = Behind(r, s) /\ Len(b) <= Len(s) /\ q \o b = r \o s
        /\ ~ Complete(q) => Partial(q)
        /\ Complete(q) => Len(q) >= 2 /\ Len(q) = MsgSize(q[1][1])
  <2>1. /\ NowRead(r, s) \in Seq(Unit) /\ Behind(r, s) \in Seq(Unit)
        /\ Len(Behind(r, s)) <= Len(s) /\ NowRead(r, s) \o Behind(r, s) = r \o s
        /\ ~ Complete(NowRead(r, s)) => Partial(NowRead(r, s))
        /\ Complete(NowRead(r, s)) =>
             Len(NowRead(r, s)) >= 2 /\ Len(NowRead(r, s)) = MsgSize(NowRead(r, s)[1][1])
    BY <1>1, ReadTaken
  <2> QED
    BY <2>1
<1>4. Holds(q, b, w, c)
  BY <1>1, <1>3 DEF Holds
<1>5. Reading(f) = q
  BY <1>1, <1>3 DEF Reading, NowRead, Taking
<1>6. Message(f) = q[1][1]
  BY <1>5 DEF Message
<1>7. Len(b) \in Nat /\ Len(s) \in Nat
  BY LenProperties
<1>8. Len(b) <= Len(s) /\ b \in Seq(Unit)
  BY <1>3
<1>9. ASSUME Complete(q)
      PROVE  /\ c # <<>> /\ q[1][1] = Head(c) /\ Head(c) \in Kind(f) /\ Tail(c) \in Seq(Kind(f))
             /\ Holds(<<>>, b, w, Tail(c))
  <2>1. Len(q) >= 2 /\ Len(q) = MsgSize(q[1][1])
    BY <1>3, <1>9
  <2>2. c # <<>> /\ q[1][1] = Head(c) /\ Holds(<<>>, b, w, Tail(c))
    BY <1>2, <1>4, <2>1, FirstMessage
  <2> QED
    BY <2>2, HeadTailProperties
<1>10. ~ Complete(q) => Partial(q) /\ Holds(q, b, w, c)
  BY <1>3, <1>4
<1>11. Behind(rd[f], in[f]) = b /\ Len(s) <= CHANNEL_BUFFER_SIZE
  BY <1>1, <1>3
<1>12. Len(b) <= CHANNEL_BUFFER_SIZE
  BY <1>7, <1>8, <1>11
<1>13. CASE Complete(q)
  <2>1. /\ coming[f] # <<>> /\ Message(f) = Head(coming[f])
        /\ Head(coming[f]) \in Kind(f) /\ Tail(coming[f]) \in Seq(Kind(f))
        /\ Holds(<<>>, Behind(rd[f], in[f]), wr_bufs[Across(f)], Tail(coming[f]))
    BY <1>1, <1>6, <1>9, <1>11, <1>13
  <2> QED
    BY <1>5, <1>8, <1>11, <1>12, <1>13, <2>1
<1>14. CASE ~ Complete(q)
  <2>1. /\ Reading(f) \in Seq(Unit) /\ Partial(Reading(f))
        /\ Holds(Reading(f), Behind(rd[f], in[f]), wr_bufs[Across(f)], coming[f])
    BY <1>1, <1>5, <1>10, <1>11, <1>14
  <2> QED
    BY <1>5, <1>8, <1>11, <1>12, <1>14, <2>1
<1> QED
  BY <1>13, <1>14

\* What gip_send_msg() at an end does to the buffers and to the other's stream.
SentWell(f, g, d) ==
  LET acc == Accepted(f, d)  n == Len(acc) IN
  /\ acc \in Seq(Kind(g)) /\ n <= Len(d)
  /\ wr_bufs[f] \o Framed(acc) \in Seq(Seq(Unit))
  /\ Len(wr_bufs[f] \o Framed(acc)) <= MAINLOOP_MAX_WR_BUFS
  /\ coming[g] \o acc \in Seq(Kind(g))
  /\ Holds(rd[g], in[g], wr_bufs[f] \o Framed(acc), coming[g] \o acc)
  /\ \A i : Count(coming[g] \o acc, i) =
       Count(coming[g], i) + (IF n >= 1 THEN One(d[1], i) ELSE 0) + (IF n = 2 THEN One(d[2], i) ELSE 0)

LEMMA Sends ==
  ASSUME MAINLOOP_MAX_WR_BUFS \in Nat, GInv,
         NEW f \in Ends, NEW g \in Ends, g = Across(f), NEW d \in Seq(Kind(g)), Len(d) <= 2
  PROVE  SentWell(f, g, d)
<1>1. PICK r \in Seq(Unit), s \in Seq(Unit), w \in Seq(Seq(Unit)), c \in Seq(Kind(g)) :
        /\ r = rd[g] /\ s = in[g] /\ w = wr_bufs[f] /\ c = coming[g]
        /\ Len(w) <= MAINLOOP_MAX_WR_BUFS /\ Holds(r, s, w, c)
  <2>1. Buffers(g) /\ Streams(g) /\ Buffers(f) /\ Across(g) = f
    BY EndsAre DEF GInv
  <2> QED
    BY <2>1 DEF Buffers, Streams
<1>2. c \in Seq(Msgs) /\ d \in Seq(Msgs)
  BY KindsAre
<1>3. PICK e : e = Fitting(w, d)
  OBVIOUS
<1>4. Accepted(f, d) = e
  BY <1>1, <1>3 DEF Accepted, Fitting
<1>5. /\ w \o Framed(e) \in Seq(Seq(Unit)) /\ Len(w \o Framed(e)) <= MAINLOOP_MAX_WR_BUFS
      /\ Holds(r, s, w \o Framed(e), c \o e)
  BY <1>1, <1>2, <1>3, SendKeeps
<1>6. e \in Seq(Kind(g)) /\ Len(e) <= Len(d)
  BY <1>1, <1>3, FittingIs
<1>7. c \o e \in Seq(Kind(g))
  BY <1>6, ConcatProperties
<1>8. ASSUME NEW i
      PROVE  Count(c \o e, i) = Count(c, i) + (IF Len(e) >= 1 THEN One(d[1], i) ELSE 0)
                                            + (IF Len(e) = 2 THEN One(d[2], i) ELSE 0)
  BY <1>1, <1>2, <1>3, SendCounts
<1>9. wr_bufs[f] \o Framed(Accepted(f, d)) = w \o Framed(e) /\ coming[g] \o Accepted(f, d) = c \o e
  BY <1>1, <1>4
<1>10. Holds(rd[g], in[g], wr_bufs[f] \o Framed(Accepted(f, d)), coming[g] \o Accepted(f, d))
  BY <1>1, <1>5, <1>9
<1>11. \A i : Count(coming[g] \o Accepted(f, d), i) =
         Count(coming[g], i) + (IF Len(Accepted(f, d)) >= 1 THEN One(d[1], i) ELSE 0)
                             + (IF Len(Accepted(f, d)) = 2 THEN One(d[2], i) ELSE 0)
  BY <1>1, <1>4, <1>8
<1> QED
  BY <1>4, <1>5, <1>6, <1>7, <1>9, <1>10, <1>11 DEF SentWell

-----------------------------------------------------------------------------
(* One lemma per action. *)

LEMMA GInitially ==
  ASSUME GipConstants, Init
  PROVE  GInv
<1>0. CHANNEL_BUFFER_SIZE \in Nat /\ MAINLOOP_MAX_WR_BUFS \in Nat
  BY DEF GipConstants
<1>1. /\ in = [f \in Fds |-> <<>>] /\ rd = [f \in Fds |-> <<>>]
      /\ wr_bufs = [f \in Fds |-> <<>>] /\ coming = [f \in Fds |-> <<>>]
      /\ requests = {} /\ next_req_id = 1 /\ dropped = {}
  BY DEF Init
<1>2. Whole
  BY <1>1 DEF Whole
<1>3. Partial(<<>>) /\ Len(<<>>) = 0
  BY DEF Partial
<1>4. Holds(<<>>, <<>>, <<>>, <<>>)
  <2>1. (<<>> \o <<>>) \o <<>> = <<>>
    OBVIOUS
  <2>2. FlattenSeq(<<>>) = <<>>
    BY DEF FlattenSeq
  <2> QED
    BY <2>1, <2>2, StreamEmpty DEF Holds
<1>5. ASSUME NEW f \in Ends PROVE Buffers(f) /\ Streams(f)
  <2>1. /\ in[f] = <<>> /\ rd[f] = <<>> /\ wr_bufs[f] = <<>> /\ coming[f] = <<>>
        /\ wr_bufs[Across(f)] = <<>>
    BY <1>1, EndsAre
  <2>2. Buffers(f)
    BY <1>0, <1>3, <2>1 DEF Buffers
  <2> QED
    BY <1>4, <2>1, <2>2 DEF Streams
<1>6. wr_bufs["kbd"] = <<>>
  BY <1>1 DEF Fds
<1>7. ASSUME NEW i \in Nat \ {0} PROVE Exact(i)
  <2>1. coming["srv"] = <<>> /\ coming["gip"] = <<>>
    BY <1>1 DEF Fds
  <2>2. {k \in DOMAIN <<>> : <<>>[k].id = i} = {}
    OBVIOUS
  <2>3. Count(<<>>, i) = 0
    BY <2>2, FS_EmptySet DEF Count
  <2> QED
    BY <1>1, <2>1, <2>3 DEF Exact, Member
<1> QED
  BY <1>1, <1>2, <1>5, <1>6, <1>7 DEF GInv

LEMMA ReadPartStep ==
  ASSUME GipConstants, GInv, NEW p, NEW f \in Fds, ReadPart(p, f)
  PROVE  GInv'
<1>0. CHANNEL_BUFFER_SIZE \in Nat
  BY DEF GipConstants
<1>1. f \in Ends
  BY DEF ReadPart, Fds, Ends
<1>2. /\ in' = [in EXCEPT ![f] = Behind(rd[f], in[f])]
      /\ rd' = [rd EXCEPT ![f] = Reading(f)] /\ ~ Complete(Reading(f))
      /\ UNCHANGED <<wr_bufs, requests, next_req_id, coming, dropped>>
  BY DEF ReadPart, Taken, Behind, Taking
<1>3. PICK g \in Ends : g = Across(f) /\ f = Across(g) /\ g # f /\ g \in Fds
  BY <1>1, EndsAre
<1>4. Whole /\ Buffers(f) /\ Streams(f) /\ Buffers(g) /\ Streams(g)
  BY <1>1 DEF GInv
<1>5. /\ in'[f] = Behind(rd[f], in[f]) /\ rd'[f] = Reading(f)
      /\ wr_bufs'[f] = wr_bufs[f] /\ coming'[f] = coming[f]
      /\ in'[g] = in[g] /\ rd'[g] = rd[g] /\ wr_bufs'[g] = wr_bufs[g] /\ coming'[g] = coming[g]
  BY <1>2, <1>3, <1>4 DEF Whole
<1>6. Whole'
  BY <1>2, <1>4 DEF Whole
<1>7. /\ in'[f] \in Seq(Unit) /\ Len(in'[f]) <= CHANNEL_BUFFER_SIZE
      /\ rd'[f] \in Seq(Unit) /\ Partial(rd'[f])
      /\ Holds(rd'[f], in'[f], wr_bufs'[g], coming'[f])
  BY <1>0, <1>1, <1>2, <1>3, <1>5, Reads
<1>8. Buffers(f)' /\ Streams(f)'
  BY <1>3, <1>4, <1>5, <1>7 DEF Buffers, Streams
<1>9. Buffers(g)' /\ Streams(g)'
  BY <1>3, <1>4, <1>5 DEF Buffers, Streams
<1>10. \A h \in Ends : Buffers(h)' /\ Streams(h)'
  BY <1>1, <1>3, <1>8, <1>9, EndsAre
<1>11. \A i \in Nat \ {0} : Exact(i)'
  BY <1>2 DEF GInv, Exact
<1> QED
  BY <1>2, <1>6, <1>10, <1>11 DEF GInv

LEMMA WriteStep ==
  ASSUME GipConstants, GInv, NEW p, NEW f \in Fds, Write(p, f)
  PROVE  GInv'
<1>0. CHANNEL_BUFFER_SIZE \in Nat
  BY DEF GipConstants
<1>1. f \in Ends
  BY DEF Write, Fds, Ends, GInv
<1>2. PICK g \in Ends : g = Across(f) /\ f = Across(g) /\ g # f /\ g \in Fds /\ Peer[f] = g
  BY <1>1, EndsAre
<1>3. PICK r \in Seq(Unit), s \in Seq(Unit), w \in Seq(Seq(Unit)), c \in Seq(Kind(g)) :
        /\ r = rd[g] /\ s = in[g] /\ w = wr_bufs[f] /\ c = coming[g] /\ w # <<>>
        /\ Len(w) <= MAINLOOP_MAX_WR_BUFS /\ Len(s) <= CHANNEL_BUFFER_SIZE /\ Holds(r, s, w, c)
  <2>1. Buffers(g) /\ Streams(g) /\ Buffers(f)
    BY <1>1, <1>2 DEF GInv
  <2>2. wr_bufs[f] # <<>>
    BY DEF Write
  <2> QED
    BY <1>2, <2>1, <2>2 DEF Buffers, Streams
<1>4. PICK h \in Seq(Unit) : h = Head(w)
  BY <1>3, HeadTailProperties
<1>5. PICK n : n = Least(Len(h), CHANNEL_BUFFER_SIZE - Len(s))
  OBVIOUS
<1>6. n \in 0 .. Len(h) /\ Len(s) + n <= CHANNEL_BUFFER_SIZE
  <2>1. Len(h) \in Nat /\ Len(s) \in Nat
    BY LenProperties
  <2> QED
    <3>1. PICK a \in Nat, b \in Nat, k \in Nat :
             a = Len(h) /\ b = Len(s) /\ k = CHANNEL_BUFFER_SIZE
      BY <1>0, <2>1
    <3>2. b <= k /\ n = IF a < k - b THEN a ELSE k - b
      BY <1>3, <1>5, <3>1 DEF Least
    <3>3. n \in 0 .. a /\ b + n <= k
      BY <3>2
    <3> QED
      BY <3>1, <3>3
<1>7. PICK left : left = SubSeq(h, n + 1, Len(h))
  OBVIOUS
<1>8. PICK t, q : t = (IF left = <<>> THEN <<>> ELSE <<left>>) \o Tail(w) /\ q = s \o SubSeq(h, 1, n)
  OBVIOUS
<1>9. /\ t \in Seq(Seq(Unit)) /\ Len(t) <= Len(w)
      /\ q \in Seq(Unit) /\ Len(q) = Len(s) + n /\ Holds(r, q, t, c)
  <2>1. n \in 0 .. Len(Head(w)) /\ w # <<>> /\ Holds(r, s, w, c)
    BY <1>3, <1>4, <1>6
  <2> QED
    <3>1. LET lf == SubSeq(Head(w), n + 1, Len(Head(w)))
              tt == (IF lf = <<>> THEN <<>> ELSE <<lf>>) \o Tail(w)
              qq == s \o SubSeq(Head(w), 1, n)
          IN  /\ tt \in Seq(Seq(Unit)) /\ Len(tt) <= Len(w)
              /\ qq \in Seq(Unit) /\ Len(qq) = Len(s) + n
              /\ Holds(r, qq, tt, c)
      BY <2>1, WriteKeeps
    <3> QED
      BY <1>4, <1>7, <1>8, <3>1
<1>10. /\ in' = [in EXCEPT ![g] = q] /\ wr_bufs' = [wr_bufs EXCEPT ![f] = t]
       /\ UNCHANGED <<rd, requests, next_req_id, coming, dropped>>
  <2>1. Head(wr_bufs[f]) = h /\ wr_bufs[f] = w /\ in[g] = s
    BY <1>3, <1>4
  <2>2. Left(h, n) = left
    BY <1>7 DEF Left
  <2>3. /\ in' = [in EXCEPT ![g] = @ \o SubSeq(h, 1, n)]
        /\ wr_bufs' = [wr_bufs EXCEPT ![f] = (IF left = <<>> THEN <<>> ELSE <<left>>) \o Tail(@)]
        /\ UNCHANGED <<rd, requests, next_req_id, coming, dropped>>
    BY <1>2, <1>5, <2>1, <2>2 DEF Write
  <2> QED
    BY <1>8, <2>1, <2>3
<1>11. Whole
  BY DEF GInv
<1>12. /\ in'[g] = q /\ rd'[g] = r /\ wr_bufs'[f] = t /\ coming'[g] = c
       /\ in'[f] = in[f] /\ rd'[f] = rd[f] /\ wr_bufs'[g] = wr_bufs[g] /\ coming'[f] = coming[f]
  <2>1. f \in DOMAIN in /\ g \in DOMAIN in /\ f \in DOMAIN wr_bufs /\ g \in DOMAIN wr_bufs
    BY <1>2, <1>11 DEF Whole
  <2> QED
    BY <1>2, <1>3, <1>10, <2>1
<1>13. Whole'
  BY <1>10, <1>11 DEF Whole
<1>14. Buffers(f) /\ Streams(f) /\ Buffers(g) /\ Streams(g)
  BY <1>1 DEF GInv
<1>15. Len(t) <= MAINLOOP_MAX_WR_BUFS /\ Len(q) <= CHANNEL_BUFFER_SIZE
  <2>1. Len(t) \in Nat /\ Len(w) \in Nat
    BY <1>9, LenProperties
  <2>2. MAINLOOP_MAX_WR_BUFS \in Nat
    BY DEF GipConstants
  <2> QED
    BY <1>3, <1>6, <1>9, <2>1, <2>2
<1>16. Buffers(f)' /\ Buffers(g)'
  BY <1>9, <1>12, <1>14, <1>15, <1>3 DEF Buffers
<1>17. Streams(f)' /\ Streams(g)'
  BY <1>2, <1>3, <1>9, <1>12, <1>14 DEF Streams
<1>18. \A h1 \in Ends : Buffers(h1)' /\ Streams(h1)'
  BY <1>1, <1>2, <1>16, <1>17, EndsAre
<1>19. wr_bufs'["kbd"] = <<>>
  <2>1. f # "kbd"
    BY <1>1, EndsAre
  <2>2. wr_bufs["kbd"] = <<>>
    BY DEF GInv
  <2> QED
    BY <1>10, <2>1, <2>2
<1>20. \A i \in Nat \ {0} : Exact(i)'
  BY <1>10 DEF GInv, Exact
<1> QED
  BY <1>10, <1>13, <1>18, <1>19, <1>20 DEF GInv

\* Nothing moves, or only an event of the keyboard.
LEMMA IdleStep ==
  ASSUME GInv, UNCHANGED <<rd, wr_bufs, requests, next_req_id, coming, dropped>>,
         DOMAIN in' = DOMAIN in, \A f \in Ends : in'[f] = in[f]
  PROVE  GInv'
<1>1. Whole'
  BY DEF GInv, Whole
<1>2. \A f \in Ends : Buffers(f)' /\ Streams(f)'
  BY DEF GInv, Buffers, Streams
<1>3. \A i \in Nat \ {0} : Exact(i)'
  BY DEF GInv, Exact
<1> QED
  BY <1>1, <1>2, <1>3 DEF GInv

LEMMA KeyStep == ASSUME GInv, Key PROVE GInv'
<1>1. in' = [in EXCEPT !["kbd"] = Append(@, "event")]
      /\ UNCHANGED <<rd, wr_bufs, requests, next_req_id, coming, dropped>>
  BY DEF Key
<1>2. DOMAIN in' = DOMAIN in /\ \A f \in Ends : in'[f] = in[f]
  <2>1. Whole
    BY DEF GInv
  <2> QED
    BY <1>1, <2>1 DEF Whole, Ends, Fds
<1> QED
  BY <1>1, <1>2, IdleStep

LEMMA SkipStep == ASSUME GInv, NEW p, NEW f, Skip(p, f) PROVE GInv'
BY IdleStep DEF Skip

LEMMA ErrorStep == ASSUME GInv, NEW p, NEW f, Error(p, f) PROVE GInv'
BY IdleStep DEF Error

LEMMA ExitsStep == ASSUME GInv, NEW p, Exits(p) PROVE GInv'
BY IdleStep DEF Exits

LEMMA SelectStep == ASSUME GInv, NEW p, sc_select(p) PROVE GInv'
BY IdleStep DEF sc_select

\* kbd_handle_event() sends a message without a number.
LEMMA KeyHandleStep == ASSUME GipConstants, GInv, KeyHandle PROVE GInv'
<1>0. MAINLOOP_MAX_WR_BUFS \in Nat /\ "srv" \in Ends /\ "gip" \in Ends /\ Across("srv") = "gip"
      /\ Across("gip") = "srv"
  BY DEF GipConstants, Ends, Across
<1>1. PICK d : d = <<Msg("key_down", 0)>>
  OBVIOUS
<1>2. PICK m \in Kind("gip") : m = Msg("key_down", 0) /\ m.id = 0
  <2>1. Kind("gip") = Answers
    BY DEF Kind
  <2>2. PICK x : x = [code |-> "key_down", id |-> 0]
    OBVIOUS
  <2>3. x \in [code : {"initiate", "failure", "buffer_info", "key_down"}, id : Nat]
        /\ x.id = 0 /\ x.code = "key_down"
    BY <2>2
  <2>4. x \in Answers
    BY <2>3 DEF Answers
  <2>5. Msg("key_down", 0) = x
    BY <2>2 DEF Msg
  <2> QED
    BY <2>1, <2>3, <2>4, <2>5
<1>3. d \in Seq(Kind("gip")) /\ Len(d) = 1 /\ d[1].id = 0
  <2>1. d = <<m>>
    BY <1>1, <1>2
  <2>2. <<m>> \in Seq(Kind("gip")) /\ Len(<<m>>) = 1 /\ <<m>>[1] = m
    OBVIOUS
  <2> QED
    BY <1>2, <2>1, <2>2
<1>4. PICK acc : acc = Accepted("srv", d)
  OBVIOUS
<1>5. /\ in' = [in EXCEPT !["kbd"] = Tail(@)]
      /\ wr_bufs' = [wr_bufs EXCEPT !["srv"] = @ \o Framed(acc)]
      /\ coming' = [coming EXCEPT !["gip"] = @ \o acc]
      /\ UNCHANGED <<rd, requests, next_req_id, dropped>>
  BY <1>1, <1>4 DEF KeyHandle, Queued, Sent, Peer, Framed
<1>6. /\ acc \in Seq(Kind("gip")) /\ Len(acc) <= Len(d)
      /\ wr_bufs["srv"] \o Framed(acc) \in Seq(Seq(Unit))
      /\ Len(wr_bufs["srv"] \o Framed(acc)) <= MAINLOOP_MAX_WR_BUFS
      /\ coming["gip"] \o acc \in Seq(Kind("gip"))
      /\ Holds(rd["gip"], in["gip"], wr_bufs["srv"] \o Framed(acc), coming["gip"] \o acc)
      /\ \A i : Count(coming["gip"] \o acc, i) =
           Count(coming["gip"], i) + (IF Len(acc) >= 1 THEN One(d[1], i) ELSE 0)
                                   + (IF Len(acc) = 2 THEN One(d[2], i) ELSE 0)
  <2>1. Len(d) <= 2
    BY <1>3
  <2>2. PICK f \in Ends, g \in Ends : f = "srv" /\ g = "gip" /\ g = Across(f)
    BY <1>0
  <2>3. d \in Seq(Kind(g))
    BY <1>3, <2>2
  <2>4. SentWell(f, g, d)
    BY <1>0, <2>1, <2>2, <2>3, Sends
  <2>5. acc = Accepted(f, d)
    BY <1>4, <2>2
  <2> QED
    BY <2>2, <2>4, <2>5 DEF SentWell
<1>7. Whole
  BY DEF GInv
<1>8. /\ \A f \in Ends : in'[f] = in[f] /\ rd'[f] = rd[f]
      /\ wr_bufs'["srv"] = wr_bufs["srv"] \o Framed(acc) /\ wr_bufs'["gip"] = wr_bufs["gip"]
      /\ wr_bufs'["kbd"] = wr_bufs["kbd"]
      /\ coming'["gip"] = coming["gip"] \o acc /\ coming'["srv"] = coming["srv"]
  BY <1>5, <1>7 DEF Whole, Ends, Fds
<1>9. Whole'
  BY <1>5, <1>7 DEF Whole
<1>10. Buffers("srv") /\ Buffers("gip") /\ Streams("srv") /\ Streams("gip")
  BY <1>0 DEF GInv
<1>11. Buffers("srv")' /\ Buffers("gip")'
  BY <1>0, <1>6, <1>8, <1>10 DEF Buffers
<1>12. Streams("srv")' /\ Streams("gip")'
  BY <1>0, <1>6, <1>8, <1>10 DEF Streams
<1>13. ASSUME NEW i \in Nat \ {0} PROVE Exact(i)'
  <2>1. Count(coming["gip"] \o acc, i) = Count(coming["gip"], i)
    <3>1. One(d[1], i) = 0
      BY <1>3 DEF One
    <3>2. Len(acc) # 2
      <4>1. Len(acc) <= 1
        BY <1>3, <1>6
      <4> QED
        BY <4>1
    <3>3. Count(coming["gip"], i) \in Nat
      BY <1>0, <1>10, KindsAre, PlacesFinite DEF Streams
    <3>4. Count(coming["gip"] \o acc, i) = Count(coming["gip"], i) + 0 + 0
      BY <1>6, <3>1, <3>2
    <3> QED
      BY <3>3, <3>4
  <2>2. Exact(i)
    BY DEF GInv
  <2> QED
    BY <1>5, <1>8, <2>1, <2>2 DEF Exact
<1>14. \A h \in Ends : Buffers(h)' /\ Streams(h)'
  BY <1>11, <1>12 DEF Ends
<1>15. wr_bufs'["kbd"] = <<>>
  BY <1>8 DEF GInv
<1>16. next_req_id' \in Nat \ {0} /\ requests' \subseteq 1 .. next_req_id' - 1
  BY <1>5 DEF GInv
<1> QED
  BY <1>9, <1>13, <1>14, <1>15, <1>16 DEF GInv

LEMMA CommandStep ==
  ASSUME GipConstants, GInv, NEW code \in {"reset", "query_mode", "switch_buffer"},
         NEW cb \in BOOLEAN, cb <=> code # "switch_buffer", gip_cmd(code, cb)
  PROVE  GInv'
<1>0. MAINLOOP_MAX_WR_BUFS \in Nat /\ "srv" \in Ends /\ "gip" \in Ends /\ Across("srv") = "gip"
      /\ Across("gip") = "srv"
  BY DEF GipConstants, Ends, Across
<1>1. PICK next \in Nat \ {0} : next = next_req_id
  BY DEF GInv
<1>2. PICK m \in Kind("srv") : m = Msg(code, IF cb THEN next ELSE 0) /\ m.id = IF cb THEN next ELSE 0
  <2>1. Kind("srv") = Commands
    BY DEF Kind
  <2>2. PICK x : x = [code |-> code, id |-> IF cb THEN next ELSE 0]
    OBVIOUS
  <2>3. x \in [code : {"reset", "query_mode", "switch_buffer"}, id : Nat]
        /\ x.id = (IF cb THEN next ELSE 0) /\ x.code = code
    BY <2>2
  <2>4. x.id = 0 <=> x.code = "switch_buffer"
    BY <2>3
  <2>5. x \in Commands
    BY <2>3, <2>4 DEF Commands
  <2>6. Msg(code, IF cb THEN next ELSE 0) = x
    BY <2>2 DEF Msg
  <2> QED
    BY <2>1, <2>3, <2>5, <2>6
<1>3. PICK d : d = <<m>>
  OBVIOUS
<1>4. d \in Seq(Kind("srv")) /\ Len(d) = 1 /\ d[1] = m
  BY <1>3
<1>5. PICK acc : acc = Accepted("gip", d)
  OBVIOUS
<1>6. /\ wr_bufs' = [wr_bufs EXCEPT !["gip"] = @ \o Framed(acc)]
      /\ coming' = [coming EXCEPT !["srv"] = @ \o acc]
      /\ requests' = IF cb THEN InProgress(m.id, acc # <<>>) ELSE requests
      /\ next_req_id' = IF cb THEN next + 1 ELSE next
      /\ UNCHANGED <<in, rd, dropped>>
  BY <1>1, <1>2, <1>3, <1>5 DEF gip_cmd, Queued, Sent, Peer, Framed
<1>7. /\ acc \in Seq(Kind("srv")) /\ Len(acc) <= Len(d)
      /\ wr_bufs["gip"] \o Framed(acc) \in Seq(Seq(Unit))
      /\ Len(wr_bufs["gip"] \o Framed(acc)) <= MAINLOOP_MAX_WR_BUFS
      /\ coming["srv"] \o acc \in Seq(Kind("srv"))
      /\ Holds(rd["srv"], in["srv"], wr_bufs["gip"] \o Framed(acc), coming["srv"] \o acc)
      /\ \A i : Count(coming["srv"] \o acc, i) =
           Count(coming["srv"], i) + (IF Len(acc) >= 1 THEN One(d[1], i) ELSE 0)
                                   + (IF Len(acc) = 2 THEN One(d[2], i) ELSE 0)
  <2>1. Len(d) <= 2
    BY <1>4
  <2>2. PICK f \in Ends, g \in Ends : f = "gip" /\ g = "srv" /\ g = Across(f)
    BY <1>0
  <2>3. d \in Seq(Kind(g))
    BY <1>4, <2>2
  <2>4. SentWell(f, g, d)
    BY <1>0, <2>1, <2>2, <2>3, Sends
  <2>5. acc = Accepted(f, d)
    BY <1>5, <2>2
  <2> QED
    BY <2>2, <2>4, <2>5 DEF SentWell
<1>8. acc \in Seq(Kind("srv")) /\ (acc = <<>> <=> Len(acc) = 0) /\ Len(acc) \in {0, 1}
  <2>1. acc \in Seq(Kind("srv"))
    BY <1>7
  <2>2. Len(acc) \in Nat
    BY <2>1, LenProperties
  <2>3. PICK n \in Nat : n = Len(acc) /\ n <= 1
    BY <1>4, <1>7, <2>2
  <2>4. n \in {0, 1}
    BY <2>3
  <2>5. acc = <<>> <=> Len(acc) = 0
    BY <2>1
  <2> QED
    BY <2>1, <2>3, <2>4, <2>5
<1>9. Whole
  BY DEF GInv
<1>10. /\ \A f \in Ends : in'[f] = in[f] /\ rd'[f] = rd[f]
       /\ wr_bufs'["gip"] = wr_bufs["gip"] \o Framed(acc) /\ wr_bufs'["srv"] = wr_bufs["srv"]
       /\ wr_bufs'["kbd"] = wr_bufs["kbd"]
       /\ coming'["srv"] = coming["srv"] \o acc /\ coming'["gip"] = coming["gip"]
  BY <1>6, <1>9 DEF Whole, Ends, Fds
<1>11. Whole'
  BY <1>6, <1>9 DEF Whole
<1>12. Buffers("srv") /\ Buffers("gip") /\ Streams("srv") /\ Streams("gip")
  BY <1>0 DEF GInv
<1>13. Buffers("srv")' /\ Buffers("gip")'
  BY <1>0, <1>7, <1>10, <1>12 DEF Buffers
<1>14. Streams("srv")' /\ Streams("gip")'
  BY <1>0, <1>7, <1>10, <1>12 DEF Streams
<1>15. ASSUME NEW i \in Nat \ {0} PROVE Exact(i)'
  <2>1. PICK a \in Nat, b \in Nat : a = Count(coming["srv"], i) /\ b = Count(coming["gip"], i)
    BY <1>0, <1>12, KindsAre, PlacesFinite DEF Streams
  <2>2. Exact(i) /\ requests \subseteq 1 .. next - 1
    BY <1>1 DEF GInv
  <2>3. a + b + Member(i, dropped) = Member(i, requests)
    BY <2>1, <2>2 DEF Exact
  <2>4. One(m, i) = IF m.id = i THEN 1 ELSE 0
    BY DEF One
  <2>5. Count(coming["srv"] \o acc, i) = a + (IF acc # <<>> THEN One(m, i) ELSE 0)
    <3>1. Count(coming["srv"] \o acc, i) = a + (IF Len(acc) >= 1 THEN One(m, i) ELSE 0) + 0
      <4>1. Len(acc) # 2
        <5>1. PICK n \in {0, 1} : n = Len(acc)
          BY <1>8
        <5> QED
          BY <5>1
      <4> QED
        BY <1>4, <1>7, <2>1, <4>1
    <3> QED
      BY <1>8, <2>1, <2>4, <3>1
  <2>6. a + (IF acc # <<>> THEN One(m, i) ELSE 0) + b + Member(i, dropped) = Member(i, requests')
    <3>1. CASE cb /\ m.id = i /\ acc # <<>>
      <4>1. requests' = requests \cup {i} /\ i = next
        BY <1>2, <1>6, <3>1 DEF InProgress
      <4>2. Member(i, requests) = 0 /\ Member(i, requests') = 1
        BY <2>2, <4>1 DEF Member
      <4>3. PICK e \in Nat : e = Member(i, dropped)
        BY DEF Member
      <4>4. (IF acc # <<>> THEN One(m, i) ELSE 0) = 1
        BY <2>4, <3>1
      <4>5. a + b + e = 0
        BY <2>3, <4>2, <4>3
      <4>6. a + 1 + b + e = 1
        BY <4>5
      <4> QED
        BY <4>2, <4>3, <4>4, <4>6
    <3>2. CASE ~ (cb /\ m.id = i /\ acc # <<>>)
      <4>1. (IF acc # <<>> THEN One(m, i) ELSE 0) = 0
        BY <1>2, <2>4, <3>2
      <4>2. Member(i, requests') = Member(i, requests)
        BY <1>6, <3>2 DEF InProgress, Member
      <4> QED
        BY <2>1, <2>3, <4>1, <4>2
    <3> QED
      BY <3>1, <3>2
  <2> QED
    BY <1>6, <1>10, <2>1, <2>5, <2>6 DEF Exact
<1>16. \A h \in Ends : Buffers(h)' /\ Streams(h)'
  BY <1>13, <1>14 DEF Ends
<1>17. wr_bufs'["kbd"] = <<>>
  BY <1>10 DEF GInv
<1>18. next_req_id' \in Nat \ {0} /\ requests' \subseteq 1 .. next_req_id' - 1
  <2>1. requests \subseteq 1 .. next - 1
    BY <1>1 DEF GInv
  <2> QED
    BY <1>2, <1>6, <2>1 DEF InProgress
<1> QED
  BY <1>11, <1>15, <1>16, <1>17, <1>18 DEF GInv

\* What giosrv answers: the number of a command is in the first reply only.
LEMMA RepliesAre ==
  ASSUME NEW m \in Commands, NEW d \in Replies(m)
  PROVE  /\ d \in Seq(Answers) /\ Len(d) \in {0, 1, 2} /\ (d = <<>> <=> Len(d) = 0)
         /\ Len(d) >= 1 => d[1].id = m.id /\ m.id # 0
         /\ Len(d) = 2 => d[2].id = 0
         /\ Len(d) = 0 => m.id = 0
<1>0. m.code \in {"reset", "query_mode", "switch_buffer"} /\ m.id \in Nat /\ (m.id = 0 <=> m.code = "switch_buffer")
  BY DEF Commands
<1>1. \A code \in {"initiate", "failure"} : m.id # 0 => Msg(code, m.id) \in Answers /\ Msg(code, m.id).id = m.id
  BY <1>0 DEF Msg, Answers
<1>2. Msg("buffer_info", 0) \in Answers /\ Msg("buffer_info", 0).id = 0
  BY DEF Msg, Answers
<1>3. CASE m.code = "reset"
  <2>1. PICK x \in Answers, y \in Answers :
          x = Msg("initiate", m.id) /\ y = Msg("buffer_info", 0) /\ x.id = m.id /\ y.id = 0
    BY <1>0, <1>1, <1>2, <1>3
  <2>2. d \in {<<x>>, <<x, y>>}
    BY <1>3, <2>1 DEF Replies
  <2>3. /\ <<x>> \in Seq(Answers) /\ Len(<<x>>) = 1 /\ <<x>>[1] = x
        /\ <<x, y>> \in Seq(Answers) /\ Len(<<x, y>>) = 2 /\ <<x, y>>[1] = x /\ <<x, y>>[2] = y
    OBVIOUS
  <2>4. CASE d = <<x>>
    BY <1>0, <1>3, <2>1, <2>3, <2>4
  <2>5. CASE d = <<x, y>>
    BY <1>0, <1>3, <2>1, <2>3, <2>5
  <2> QED
    BY <2>2, <2>4, <2>5
<1>4. CASE m.code = "query_mode"
  <2>1. PICK x \in Answers : x = Msg("failure", m.id) /\ x.id = m.id
    BY <1>0, <1>1, <1>4
  <2>2. d = <<x>>
    BY <1>4, <2>1 DEF Replies
  <2>3. <<x>> \in Seq(Answers) /\ Len(<<x>>) = 1 /\ <<x>>[1] = x
    OBVIOUS
  <2> QED
    BY <1>0, <1>4, <2>1, <2>2, <2>3
<1>5. CASE m.code = "switch_buffer"
  <2>1. d = <<>>
    BY <1>5 DEF Replies
  <2> QED
    BY <1>0, <1>5, <2>1
<1> QED
  BY <1>0, <1>3, <1>4, <1>5

LEMMA ServerHandleStep == ASSUME GipConstants, GInv, ServerHandle PROVE GInv'
<1>0. /\ CHANNEL_BUFFER_SIZE \in Nat /\ MAINLOOP_MAX_WR_BUFS \in Nat
      /\ "srv" \in Ends /\ "gip" \in Ends /\ Across("srv") = "gip" /\ Across("gip") = "srv"
      /\ Kind("srv") = Commands /\ Kind("gip") = Answers
  BY DEF GipConstants, Ends, Across, Kind
<1>1. Complete(Reading("srv")) /\ requests' = requests /\ next_req_id' = next_req_id
  BY DEF ServerHandle, ReadFull
<1>2. PICK left : left = Behind(rd["srv"], in["srv"])
  OBVIOUS
<1>3. /\ left \in Seq(Unit) /\ Len(left) <= CHANNEL_BUFFER_SIZE
      /\ coming["srv"] # <<>> /\ Message("srv") = Head(coming["srv"])
      /\ Head(coming["srv"]) \in Kind("srv") /\ Tail(coming["srv"]) \in Seq(Kind("srv"))
      /\ Holds(<<>>, left, wr_bufs["gip"], Tail(coming["srv"]))
  <2>1. PICK f \in Ends : f = "srv" /\ Across(f) = "gip"
    BY <1>0
  <2>2. LET l == Behind(rd[f], in[f]) IN
         /\ l \in Seq(Unit) /\ Len(l) <= CHANNEL_BUFFER_SIZE
         /\ Complete(Reading(f)) =>
              /\ coming[f] # <<>> /\ Message(f) = Head(coming[f])
              /\ Head(coming[f]) \in Kind(f) /\ Tail(coming[f]) \in Seq(Kind(f))
              /\ Holds(<<>>, l, wr_bufs[Across(f)], Tail(coming[f]))
    BY <1>0, Reads
  <2> QED
    BY <1>1, <1>2, <2>1, <2>2
<1>4. PICK m \in Commands : m = Head(coming["srv"])
  BY <1>0, <1>3
<1>5. PICK d \in Replies(m) :
        /\ Queued("srv", d)
        /\ coming' = Sent("srv", d, Handled("srv", coming))
        /\ dropped' = IF d # <<>> /\ Accepted("srv", d) = <<>> THEN dropped \cup {m.id} ELSE dropped
  BY <1>3, <1>4 DEF ServerHandle
<1>6. /\ d \in Seq(Answers) /\ Len(d) \in {0, 1, 2} /\ (d = <<>> <=> Len(d) = 0)
      /\ Len(d) >= 1 => d[1].id = m.id /\ m.id # 0
      /\ Len(d) = 2 => d[2].id = 0
      /\ Len(d) = 0 => m.id = 0
  BY RepliesAre
<1>7. PICK acc : acc = Accepted("srv", d)
  OBVIOUS
<1>8. /\ in' = [in EXCEPT !["srv"] = left] /\ rd' = [rd EXCEPT !["srv"] = <<>>]
      /\ wr_bufs' = [wr_bufs EXCEPT !["srv"] = @ \o Framed(acc)]
      /\ coming' = [[coming EXCEPT !["srv"] = Tail(@)] EXCEPT !["gip"] = @ \o acc]
  <2>1. in' = [in EXCEPT !["srv"] = left] /\ rd' = [rd EXCEPT !["srv"] = <<>>]
    BY <1>2 DEF ServerHandle, ReadFull, Taken, Behind, Taking
  <2> QED
    BY <1>5, <1>7, <2>1 DEF Queued, Sent, Handled, Peer, Framed
<1>9. /\ acc \in Seq(Answers) /\ Len(acc) <= Len(d)
      /\ wr_bufs["srv"] \o Framed(acc) \in Seq(Seq(Unit))
      /\ Len(wr_bufs["srv"] \o Framed(acc)) <= MAINLOOP_MAX_WR_BUFS
      /\ coming["gip"] \o acc \in Seq(Kind("gip"))
      /\ Holds(rd["gip"], in["gip"], wr_bufs["srv"] \o Framed(acc), coming["gip"] \o acc)
      /\ \A i : Count(coming["gip"] \o acc, i) =
           Count(coming["gip"], i) + (IF Len(acc) >= 1 THEN One(d[1], i) ELSE 0)
                                   + (IF Len(acc) = 2 THEN One(d[2], i) ELSE 0)
  <2>1. PICK n \in {0, 1, 2} : n = Len(d)
    BY <1>6
  <2>2. PICK f \in Ends, g \in Ends : f = "srv" /\ g = "gip" /\ g = Across(f)
    BY <1>0
  <2>3. d \in Seq(Kind(g)) /\ Len(d) <= 2
    BY <1>0, <1>6, <2>1, <2>2
  <2>4. SentWell(f, g, d)
    BY <1>0, <2>2, <2>3, Sends
  <2>5. acc = Accepted(f, d)
    BY <1>7, <2>2
  <2> QED
    BY <1>0, <2>2, <2>4, <2>5 DEF SentWell
<1>10. Whole
  BY DEF GInv
<1>11. /\ in'["srv"] = left /\ in'["gip"] = in["gip"] /\ rd'["srv"] = <<>> /\ rd'["gip"] = rd["gip"]
       /\ wr_bufs'["srv"] = wr_bufs["srv"] \o Framed(acc) /\ wr_bufs'["gip"] = wr_bufs["gip"]
       /\ wr_bufs'["kbd"] = wr_bufs["kbd"]
       /\ coming'["gip"] = coming["gip"] \o acc /\ coming'["srv"] = Tail(coming["srv"])
  BY <1>8, <1>10 DEF Whole, Fds
<1>12. Whole'
  BY <1>8, <1>10 DEF Whole
<1>13. Buffers("srv") /\ Buffers("gip") /\ Streams("srv") /\ Streams("gip")
  BY <1>0 DEF GInv
<1>14. <<>> \in Seq(Unit) /\ Partial(<<>>)
  BY DEF Partial
<1>15. Buffers("srv")' /\ Buffers("gip")'
  BY <1>3, <1>9, <1>11, <1>13, <1>14 DEF Buffers
<1>16. Streams("srv")' /\ Streams("gip")'
  BY <1>0, <1>3, <1>9, <1>11, <1>13 DEF Streams
<1>17. ASSUME NEW i \in Nat \ {0} PROVE Exact(i)'
  <2>1. PICK a \in Nat, b \in Nat, t \in Nat :
          /\ a = Count(coming["srv"], i) /\ b = Count(coming["gip"], i)
          /\ t = Count(Tail(coming["srv"]), i)
    BY <1>0, <1>3, <1>13, KindsAre, PlacesFinite DEF Streams
  <2>2. a = One(m, i) + t
    <3>1. PICK c \in Seq(Msgs) : c = coming["srv"]
      BY <1>0, <1>13, KindsAre DEF Streams
    <3>2. c # <<>>
      BY <1>3, <3>1
    <3> QED
      BY <1>4, <2>1, <3>1, <3>2, CountTail
  <2>3. a + b + Member(i, dropped) = Member(i, requests)
    BY <2>1 DEF GInv, Exact
  <2>4. PICK k \in Nat : k = Len(acc) /\ (acc = <<>> <=> k = 0)
    BY <1>9, LenProperties, EmptySeq
  <2>5. PICK n \in {0, 1, 2} : n = Len(d) /\ k <= n
    BY <1>6, <1>9, <2>4
  <2>6. k \in {0, 1, 2}
    BY <2>4, <2>5
  <2>7. Count(coming["gip"] \o acc, i) = b + (IF k >= 1 THEN One(d[1], i) ELSE 0) + (IF k = 2 THEN One(d[2], i) ELSE 0)
    BY <1>9, <2>1, <2>4
  <2>8. k >= 1 => One(d[1], i) = One(m, i)
    BY <1>6, <2>4, <2>5 DEF One
  <2>9. k = 2 => One(d[2], i) = 0
    BY <1>6, <2>4, <2>5 DEF One
  <2>10. One(m, i) \in {0, 1} /\ (One(m, i) = 1 <=> m.id = i)
    BY DEF One
  <2>11. Count(coming["gip"] \o acc, i) = b + (IF k >= 1 THEN One(m, i) ELSE 0)
    <3>1. CASE k = 0
      BY <2>1, <2>7, <3>1
    <3>2. CASE k = 1
      BY <2>1, <2>7, <2>8, <2>10, <3>2
    <3>3. CASE k = 2
      BY <2>1, <2>7, <2>8, <2>9, <2>10, <3>3
    <3> QED
      BY <2>6, <3>1, <3>2, <3>3
  <2>12. t + Count(coming["gip"] \o acc, i) + Member(i, dropped') = Member(i, requests)
    <3>1. CASE k >= 1
      <4>1. dropped' = dropped
        BY <1>5, <1>7, <2>4, <3>1
      <4>2. Member(i, dropped) \in Nat
        BY DEF Member
      <4> QED
        BY <2>1, <2>2, <2>3, <2>10, <2>11, <3>1, <4>1, <4>2
    <3>2. CASE k = 0 /\ n = 0
      <4>1. dropped' = dropped /\ m.id = 0
        BY <1>5, <1>6, <2>5, <3>2
      <4>2. One(m, i) = 0 /\ Member(i, dropped) \in Nat
        BY <2>10, <4>1 DEF Member
      <4> QED
        BY <2>1, <2>2, <2>3, <2>11, <3>2, <4>1, <4>2
    <3>3. CASE k = 0 /\ n # 0
      <4>1. dropped' = dropped \cup {m.id}
        BY <1>5, <1>6, <1>7, <2>4, <2>5, <3>3
      <4>2. CASE m.id = i
        <5>1. One(m, i) = 1 /\ Member(i, dropped') = 1
          BY <2>10, <4>1, <4>2 DEF Member
        <5>2. Member(i, dropped) \in {0, 1} /\ Member(i, requests) \in {0, 1}
          BY DEF Member
        <5>3. Member(i, dropped) = 0
          BY <2>1, <2>2, <2>3, <5>1, <5>2
        <5> QED
          BY <2>1, <2>2, <2>3, <2>11, <3>3, <5>1, <5>3
      <4>3. CASE m.id # i
        <5>1. One(m, i) = 0 /\ Member(i, dropped') = Member(i, dropped) /\ Member(i, dropped) \in Nat
          BY <2>10, <4>1, <4>3 DEF Member
        <5> QED
          BY <2>1, <2>2, <2>3, <2>11, <3>3, <5>1
      <4> QED
        BY <4>2, <4>3
    <3> QED
      BY <2>5, <2>6, <3>1, <3>2, <3>3
  <2> QED
    BY <1>1, <1>11, <2>1, <2>12 DEF Exact
<1>18. \A h \in Ends : Buffers(h)' /\ Streams(h)'
  BY <1>15, <1>16 DEF Ends
<1>19. wr_bufs'["kbd"] = <<>>
  BY <1>11 DEF GInv
<1>20. next_req_id' \in Nat \ {0} /\ requests' \subseteq 1 .. next_req_id' - 1
  BY <1>1 DEF GInv
<1> QED
  BY <1>12, <1>17, <1>18, <1>19, <1>20 DEF GInv

LEMMA ClientHandleStep == ASSUME GipConstants, GInv, ClientHandle PROVE GInv'
<1>0. /\ CHANNEL_BUFFER_SIZE \in Nat
      /\ "srv" \in Ends /\ "gip" \in Ends /\ Across("srv") = "gip" /\ Across("gip") = "srv"
      /\ Kind("srv") = Commands /\ Kind("gip") = Answers
  BY DEF GipConstants, Ends, Across, Kind
<1>1. Complete(Reading("gip")) /\ UNCHANGED <<wr_bufs, next_req_id, dropped>>
  BY DEF ClientHandle, ReadFull
<1>2. PICK left : left = Behind(rd["gip"], in["gip"])
  OBVIOUS
<1>3. /\ left \in Seq(Unit) /\ Len(left) <= CHANNEL_BUFFER_SIZE
      /\ coming["gip"] # <<>> /\ Message("gip") = Head(coming["gip"])
      /\ Head(coming["gip"]) \in Kind("gip") /\ Tail(coming["gip"]) \in Seq(Kind("gip"))
      /\ Holds(<<>>, left, wr_bufs["srv"], Tail(coming["gip"]))
  <2>1. PICK f \in Ends : f = "gip" /\ Across(f) = "srv"
    BY <1>0
  <2>2. LET l == Behind(rd[f], in[f]) IN
         /\ l \in Seq(Unit) /\ Len(l) <= CHANNEL_BUFFER_SIZE
         /\ Complete(Reading(f)) =>
              /\ coming[f] # <<>> /\ Message(f) = Head(coming[f])
              /\ Head(coming[f]) \in Kind(f) /\ Tail(coming[f]) \in Seq(Kind(f))
              /\ Holds(<<>>, l, wr_bufs[Across(f)], Tail(coming[f]))
    BY <1>0, Reads
  <2> QED
    BY <1>1, <1>2, <2>1, <2>2
<1>4. PICK m \in Answers : m = Head(coming["gip"])
  BY <1>0, <1>3
<1>5. /\ m.code \in {"initiate", "failure", "buffer_info", "key_down"} /\ m.id \in Nat
      /\ m.id = 0 <=> m.code \notin {"initiate", "failure"}
  BY DEF Answers
<1>6. requests' = IF m.id # 0 THEN requests \ {m.id} ELSE requests
  BY <1>3, <1>4, <1>5 DEF ClientHandle
<1>7. /\ in' = [in EXCEPT !["gip"] = left] /\ rd' = [rd EXCEPT !["gip"] = <<>>]
      /\ coming' = [coming EXCEPT !["gip"] = Tail(@)]
  BY <1>2 DEF ClientHandle, ReadFull, Taken, Handled, Behind, Taking
<1>8. Whole
  BY DEF GInv
<1>9. /\ in'["gip"] = left /\ in'["srv"] = in["srv"] /\ rd'["gip"] = <<>> /\ rd'["srv"] = rd["srv"]
      /\ wr_bufs' = wr_bufs
      /\ coming'["gip"] = Tail(coming["gip"]) /\ coming'["srv"] = coming["srv"]
  BY <1>1, <1>7, <1>8 DEF Whole, Fds
<1>10. Whole'
  BY <1>1, <1>7, <1>8 DEF Whole
<1>11. Buffers("srv") /\ Buffers("gip") /\ Streams("srv") /\ Streams("gip")
  BY <1>0 DEF GInv
<1>12. <<>> \in Seq(Unit) /\ Partial(<<>>)
  BY DEF Partial
<1>13. Buffers("srv")' /\ Buffers("gip")'
  BY <1>3, <1>9, <1>11, <1>12 DEF Buffers
<1>14. Streams("srv")' /\ Streams("gip")'
  BY <1>0, <1>3, <1>9, <1>11 DEF Streams
<1>15. ASSUME NEW i \in Nat \ {0} PROVE Exact(i)'
  <2>1. PICK a \in Nat, b \in Nat, t \in Nat :
          /\ a = Count(coming["srv"], i) /\ b = Count(coming["gip"], i)
          /\ t = Count(Tail(coming["gip"]), i)
    BY <1>0, <1>3, <1>11, KindsAre, PlacesFinite DEF Streams
  <2>2. b = One(m, i) + t
    <3>1. PICK c \in Seq(Msgs) : c = coming["gip"]
      BY <1>0, <1>11, KindsAre DEF Streams
    <3>2. c # <<>>
      BY <1>3, <3>1
    <3> QED
      BY <1>4, <2>1, <3>1, <3>2, CountTail
  <2>3. a + b + Member(i, dropped) = Member(i, requests)
    BY <2>1 DEF GInv, Exact
  <2>4. Member(i, dropped) \in {0, 1} /\ Member(i, requests) \in {0, 1}
    BY DEF Member
  <2>5. a + t + Member(i, dropped) = Member(i, requests')
    <3>1. CASE m.id = i
      <4>1. One(m, i) = 1 /\ Member(i, requests') = 0
        BY <1>6, <3>1 DEF One, Member
      <4> QED
        BY <2>1, <2>2, <2>3, <2>4, <4>1
    <3>2. CASE m.id # i
      <4>1. One(m, i) = 0 /\ Member(i, requests') = Member(i, requests)
        BY <1>6, <3>2 DEF One, Member
      <4> QED
        BY <2>1, <2>2, <2>3, <2>4, <4>1
    <3> QED
      BY <3>1, <3>2
  <2> QED
    BY <1>1, <1>9, <2>1, <2>5 DEF Exact
<1>16. \A h \in Ends : Buffers(h)' /\ Streams(h)'
  BY <1>13, <1>14 DEF Ends
<1>17. wr_bufs'["kbd"] = <<>>
  BY <1>9 DEF GInv
<1>18. next_req_id' \in Nat \ {0} /\ requests' \subseteq 1 .. next_req_id' - 1
  <2>1. next_req_id' = next_req_id /\ requests' \subseteq requests
    BY <1>1, <1>6
  <2> QED
    BY <2>1 DEF GInv
<1> QED
  BY <1>10, <1>15, <1>16, <1>17, <1>18 DEF GInv

-----------------------------------------------------------------------------
LEMMA GStutters == ASSUME GInv, UNCHANGED vars PROVE GInv'
BY IdleStep DEF vars

LEMMA GNextKeeps == ASSUME GipConstants, GInv, Next PROVE GInv'
<1>1. ASSUME NEW p, Step(p) PROVE GInv'
  BY <1>1, SelectStep, ErrorStep, ReadPartStep, WriteStep, SkipStep DEF Step
<1>2. CASE GiosrvStep
  BY <1>1, <1>2, ServerHandleStep, KeyHandleStep DEF GiosrvStep
<1>3. CASE ClientStep
  BY <1>1, <1>3, ClientHandleStep DEF ClientStep
<1>4. CASE Command
  <2>1. CASE gip_cmd("reset", TRUE)
    BY <2>1, CommandStep
  <2>2. CASE gip_cmd("query_mode", TRUE)
    BY <2>2, CommandStep
  <2>3. CASE gip_cmd("switch_buffer", FALSE)
    BY <2>3, CommandStep
  <2> QED
    BY <1>4, <2>1, <2>2, <2>3 DEF Command
<1>5. CASE Key
  BY <1>5, KeyStep
<1>6. CASE \E p \in Progs : Exits(p)
  BY <1>6, ExitsStep
<1> QED
  BY <1>2, <1>3, <1>4, <1>5, <1>6 DEF Next

\* The invariant holds in every state of the two programs.
LEMMA GInvariant == Spec => []GInv
<1>1. Init => GInv
  BY GInitially, GipAssumption
<1>2. GInv /\ [Next]_vars => GInv'
  BY GNextKeeps, GStutters, GipAssumption
<1> QED
  BY <1>1, <1>2, PTL DEF Spec

\* What was sent and not handled is, unit by unit, what was read of a message,
\* what is in the channel and what waits in wr_bufs[]: messages are taken apart
\* by sc_write() and sc_read() and put together again, at any size of the
\* channel and of the queue.
THEOREM MessagesStayWhole == Spec => []FramesWhole
<1>1. ASSUME GInv PROVE FramesWhole
  <2>1. SUFFICES ASSUME NEW f \in Ends
                 PROVE  rd[f] \o in[f] \o FlattenSeq(wr_bufs[Peer[f]]) =
                          FlattenSeq([k \in DOMAIN coming[f] |-> Units(coming[f][k])])
    BY DEF FramesWhole, Ends
  <2>2. Holds(rd[f], in[f], wr_bufs[Across(f)], coming[f])
    BY <1>1 DEF GInv, Streams
  <2> QED
    BY <2>2, EndsAre DEF Holds, Stream, Framed
<1> QED
  BY <1>1, GInvariant, PTL

\* Every request in progress has one command or one reply under way, or its
\* reply was dropped; no reply comes twice and none comes for another request.
THEOREM RequestsAreAnswered == Spec => []RequestsExact
<1>1. ASSUME GInv PROVE RequestsExact
  <2>0. SUFFICES ASSUME NEW i \in 1 .. MaxCmds
                 PROVE  Under("srv", i) + Under("gip", i) + Cardinality({i} \cap dropped) =
                          Cardinality({i} \cap requests)
    BY DEF RequestsExact
  <2>1. i \in Nat \ {0}
    BY GipAssumption DEF GipConstants
  <2>2. Exact(i)
    BY <1>1, <2>1 DEF GInv
  <2>3. Under("srv", i) = Count(coming["srv"], i) /\ Under("gip", i) = Count(coming["gip"], i)
    BY DEF Under, Count
  <2>4. ASSUME NEW S PROVE Cardinality({i} \cap S) = Member(i, S)
    <3>1. CASE i \in S
      <4>1. {i} \cap S = {i}
        BY <3>1
      <4>2. Cardinality({i}) = 1
        BY FS_Singleton
      <4> QED
        BY <3>1, <4>1, <4>2 DEF Member
    <3>2. CASE i \notin S
      <4>1. {i} \cap S = {}
        BY <3>2
      <4> QED
        BY <3>2, <4>1, FS_EmptySet DEF Member
    <3> QED
      BY <3>1, <3>2
  <2>5. Cardinality({i} \cap dropped) = Member(i, dropped) /\ Cardinality({i} \cap requests) = Member(i, requests)
    <3>1. PICK S, T : S = dropped /\ T = requests
      OBVIOUS
    <3> QED
      BY <2>4, <3>1
  <2> QED
    BY <2>2, <2>3, <2>5 DEF Exact
<1> QED
  BY <1>1, GInvariant, PTL
================================================================================
