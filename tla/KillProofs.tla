------------------------------ MODULE KillProofs ------------------------------
(***************************************************************************)
(* Proofs about the run queue as a linked list (RunQueueList) and about    *)
(* kill_thread() on it (Kill), for any number of threads.                  *)
(*                                                                         *)
(* A list is described by the sequence of its threads (Lists), so that its *)
(* operations are those of the sequence.  That the nodes met from the      *)
(* first one on are this sequence, which the definition of Node says by    *)
(* recursion, takes an induction: SetInduction is the principle, obtained  *)
(* from the fact that an injection of a finite set into itself meets every *)
(* member.                                                                 *)
(***************************************************************************)
EXTENDS Kill, Sequences, FiniteSetTheorems, SequenceTheorems, TLAPS

\* The list l holds the threads of q, in this order, and no other.
Lists(l, q) ==
  /\ l \in [first : Threads \cup {NoThread}, last : Threads \cup {NoThread},
            next : [Threads -> Threads \cup {NoThread}]]
  /\ q \in Seq(Threads)
  /\ \A i, j \in 1 .. Len(q) : q[i] = q[j] => i = j
  /\ IF q = <<>> THEN l.first = NoThread /\ l.last = NoThread
                 ELSE l.first = q[1] /\ l.last = q[Len(q)]
  /\ \A i \in 1 .. Len(q) : l.next[q[i]] = IF i = Len(q) THEN NoThread ELSE q[i + 1]

In(q) == {q[i] : i \in 1 .. Len(q)}

-----------------------------------------------------------------------------
(***************************************************************************)
(* Induction.                                                              *)
(***************************************************************************)

\* A set that has 0, and with each number the next one, has all numbers.
LEMMA SetInduction ==
  ASSUME NEW S, 0 \in S, \A n \in Nat : n \in S => n + 1 \in S
  PROVE  Nat \subseteq S
<1> SUFFICES ASSUME NEW m \in Nat, m \notin S PROVE FALSE
  OBVIOUS
<1> DEFINE A == S \cap (0 .. m)
           f == [n \in A |-> n + 1]
<1>1. A \in SUBSET (0 .. m) /\ IsFiniteSet(A)
  <2>1. A \in SUBSET (0 .. m)
    OBVIOUS
  <2>2. IsFiniteSet(0 .. m)
    BY FS_Interval
  <2> HIDE DEF A
  <2> QED
    BY <2>1, <2>2, FS_Subset
<1>2. f \in Injection(A, A)
  BY <1>1 DEF Injection, IsInjective
<1>3. f \in Surjection(A, A)
  BY <1>1, <1>2, FS_Injection
<1>4. 0 \in A /\ \A n \in A : f[n] = n + 1 /\ n \in Nat
  OBVIOUS
<1>5. PICK n \in A : f[n] = 0
  BY <1>3, <1>4 DEF Surjection
<1> QED
  BY <1>4, <1>5

-----------------------------------------------------------------------------
(***************************************************************************)
(* The operations of the list.                                             *)
(***************************************************************************)

\* What a thread put before a sequence makes of it.
LEMMA Prepended ==
  ASSUME NEW S, NEW q \in Seq(S), NEW t \in S
  PROVE  LET r == <<t>> \o q IN
         /\ r \in Seq(S) /\ Len(r) = Len(q) + 1 /\ r[1] = t /\ r # <<>>
         /\ \A i \in 1 .. Len(q) : r[i + 1] = q[i]
         /\ \A i \in 1 .. Len(r) : i = 1 \/ (i - 1 \in 1 .. Len(q) /\ r[i] = q[i - 1])
<1> DEFINE r == <<t>> \o q
<1>1. <<t>> \in Seq(S) /\ Len(<<t>>) = 1 /\ <<t>>[1] = t /\ Len(q) \in Nat
  OBVIOUS
<1>2. Len(r) = 1 + Len(q) /\ r \in Seq(S)
  BY <1>1, ConcatProperties
<1>3. \A i \in 1 .. 1 + Len(q) : r[i] = IF i <= 1 THEN <<t>>[i] ELSE q[i - 1]
  BY <1>1, <1>2, ConcatProperties
<1> HIDE DEF r
<1>4. r[1] = t /\ r # <<>>
  BY <1>1, <1>2, <1>3
<1>5. ASSUME NEW i \in 1 .. Len(q) PROVE r[i + 1] = q[i]
  <2>1. i + 1 \in 1 .. 1 + Len(q) /\ ~ (i + 1 <= 1) /\ (i + 1) - 1 = i
    BY <1>1
  <2> QED
    BY <1>3, <2>1
<1>6. ASSUME NEW i \in 1 .. Len(r), i # 1 PROVE i - 1 \in 1 .. Len(q) /\ r[i] = q[i - 1]
  BY <1>1, <1>2, <1>3, <1>6
<1>7. \A i \in 1 .. Len(r) : i = 1 \/ (i - 1 \in 1 .. Len(q) /\ r[i] = q[i - 1])
  BY <1>6
<1>8. \A i \in 1 .. Len(q) : r[i + 1] = q[i]
  BY <1>5
<1>9. Len(r) = Len(q) + 1 /\ r \in Seq(S)
  BY <1>1, <1>2
<1> QED
  BY <1>4, <1>7, <1>8, <1>9 DEF r

\* The empty sequence is the one of no length.
LEMMA NoLength ==
  ASSUME NEW S, NEW q \in Seq(S)
  PROVE  q = <<>> <=> Len(q) = 0
OBVIOUS

\* The rest of a sequence.
LEMMA Rest ==
  ASSUME NEW S, NEW q \in Seq(S), q # <<>>
  PROVE  /\ Tail(q) \in Seq(S) /\ Len(Tail(q)) = Len(q) - 1 /\ Len(Tail(q)) \in Nat
         /\ \A i \in 1 .. Len(Tail(q)) : Tail(q)[i] = q[i + 1] /\ i + 1 \in 1 .. Len(q)
         /\ Tail(q) = <<>> <=> Len(q) = 1
<1>1. /\ Len(q) \in Nat /\ Len(q) >= 1
      /\ Tail(q) \in Seq(S) /\ Len(Tail(q)) = Len(q) - 1
  BY HeadTailProperties
<1>2. \A i \in 1 .. Len(Tail(q)) : Tail(q)[i] = q[i + 1]
  BY HeadTailProperties
<1>3. Tail(q) = <<>> <=> Len(Tail(q)) = 0
  BY <1>1, NoLength
<1> QED
  BY <1>1, <1>2, <1>3

\* The list at the beginning.
LEMMA EmptyLists == Lists(RQ!EmptyList, <<>>)
BY DEF Lists, RQ!EmptyList

\* enqueue_thread() puts a thread that is not on the list at its end or before it.
LEMMA EnqueueLists ==
  ASSUME NEW l, NEW q, Lists(l, q), NEW t \in Threads, t \notin In(q), NEW b \in BOOLEAN
  PROVE  Lists(RQ!enqueue_thread(l, t, b), IF b THEN Append(q, t) ELSE <<t>> \o q)
<1> DEFINE e == RQ!enqueue_thread(l, t, b)
           r == IF b THEN Append(q, t) ELSE <<t>> \o q
           Refs == Threads \cup {NoThread}
<1> SUFFICES Lists(e, r)
  OBVIOUS
<1>1. /\ l.first \in Refs /\ l.last \in Refs /\ l.next \in [Threads -> Refs]
      /\ l = [first |-> l.first, last |-> l.last, next |-> l.next]
  BY DEF Lists
<1>2. q \in Seq(Threads) /\ Len(q) \in Nat /\ \A i \in 1 .. Len(q) : q[i] \in Threads
  BY DEF Lists
<1>3. NoThread \notin Threads
  BY KillAssumption
<1>4. CASE q = <<>>
  <2>1. l.first = NoThread
    BY <1>4 DEF Lists
  <2>2. e = [first |-> t, last |-> t, next |-> [l.next EXCEPT ![t] = NoThread]]
    BY <2>1 DEF RQ!enqueue_thread
  <2>3. r = <<t>>
    BY <1>4
  <2>4. /\ e.first = t /\ e.last = t /\ e.next[t] = NoThread
        /\ e \in [first : Refs, last : Refs, next : [Threads -> Refs]]
    BY <1>1, <2>2
  <2>5. r \in Seq(Threads) /\ r # <<>> /\ Len(r) = 1 /\ r[1] = t
    <3>1. <<t>> \in Seq(Threads) /\ <<t>> # <<>> /\ Len(<<t>>) = 1 /\ <<t>>[1] = t
      OBVIOUS
    <3> HIDE DEF r
    <3> QED
      BY <2>3, <3>1
  <2> HIDE DEF e, r, Refs
  <2> QED
    BY <2>4, <2>5 DEF Lists, Refs
<1>5. CASE q # <<>> /\ b
  <2>1. l.first = q[1] /\ l.last = q[Len(q)] /\ l.first # NoThread /\ Len(q) >= 1
    BY <1>2, <1>3, <1>5 DEF Lists
  <2>2. l.last \in Threads /\ l.last # t
    BY <1>2, <2>1 DEF In
  <2>3. e = [l EXCEPT !.next = [l.next EXCEPT ![t] = NoThread, ![l.last] = t], !.last = t]
    BY <1>5, <2>1 DEF RQ!enqueue_thread
  <2>4. /\ e.first = l.first /\ e.last = t
        /\ e.next = [l.next EXCEPT ![t] = NoThread, ![l.last] = t]
        /\ e = [first |-> e.first, last |-> e.last, next |-> e.next]
    BY <1>1, <2>3
  <2>5. /\ e.next \in [Threads -> Refs] /\ e.next[t] = NoThread /\ e.next[l.last] = t
        /\ \A u \in Threads : u # t /\ u # l.last => e.next[u] = l.next[u]
    BY <1>1, <2>2, <2>4
  <2>6. /\ r \in Seq(Threads) /\ Len(r) = Len(q) + 1 /\ r[Len(q) + 1] = t
        /\ \A i \in 1 .. Len(q) : r[i] = q[i] /\ q[i] # t
        /\ r # <<>>
    BY <1>2, <1>5 DEF In
  <2>7. \A i, j \in 1 .. Len(r) : r[i] = r[j] => i = j
    <3> SUFFICES ASSUME NEW i \in 1 .. Len(r), NEW j \in 1 .. Len(r), r[i] = r[j] PROVE i = j
      OBVIOUS
    <3>1. i \in 1 .. Len(q) \/ i = Len(q) + 1
      BY <1>2, <2>6
    <3>2. j \in 1 .. Len(q) \/ j = Len(q) + 1
      BY <1>2, <2>6
    <3> QED
      BY <2>6, <3>1, <3>2 DEF Lists
  <2>8. ASSUME NEW i \in 1 .. Len(r)
        PROVE  e.next[r[i]] = IF i = Len(r) THEN NoThread ELSE r[i + 1]
    <3>1. CASE i = Len(q) + 1
      BY <2>5, <2>6, <3>1
    <3>2. CASE i = Len(q)
      BY <1>2, <2>1, <2>5, <2>6, <3>2
    <3>3. CASE i \in 1 .. Len(q) /\ i # Len(q)
      <4>1. i + 1 \in 1 .. Len(q) /\ i # Len(r)
        BY <1>2, <2>6, <3>3
      <4>2. q[i] # l.last
        BY <1>2, <2>1, <3>3 DEF Lists
      <4>3. e.next[q[i]] = l.next[q[i]]
        BY <1>2, <2>5, <2>6, <3>3, <4>2
      <4>4. l.next[q[i]] = q[i + 1]
        BY <3>3 DEF Lists
      <4> QED
        BY <2>6, <3>3, <4>1, <4>3, <4>4
    <3> QED
      BY <1>2, <2>6, <3>1, <3>2, <3>3
  <2>9. e \in [first : Refs, last : Refs, next : [Threads -> Refs]]
    BY <1>1, <2>4, <2>5
  <2>10. e.first = r[1] /\ e.last = r[Len(r)]
    BY <2>1, <2>4, <2>6
  <2> HIDE DEF e, r
  <2> QED
    BY <2>6, <2>7, <2>8, <2>9, <2>10 DEF Lists
<1>6. CASE q # <<>> /\ ~ b
  <2>1. l.first = q[1] /\ l.last = q[Len(q)] /\ l.first # NoThread /\ Len(q) >= 1
    BY <1>2, <1>3, <1>6 DEF Lists
  <2>2. e = [l EXCEPT !.next[t] = l.first, !.first = t]
    BY <1>6, <2>1 DEF RQ!enqueue_thread
  <2>3. /\ e.first = t /\ e.last = l.last /\ e.next = [l.next EXCEPT ![t] = l.first]
        /\ e = [first |-> e.first, last |-> e.last, next |-> e.next]
    BY <1>1, <2>2
  <2>4. /\ e.next \in [Threads -> Refs] /\ e.next[t] = q[1]
        /\ \A u \in Threads : u # t => e.next[u] = l.next[u]
    BY <1>1, <2>1, <2>3
  <2>5. /\ r \in Seq(Threads) /\ Len(r) = Len(q) + 1 /\ r[1] = t
        /\ \A i \in 1 .. Len(q) : r[i + 1] = q[i] /\ q[i] # t
        /\ r # <<>>
    BY <1>2, <1>6, Prepended DEF In
  <2>6. \A i \in 1 .. Len(r) : i = 1 \/ (i - 1 \in 1 .. Len(q) /\ r[i] = q[i - 1])
    BY <1>2, <1>6, Prepended
  <2>7. \A i, j \in 1 .. Len(r) : r[i] = r[j] => i = j
    <3> SUFFICES ASSUME NEW i \in 1 .. Len(r), NEW j \in 1 .. Len(r), r[i] = r[j] PROVE i = j
      OBVIOUS
    <3>1. i - 1 \in 1 .. Len(q) /\ j - 1 \in 1 .. Len(q) /\ q[i - 1] = q[j - 1] => i - 1 = j - 1
      BY DEF Lists
    <3>0. \A k \in 1 .. Len(q) : q[k] # t
      BY <2>5
    <3> HIDE DEF r
    <3>2. i = 1 \/ (i - 1 \in 1 .. Len(q) /\ r[i] = q[i - 1] /\ q[i - 1] # t)
      BY <2>6, <3>0
    <3>3. j = 1 \/ (j - 1 \in 1 .. Len(q) /\ r[j] = q[j - 1] /\ q[j - 1] # t)
      BY <2>6, <3>0
    <3> QED
      BY <2>5, <3>1, <3>2, <3>3
  <2>8. ASSUME NEW i \in 1 .. Len(r)
        PROVE  e.next[r[i]] = IF i = Len(r) THEN NoThread ELSE r[i + 1]
    <3>1. CASE i = 1
      BY <1>2, <2>1, <2>4, <2>5, <3>1
    <3>2. CASE i - 1 \in 1 .. Len(q) /\ r[i] = q[i - 1]
      <4>1. e.next[r[i]] = l.next[q[i - 1]]
        BY <1>2, <2>4, <2>5, <3>2
      <4>2. l.next[q[i - 1]] = IF i - 1 = Len(q) THEN NoThread ELSE q[i - 1 + 1]
        BY <3>2 DEF Lists
      <4>3. i - 1 + 1 = i /\ (i - 1 = Len(q) <=> i = Len(r))
        BY <1>2, <2>5, <3>2
      <4>4. i # Len(r) => i \in 1 .. Len(q) /\ r[i + 1] = q[i]
        BY <1>2, <2>5, <3>2
      <4> QED
        BY <4>1, <4>2, <4>3, <4>4
    <3> QED
      BY <2>6, <3>1, <3>2
  <2>9. e \in [first : Refs, last : Refs, next : [Threads -> Refs]]
    BY <1>1, <2>3, <2>4
  <2>10. e.first = r[1] /\ e.last = r[Len(r)]
    <3>1. r[Len(q) + 1] = q[Len(q)]
      BY <1>2, <2>1, <2>5
    <3> QED
      BY <2>1, <2>3, <2>5, <3>1
  <2> HIDE DEF e, r
  <2> QED
    BY <2>5, <2>7, <2>8, <2>9, <2>10 DEF Lists
<1> QED
  BY <1>4, <1>5, <1>6

\* dequeue_thread() takes the first thread from a list that has one.
LEMMA DequeueLists ==
  ASSUME NEW l, NEW q, Lists(l, q), q # <<>>
  PROVE  Lists(RQ!dequeue_thread(l), Tail(q))
<1> DEFINE e == RQ!dequeue_thread(l)
           r == Tail(q)
           Refs == Threads \cup {NoThread}
<1> SUFFICES Lists(e, r)
  OBVIOUS
<1>1. /\ l.first \in Refs /\ l.last \in Refs /\ l.next \in [Threads -> Refs]
      /\ l = [first |-> l.first, last |-> l.last, next |-> l.next]
  BY DEF Lists
<1>2. q \in Seq(Threads) /\ Len(q) \in Nat /\ Len(q) >= 1 /\ \A i \in 1 .. Len(q) : q[i] \in Threads
  BY DEF Lists
<1>3. NoThread \notin Threads
  BY KillAssumption
<1>4. l.first = q[1] /\ l.last = q[Len(q)]
  BY DEF Lists
<1>5. /\ r \in Seq(Threads) /\ Len(r) = Len(q) - 1 /\ Len(r) \in Nat
      /\ \A i \in 1 .. Len(r) : r[i] = q[i + 1] /\ i + 1 \in 1 .. Len(q)
      /\ r = <<>> <=> Len(q) = 1
  BY <1>2, Rest
<1>6. e = [first |-> l.next[q[1]],
           last |-> IF l.next[q[1]] = NoThread THEN NoThread ELSE l.last,
           next |-> l.next]
  <2>1. e = [l EXCEPT !.first = l.next[q[1]],
                      !.last = IF l.next[q[1]] = NoThread THEN NoThread ELSE l.last]
    BY <1>4 DEF RQ!dequeue_thread
  <2> HIDE DEF e
  <2> QED
    BY <1>1, <2>1
<1>7. l.next[q[1]] = IF Len(q) = 1 THEN NoThread ELSE q[2]
  <2>1. 1 \in 1 .. Len(q) /\ 1 + 1 = 2
    BY <1>2
  <2>2. l.next[q[1]] = IF 1 = Len(q) THEN NoThread ELSE q[1 + 1]
    BY <2>1 DEF Lists
  <2> QED
    BY <2>1, <2>2
<1>8. \A i, j \in 1 .. Len(r) : r[i] = r[j] => i = j
  <2> SUFFICES ASSUME NEW i \in 1 .. Len(r), NEW j \in 1 .. Len(r), r[i] = r[j] PROVE i = j
    OBVIOUS
  <2>1. q[i + 1] = q[j + 1] /\ i + 1 \in 1 .. Len(q) /\ j + 1 \in 1 .. Len(q)
    BY <1>5
  <2>2. i + 1 = j + 1
    BY <2>1 DEF Lists
  <2> QED
    BY <1>5, <2>2
<1>9. ASSUME NEW i \in 1 .. Len(r)
      PROVE  l.next[r[i]] = IF i = Len(r) THEN NoThread ELSE r[i + 1]
  <2>1. r[i] = q[i + 1] /\ i + 1 \in 1 .. Len(q)
    BY <1>5
  <2>2. l.next[q[i + 1]] = IF i + 1 = Len(q) THEN NoThread ELSE q[i + 1 + 1]
    BY <2>1 DEF Lists
  <2>3. ASSUME i # Len(r) PROVE i + 1 \in 1 .. Len(r) /\ r[i + 1] = q[i + 1 + 1]
    <3> HIDE DEF r
    <3>1. i + 1 \in 1 .. Len(r)
      BY <1>5, <2>3
    <3> QED
      BY <1>5, <3>1
  <2>4. i + 1 = Len(q) <=> i = Len(r)
    BY <1>2, <1>5
  <2> QED
    BY <2>1, <2>2, <2>3, <2>4
<1>10. e \in [first : Refs, last : Refs, next : [Threads -> Refs]]
  BY <1>1, <1>2, <1>6
<1>11. /\ r = <<>> => e.first = NoThread /\ e.last = NoThread
       /\ r # <<>> => e.first = r[1] /\ e.last = r[Len(r)]
  BY <1>2, <1>3, <1>4, <1>5, <1>6, <1>7
<1>12. e.next = l.next
  BY <1>6
<1> HIDE DEF e, r
<1> QED
  BY <1>5, <1>8, <1>9, <1>10, <1>11, <1>12 DEF Lists

-----------------------------------------------------------------------------
(***************************************************************************)
(* The nodes of the list.                                                  *)
(***************************************************************************)

Nodes == 1 .. Cardinality(Threads) + 1

\* The nodes met from the first one on, if the list holds the threads of q.
NodesOf(q) == [n \in Nodes |-> IF n <= Len(q) THEN q[n] ELSE NoThread]

\* What the definition of Node says of it.
Follows(at) ==
  at = [n \in Nodes |-> IF n = 1 THEN list.first
                        ELSE IF at[n - 1] = NoThread THEN NoThread
                        ELSE list.next[at[n - 1]]]

\* The library is the same wherever it is instantiated.
LEMMA SameCardinality == \A S : RQ!Cardinality(S) = Cardinality(S)
BY DEF RQ!Cardinality, Cardinality

LEMMA FiniteThreads == IsFiniteSet(Threads) /\ Cardinality(Threads) \in Nat
<1>1. IsFiniteSet(Threads)
  BY KillAssumption, FS_AddElement DEF Threads
<1> QED
  BY <1>1, FS_CardinalityType

\* A list has at most as many nodes as there are threads.
LEMMA ListIsShort ==
  ASSUME NEW q \in Seq(Threads), \A i, j \in 1 .. Len(q) : q[i] = q[j] => i = j
  PROVE  Len(q) <= Cardinality(Threads)
<1>1. Len(q) \in Nat /\ q \in [1 .. Len(q) -> Threads]
  OBVIOUS
<1>2. q \in Injection(1 .. Len(q), Threads)
  BY <1>1 DEF Injection, IsInjective
<1>3. Cardinality(1 .. Len(q)) <= Cardinality(Threads)
  BY <1>2, FiniteThreads, FS_Injection
<1>4. Cardinality(1 .. Len(q)) = Len(q)
  BY <1>1, FS_Interval
<1> QED
  BY <1>3, <1>4

\* The nodes met on the list of q are those of q, and then no thread.
LEMMA NodeIs ==
  \A q : Lists(list, q) => RQ!Node = NodesOf(q)
<1> SUFFICES ASSUME NEW q, Lists(list, q) PROVE RQ!Node = NodesOf(q)
  OBVIOUS
<1>1. q \in Seq(Threads) /\ Len(q) \in Nat /\ \A i \in 1 .. Len(q) : q[i] \in Threads
  BY DEF Lists
<1>2. NoThread \notin Threads
  BY KillAssumption
<1>3. Len(q) <= Cardinality(Threads) /\ Cardinality(Threads) \in Nat
  BY <1>1, FiniteThreads, ListIsShort DEF Lists
<1>4. 1 \in Nodes /\ \A n \in Nodes : n \in Nat /\ n >= 1 /\ (n # 1 => n - 1 \in Nodes)
  BY <1>3 DEF Nodes
<1>5. list.first = IF Len(q) = 0 THEN NoThread ELSE q[1]
  BY <1>1, NoLength DEF Lists
<1> DEFINE g == NodesOf(q)
<1>6. DOMAIN g = Nodes /\ \A n \in Nodes : g[n] = IF n <= Len(q) THEN q[n] ELSE NoThread
  BY DEF NodesOf
<1>7. g[1] = list.first
  BY <1>1, <1>4, <1>5, <1>6
<1>8. ASSUME NEW n \in Nodes, n # 1
      PROVE  g[n] = IF g[n - 1] = NoThread THEN NoThread ELSE list.next[g[n - 1]]
  <2>1. n \in Nat /\ n >= 1 /\ n - 1 \in Nodes /\ n - 1 \in Nat /\ n - 1 >= 1
    BY <1>4, <1>8
  <2>2. CASE n - 1 <= Len(q)
    <3>1. n - 1 \in 1 .. Len(q) /\ g[n - 1] = q[n - 1] /\ q[n - 1] \in Threads
      BY <1>1, <1>6, <2>1, <2>2
    <3>2. list.next[q[n - 1]] = IF n - 1 = Len(q) THEN NoThread ELSE q[n - 1 + 1]
      BY <3>1 DEF Lists
    <3>3. g[n] = IF n - 1 = Len(q) THEN NoThread ELSE q[n]
      BY <1>1, <1>6, <2>1, <2>2
    <3>4. n - 1 + 1 = n
      BY <2>1
    <3> QED
      BY <1>2, <3>1, <3>2, <3>3, <3>4
  <2>3. CASE ~ (n - 1 <= Len(q))
    <3>1. ~ (n <= Len(q))
      BY <1>1, <2>1, <2>3
    <3> QED
      BY <1>6, <2>1, <2>3, <3>1
  <2> QED
    BY <2>2, <2>3
<1>9. Follows(g)
  <2>1. \A n \in Nodes : g[n] = IF n = 1 THEN list.first
                                ELSE IF g[n - 1] = NoThread THEN NoThread
                                ELSE list.next[g[n - 1]]
    BY <1>7, <1>8
  <2>2. g = [n \in Nodes |-> g[n]]
    BY DEF NodesOf
  <2> HIDE DEF g
  <2> QED
    BY <2>1, <2>2 DEF Follows
<1>10. ASSUME NEW at, Follows(at) PROVE at = g
  <2>1. /\ at[1] = list.first
        /\ \A n \in Nodes : n # 1 =>
             at[n] = IF at[n - 1] = NoThread THEN NoThread ELSE list.next[at[n - 1]]
        /\ at = [n \in Nodes |-> at[n]]
    BY <1>4, <1>10 DEF Follows
  <2> DEFINE S == {n \in Nat : n + 1 \in Nodes => at[n + 1] = g[n + 1]}
  <2> HIDE DEF g
  <2>2. 0 \in S
    BY <1>7, <2>1
  <2>3. ASSUME NEW n \in Nat, n \in S PROVE n + 1 \in S
    <3> SUFFICES ASSUME n + 1 + 1 \in Nodes PROVE at[n + 1 + 1] = g[n + 1 + 1]
      OBVIOUS
    <3>1. n + 1 + 1 # 1 /\ (n + 1 + 1) - 1 = n + 1 /\ n + 1 \in Nodes
      <4> HIDE DEF S
      <4>1. n + 1 + 1 # 1 /\ (n + 1 + 1) - 1 = n + 1
        OBVIOUS
      <4> QED
        BY <1>4, <4>1
    <3>2. at[n + 1] = g[n + 1]
      BY <2>3, <3>1
    <3> QED
      BY <1>8, <2>1, <3>1, <3>2
  <2>4. \A n \in Nat : n \in S => n + 1 \in S
    BY <2>3
  <2> HIDE DEF S
  <2>5. Nat \subseteq S
    BY <2>2, <2>4, SetInduction
  <2>6. \A n \in Nodes : at[n] = g[n]
    <3> SUFFICES ASSUME NEW n \in Nodes PROVE at[n] = g[n]
      OBVIOUS
    <3>1. n - 1 \in Nat /\ (n - 1) + 1 = n
      BY <1>4
    <3>2. n - 1 \in S
      BY <2>5, <3>1
    <3> QED
      BY <3>1, <3>2 DEF S
  <2> QED
    BY <1>6, <2>1, <2>6 DEF NodesOf, g
<1>11. RQ!Node = CHOOSE at : Follows(at)
  BY SameCardinality DEF RQ!Node, Follows, Nodes
<1> QED
  BY <1>9, <1>10, <1>11

\* The nodes met, and the sequence they stand for.
LEMMA ListsQueue ==
  \A q : Lists(list, q) => RQ!Queued = In(q) /\ RQ!AbsQueue = q
<1> SUFFICES ASSUME NEW q, Lists(list, q) PROVE RQ!Queued = In(q) /\ RQ!AbsQueue = q
  OBVIOUS
<1>1. q \in Seq(Threads) /\ Len(q) \in Nat /\ \A i \in 1 .. Len(q) : q[i] \in Threads
  BY DEF Lists
<1>2. NoThread \notin Threads
  BY KillAssumption
<1>3. Len(q) <= Cardinality(Threads) /\ Cardinality(Threads) \in Nat
  BY <1>1, FiniteThreads, ListIsShort DEF Lists
<1>4. RQ!Node = NodesOf(q)
  BY NodeIs
<1>5. /\ DOMAIN RQ!Node = Nodes
      /\ \A n \in Nodes : RQ!Node[n] = IF n <= Len(q) THEN q[n] ELSE NoThread
  BY <1>4 DEF NodesOf
<1>6. 1 .. Len(q) \subseteq Nodes /\ \A n \in Nodes : n <= Len(q) => n \in 1 .. Len(q)
  BY <1>1, <1>3 DEF Nodes
<1>7. RQ!Queued = In(q)
  BY <1>1, <1>2, <1>5, <1>6 DEF RQ!Queued, In
<1>8. {n \in DOMAIN RQ!Node : RQ!Node[n] # NoThread} = 1 .. Len(q)
  <2>1. ASSUME NEW n \in Nodes PROVE RQ!Node[n] # NoThread <=> n \in 1 .. Len(q)
    BY <1>1, <1>2, <1>5, <1>6
  <2> QED
    BY <1>5, <1>6, <2>1
<1>9. Cardinality(1 .. Len(q)) = Len(q)
  <2>1. Len(q) \in Int /\ 1 \in Int /\ (1 > Len(q) => Len(q) = 0) /\ Len(q) - 1 + 1 = Len(q)
    BY <1>1
  <2>2. Cardinality(1 .. Len(q)) = IF 1 > Len(q) THEN 0 ELSE Len(q) - 1 + 1
    BY <2>1, FS_Interval
  <2> QED
    BY <2>1, <2>2
<1>10. RQ!AbsQueue = SubSeq(RQ!Node, 1, Len(q))
  BY <1>8, <1>9, SameCardinality DEF RQ!AbsQueue
<1>11. SubSeq(RQ!Node, 1, Len(q)) = [i \in 1 .. Len(q) |-> RQ!Node[i]]
  BY <1>1
<1>12. [i \in 1 .. Len(q) |-> RQ!Node[i]] = [i \in 1 .. Len(q) |-> q[i]]
  BY <1>1, <1>5, <1>6
<1>13. q = [i \in 1 .. Len(q) |-> q[i]]
  BY <1>1
<1> QED
  BY <1>7, <1>10, <1>11, <1>12, <1>13

-----------------------------------------------------------------------------
(***************************************************************************)
(* The list implements the queue.                                          *)
(***************************************************************************)

ListInv == \E q : Lists(list, q)

\* The list of the next state as well.
LEMMA ListsQueueNext ==
  (\A q : Lists(list, q) => RQ!Queued = In(q) /\ RQ!AbsQueue = q)'
BY ListsQueue, PTL

\* Every step of the list is the step of the sequence, and leaves a list.
LEMMA ListStep ==
  ASSUME ListInv, RQ!Next
  PROVE  ListInv' /\ RQ!Abstract!Next
<1>1. PICK q : Lists(list, q)
  BY DEF ListInv
<1>2. RQ!Queued = In(q) /\ RQ!AbsQueue = q
  BY <1>1, ListsQueue
<1>3. q \in Seq(Threads)
  BY <1>1 DEF Lists
<1>4. RQ!Abstract!Range(q) = In(q)
  BY <1>3 DEF RQ!Abstract!Range, In
<1>5. ASSUME NEW r, Lists(list', r) PROVE ListInv' /\ RQ!AbsQueue' = r
  <2>1. Lists(list, r)'
    BY <1>5
  <2> QED
    BY <2>1, ListsQueueNext DEF ListInv
<1>6. ASSUME NEW t \in Threads, NEW b \in BOOLEAN, RQ!Enqueue(t, b)
      PROVE  ListInv' /\ RQ!Abstract!Next
  <2>1. t \notin In(q) /\ list' = RQ!enqueue_thread(list, t, b)
    BY <1>2, <1>6 DEF RQ!Enqueue
  <2>2. Lists(list', IF b THEN Append(q, t) ELSE <<t>> \o q)
    BY <1>1, <2>1, EnqueueLists
  <2>3. ListInv' /\ RQ!AbsQueue' = IF b THEN Append(q, t) ELSE <<t>> \o q
    BY <1>5, <2>2
  <2>4. RQ!Abstract!EnqueueFirst(t) \/ RQ!Abstract!EnqueueLast(t)
    BY <1>2, <1>4, <2>1, <2>3 DEF RQ!Abstract!EnqueueFirst, RQ!Abstract!EnqueueLast
  <2> QED
    BY <2>3, <2>4 DEF RQ!Abstract!Next
<1>7. CASE RQ!Dequeue
  <2>1. list.first # NoThread /\ list' = RQ!dequeue_thread(list)
    BY <1>7 DEF RQ!Dequeue
  <2>2. q # <<>>
    BY <1>1, <2>1 DEF Lists
  <2>3. Lists(list', Tail(q))
    BY <1>1, <2>1, <2>2, DequeueLists
  <2>4. ListInv' /\ RQ!AbsQueue' = Tail(q)
    BY <1>5, <2>3
  <2>5. RQ!Abstract!Dequeue
    BY <1>2, <2>2, <2>4 DEF RQ!Abstract!Dequeue
  <2> QED
    BY <2>4, <2>5 DEF RQ!Abstract!Next
<1> QED
  BY <1>6, <1>7 DEF RQ!Next

\* The pointers of the run queue (thread.c) implement the sequence of distinct
\* threads that the scheduler uses: the list ends, holds no thread twice, and
\* enqueue_thread() and dequeue_thread() do to it what they do to the sequence.
THEOREM ListIsQueue == RQ!Spec => RQ!Abstract!Spec
<1>1. ASSUME RQ!Init PROVE ListInv /\ RQ!Abstract!Init
  <2>1. Lists(list, <<>>)
    BY <1>1, EmptyLists DEF RQ!Init
  <2>2. RQ!AbsQueue = <<>>
    BY <2>1, ListsQueue
  <2> QED
    BY <2>1, <2>2 DEF ListInv, RQ!Abstract!Init
<1>2. ASSUME ListInv, [RQ!Next]_list PROVE ListInv' /\ [RQ!Abstract!Next]_(RQ!AbsQueue)
  <2>1. CASE RQ!Next
    BY <1>2, <2>1, ListStep
  <2>2. CASE UNCHANGED list
    <3>1. ListInv'
      BY <1>2, <2>2 DEF ListInv
    <3>2. UNCHANGED RQ!AbsQueue
      BY <2>2 DEF RQ!AbsQueue, RQ!Node
    <3> QED
      BY <3>1, <3>2
  <2> QED
    BY <1>2, <2>1, <2>2
<1> QED
  BY <1>1, <1>2, PTL DEF RQ!Spec, RQ!Abstract!Spec

-----------------------------------------------------------------------------
(***************************************************************************)
(* kill_thread().                                                          *)
(***************************************************************************)

UserPcs == {"run", "asleep", "exit_push", "exit_yield", "exited", "gone"}
Linking == {"kill_link", "kill_store", "kill_store_only"}
KillerPcs == {"run", "kill_test", "kill_set", "kill_yield"} \cup Linking

Running(st) == {t \in Threads : st[t] = "RUNNING"}

\* The thread that kill_thread() is about to link.
Unlinked == IF pc[Killer] \in Linking THEN {victim} ELSE {}

KillTypes ==
  /\ current \in Threads \cup {NoThread}
  /\ state \in [Threads -> {"RUNNING", "PAUSED", "FINISHED", "UNUSED"}]
  /\ critical_level \in [Threads -> {CL_USER, CL_NOSWITCH, CL_NOINT}]
  /\ pc \in [Threads -> UserPcs \cup KillerPcs]
  /\ waiting \subseteq Users /\ to_kill \subseteq Users

\* The list is one, of the threads that wait for the processor.
KillList ==
  \E q : Lists(list, q) /\ In(q) = Running(state) \ ({current} \cup Unlinked)

CurrentOK ==
  current # NoThread => state[current] = "RUNNING" \/ pc[current] = "exit_yield"

\* What the place of a thread says of its state.
UsersOK == \A t \in Users :
  /\ pc[t] \in UserPcs
  /\ pc[t] \in {"run", "exit_push"} => state[t] = "RUNNING"
  /\ pc[t] = "asleep" => state[t] \in {"RUNNING", "PAUSED"}
  /\ pc[t] \in {"exit_yield", "exited"} => state[t] = "FINISHED"
  /\ pc[t] = "gone" => state[t] = "UNUSED"

\* From its test to the end of the links kill_thread() is not interrupted, and
\* the victim is as the test found it, or as kill_thread() made it.
KillerOK ==
  /\ pc[Killer] \in KillerPcs
  /\ state[Killer] = "RUNNING"
  /\ pc[Killer] # "run" => victim \in Users /\ critical_level[Killer] = CL_NOSWITCH
  /\ Window => current = Killer
  /\ pc[Killer] = "kill_set" => state[victim] = "PAUSED"
  /\ pc[Killer] \in Linking => state[victim] = "RUNNING"
  /\ pc[Killer] = "kill_store" =>
       list.first # NoThread /\ list.next[victim] = list.first
  /\ pc[Killer] = "kill_store_only" => list.first = NoThread

KillInv == KillTypes /\ KillList /\ CurrentOK /\ UsersOK /\ KillerOK

\* The killer is not one of its victims, and the null pointer no thread.
LEMMA Names ==
  /\ Killer \in Threads /\ Killer \notin Users /\ NoThread \notin Threads
  /\ \A t \in Users : t \in Threads /\ t # Killer
  /\ \A t \in Threads : t = Killer \/ t \in Users
BY KillAssumption DEF Threads

\* What run_scheduler() makes of the list l when c is on the processor, and
\* what is so after it.
Schedules(c, l, st, d, m) ==
  LET l1 == IF c # NoThread /\ st[c] = "RUNNING"
            THEN RQ!enqueue_thread(l, c, TRUE) ELSE l
  IN  IF l1.first = NoThread
      THEN d = NoThread /\ m = l1
      ELSE d = l1.first /\ m = RQ!dequeue_thread(l1)

Scheduled(st, d, m) ==
  /\ d \in Threads \cup {NoThread}
  /\ d # NoThread => st[d] = "RUNNING"
  /\ \E q : Lists(m, q) /\ In(q) = Running(st) \ {d}

\* The members of the sequences that the list stands for after its operations.
LEMMA InAppend ==
  ASSUME NEW q \in Seq(Threads), NEW t \in Threads
  PROVE  In(Append(q, t)) = In(q) \cup {t} /\ In(<<t>> \o q) = In(q) \cup {t}
<1>1. In(Append(q, t)) = In(q) \cup {t}
  <2> DEFINE r == Append(q, t)
  <2>1. /\ Len(r) = Len(q) + 1 /\ Len(q) \in Nat /\ r[Len(q) + 1] = t
        /\ \A i \in 1 .. Len(q) : r[i] = q[i]
    BY AppendProperties
  <2> HIDE DEF r
  <2>2. \A i \in 1 .. Len(r) : i \in 1 .. Len(q) \/ i = Len(q) + 1
    BY <2>1
  <2>3. 1 .. Len(q) \subseteq 1 .. Len(r) /\ Len(q) + 1 \in 1 .. Len(r)
    BY <2>1
  <2>4. In(r) = In(q) \cup {t}
    BY <2>1, <2>2, <2>3 DEF In
  <2> QED
    BY <2>4 DEF r
<1>2. In(<<t>> \o q) = In(q) \cup {t}
  <2> DEFINE r == <<t>> \o q
  <2>1. /\ Len(r) = Len(q) + 1 /\ r[1] = t
        /\ \A i \in 1 .. Len(q) : r[i + 1] = q[i]
        /\ \A i \in 1 .. Len(r) : i = 1 \/ (i - 1 \in 1 .. Len(q) /\ r[i] = q[i - 1])
    BY Prepended
  <2>2. Len(q) \in Nat
    OBVIOUS
  <2> HIDE DEF r
  <2>3. 1 \in 1 .. Len(r) /\ \A i \in 1 .. Len(q) : i + 1 \in 1 .. Len(r)
    BY <2>1, <2>2
  <2>4. In(r) \subseteq In(q) \cup {t}
    BY <2>1 DEF In
  <2>5. In(q) \cup {t} \subseteq In(r)
    <3>1. ASSUME NEW i \in 1 .. Len(q) PROVE q[i] \in In(r)
      <4>1. i + 1 \in 1 .. Len(r) /\ r[i + 1] = q[i]
        BY <2>1, <2>3
      <4> QED
        BY <4>1 DEF In
    <3>2. t \in In(r)
      BY <2>1, <2>3 DEF In
    <3> QED
      BY <3>1, <3>2 DEF In
  <2>6. In(r) = In(q) \cup {t}
    BY <2>4, <2>5
  <2> QED
    BY <2>6 DEF r
<1> QED
  BY <1>1, <1>2

LEMMA InTail ==
  ASSUME NEW q \in Seq(Threads), q # <<>>, \A i, j \in 1 .. Len(q) : q[i] = q[j] => i = j
  PROVE  In(Tail(q)) = In(q) \ {q[1]} /\ q[1] \in In(q)
<1> DEFINE r == Tail(q)
<1>1. /\ Len(r) = Len(q) - 1 /\ Len(r) \in Nat
      /\ \A i \in 1 .. Len(r) : r[i] = q[i + 1] /\ i + 1 \in 1 .. Len(q)
  BY Rest
<1>2. Len(q) \in Nat /\ 1 \in 1 .. Len(q)
  BY NoLength
<1> HIDE DEF r
<1>3. \A i \in 1 .. Len(r) : q[i + 1] # q[1]
  <2> SUFFICES ASSUME NEW i \in 1 .. Len(r) PROVE q[i + 1] # q[1]
    OBVIOUS
  <2>1. i + 1 \in 1 .. Len(q) /\ i + 1 # 1
    BY <1>1
  <2> QED
    BY <1>2, <2>1
<1>4. In(r) \subseteq In(q) \ {q[1]}
  BY <1>1, <1>3 DEF In
<1>5. ASSUME NEW x \in In(q), x # q[1] PROVE x \in In(r)
  <2>0. PICK i \in 1 .. Len(q) : x = q[i]
    BY DEF In
  <2>1. i # 1
    BY <1>5, <2>0
  <2>2. i - 1 \in 1 .. Len(r) /\ (i - 1) + 1 = i
    BY <1>1, <1>2, <2>1
  <2>3. r[i - 1] = x
    BY <1>1, <2>0, <2>2
  <2> QED
    BY <2>2, <2>3 DEF In
<1>6. In(r) = In(q) \ {q[1]}
  BY <1>4, <1>5
<1> QED
  BY <1>2, <1>6 DEF In, r

\* run_scheduler() puts who runs at the end of the list, and the first of the
\* list on the processor.
LEMMA RunScheduler ==
  ASSUME NEW st, NEW c \in Threads \cup {NoThread}, NEW l, NEW d, NEW m,
         \E q : Lists(l, q) /\ In(q) = Running(st) \ {c},
         Schedules(c, l, st, d, m)
  PROVE  Scheduled(st, d, m)
<1>1. PICK q : Lists(l, q) /\ In(q) = Running(st) \ {c}
  OBVIOUS
<1>2. q \in Seq(Threads)
  BY <1>1 DEF Lists
<1>3. PICK l1 : l1 = IF c # NoThread /\ st[c] = "RUNNING"
                     THEN RQ!enqueue_thread(l, c, TRUE) ELSE l
  OBVIOUS
<1>4. IF l1.first = NoThread THEN d = NoThread /\ m = l1
      ELSE d = l1.first /\ m = RQ!dequeue_thread(l1)
  BY <1>3 DEF Schedules
<1>5. PICK p : Lists(l1, p) /\ In(p) = Running(st)
  <2>1. CASE c # NoThread /\ st[c] = "RUNNING"
    <3>1. c \in Running(st) /\ c \in Threads /\ c \notin In(q)
      BY <1>1, <2>1 DEF Running
    <3>2. Lists(l1, Append(q, c))
      BY <1>1, <1>3, <2>1, <3>1, EnqueueLists
    <3>3. In(Append(q, c)) = In(q) \cup {c}
      BY <1>2, <3>1, InAppend
    <3> QED
      BY <1>1, <3>1, <3>2, <3>3
  <2>2. CASE ~ (c # NoThread /\ st[c] = "RUNNING")
    <3>1. c \notin Running(st)
      BY <2>2, Names DEF Running
    <3>2. l1 = l
      BY <1>3, <2>2
    <3> QED
      BY <1>1, <3>1, <3>2
  <2> QED
    BY <2>1, <2>2
<1>6. /\ p \in Seq(Threads) /\ \A i, j \in 1 .. Len(p) : p[i] = p[j] => i = j
      /\ IF p = <<>> THEN l1.first = NoThread ELSE l1.first = p[1]
  BY <1>5 DEF Lists
<1>7. CASE p = <<>>
  <2>1. d = NoThread /\ m = l1
    BY <1>4, <1>6, <1>7
  <2>2. NoThread \notin Running(st)
    BY Names DEF Running
  <2> QED
    BY <1>5, <2>1, <2>2 DEF Scheduled
<1>8. CASE p # <<>>
  <2>1. p[1] \in In(p) /\ In(Tail(p)) = In(p) \ {p[1]}
    BY <1>6, <1>8, InTail
  <2>2. p[1] \in Threads /\ st[p[1]] = "RUNNING"
    BY <1>5, <2>1 DEF Running
  <2>3. d = p[1] /\ m = RQ!dequeue_thread(l1)
    BY <1>4, <1>6, <1>8, <2>2, Names
  <2>4. Lists(m, Tail(p))
    BY <1>5, <1>8, <2>3, DequeueLists
  <2> QED
    BY <1>5, <2>1, <2>2, <2>3, <2>4 DEF Scheduled
<1> QED
  BY <1>7, <1>8

\* The link of a thread that is not on the list is free.
LEMMA LinkLists ==
  ASSUME NEW l, NEW q, Lists(l, q), NEW t \in Threads, t \notin In(q),
         NEW x \in Threads \cup {NoThread}
  PROVE  Lists([l EXCEPT !.next[t] = x], q)
<1> DEFINE e == [l EXCEPT !.next[t] = x]
           Refs == Threads \cup {NoThread}
<1> SUFFICES Lists(e, q)
  OBVIOUS
<1>1. /\ l.first \in Refs /\ l.last \in Refs /\ l.next \in [Threads -> Refs]
      /\ l = [first |-> l.first, last |-> l.last, next |-> l.next]
  BY DEF Lists
<1>2. /\ e.first = l.first /\ e.last = l.last /\ e.next = [l.next EXCEPT ![t] = x]
      /\ e = [first |-> e.first, last |-> e.last, next |-> e.next]
  BY <1>1
<1>3. e.next \in [Threads -> Refs] /\ \A u \in Threads : u # t => e.next[u] = l.next[u]
  BY <1>1, <1>2
<1>4. e \in [first : Refs, last : Refs, next : [Threads -> Refs]]
  BY <1>1, <1>2, <1>3
<1>5. \A i \in 1 .. Len(q) : q[i] \in Threads /\ q[i] # t
  BY DEF Lists, In
<1> HIDE DEF e
<1> QED
  BY <1>2, <1>3, <1>4, <1>5 DEF Lists

-----------------------------------------------------------------------------
(***************************************************************************)
(* The invariant of kill_thread().                                         *)
(***************************************************************************)

LEMMA KillInit == Init => KillInv
<1> SUFFICES ASSUME Init PROVE KillInv
  OBVIOUS
<1>1. PICK u \in Users : list = RQ!enqueue_thread(RQ!EmptyList, u, TRUE)
  BY DEF Init
<1>2. u \in Threads /\ u # Killer /\ Killer \in Threads /\ Killer \notin Users
  BY Names
<1>3. Lists(list, Append(<<>>, u))
  <2>1. Lists(RQ!EmptyList, <<>>) /\ u \notin In(<<>>)
    BY EmptyLists DEF In
  <2> QED
    BY <1>1, <1>2, <2>1, EnqueueLists
<1>4. In(Append(<<>>, u)) = {u}
  <2>1. <<>> \in Seq(Threads) /\ In(<<>>) = {}
    BY DEF In
  <2> QED
    BY <1>2, <2>1, InAppend
<1>5. list.first = u
  BY <1>1 DEF RQ!enqueue_thread, RQ!EmptyList
<1>6. \A t \in Threads : state[t] = IF t \in {Killer, u} THEN "RUNNING" ELSE "PAUSED"
  BY <1>5 DEF Init
<1>7. /\ current = Killer /\ waiting = {t \in Users : state[t] = "PAUSED"}
      /\ pc = [t \in Threads |-> IF t \in waiting THEN "asleep" ELSE "run"]
      /\ pc[Killer] = "run"
  BY <1>2 DEF Init
<1>8. KillTypes
  BY <1>2, <1>5, <1>7 DEF KillTypes, Init, UserPcs, KillerPcs, CL_USER, CL_NOSWITCH, CL_NOINT
<1>9. KillList
  <2>1. Unlinked = {}
    BY <1>7 DEF Unlinked, Linking
  <2>2. Running(state) = {Killer, u}
    BY <1>2, <1>6 DEF Running
  <2> QED
    BY <1>2, <1>3, <1>4, <1>7, <2>1, <2>2 DEF KillList
<1>10. CurrentOK
  BY <1>2, <1>6, <1>7 DEF CurrentOK
<1>11. UsersOK
  <2> SUFFICES ASSUME NEW t \in Users
               PROVE  \/ pc[t] = "run" /\ state[t] = "RUNNING"
                      \/ pc[t] = "asleep" /\ state[t] = "PAUSED"
    BY DEF UsersOK, UserPcs
  <2>1. t \in Threads /\ t # Killer
    BY Names
  <2> QED
    BY <1>6, <1>7, <2>1
<1>12. KillerOK
  BY <1>2, <1>6, <1>7 DEF KillerOK, KillerPcs, Window, Linking
<1> QED
  BY <1>8, <1>9, <1>10, <1>11, <1>12 DEF KillInv

\* Who is on the processor is not waiting on the list; nobody is linked but by
\* the killer.
LEMMA OffTheWindow ==
  ASSUME KillInv, ~ Window
  PROVE  /\ Unlinked = {}
         /\ \E q : Lists(list, q) /\ In(q) = Running(state) \ {current}
BY DEF KillInv, KillList, Unlinked, Window, Linking

LEMMA OffTheWindowUser ==
  ASSUME KillInv, NEW t \in Users, current = t
  PROVE  ~ Window /\ t \in Threads /\ t # Killer
BY Names DEF KillInv, KillerOK

\* The list after a step that leaves it, the states and the processor alone.
LEMMA ListStays ==
  ASSUME KillInv, UNCHANGED <<list, state, current>>, Unlinked' = Unlinked
  PROVE  KillList'
BY DEF KillInv, KillList, Running

\* The list and the processor after run_scheduler().
LEMMA ListScheduled ==
  ASSUME Scheduled(state', current', list'), Unlinked' = {}
  PROVE  KillList' /\ CurrentOK' /\ current' \in Threads \cup {NoThread}
BY DEF Scheduled, KillList, CurrentOK, Running

\* A thread of the process leaves the killer alone.
LEMMA KillerStays ==
  ASSUME KillInv, ~ Window, UNCHANGED victim,
         pc'[Killer] = pc[Killer], state'[Killer] = state[Killer],
         critical_level'[Killer] = critical_level[Killer]
  PROVE  KillerOK' /\ Unlinked' = {}
BY DEF KillInv, KillerOK, Window, Linking, Unlinked

\* A step of one thread of the process.
LEMMA UserMoves ==
  ASSUME KillInv, NEW t \in Users, NEW p \in UserPcs, NEW s,
         pc' = Set(pc, t, p), state' = Set(state, t, s),
         p \in {"run", "exit_push"} => s = "RUNNING",
         p = "asleep" => s \in {"RUNNING", "PAUSED"},
         p \in {"exit_yield", "exited"} => s = "FINISHED",
         p = "gone" => s = "UNUSED"
  PROVE  UsersOK' /\ pc'[Killer] = pc[Killer] /\ state'[Killer] = state[Killer]
<1>1. t # Killer /\ Killer \in Threads /\ t \in Threads /\ \A u \in Users : u \in Threads
  BY Names
<1>2. /\ pc \in [Threads -> UserPcs \cup KillerPcs]
      /\ state \in [Threads -> {"RUNNING", "PAUSED", "FINISHED", "UNUSED"}]
  BY DEF KillInv, KillTypes
<1>3. /\ pc'[t] = p /\ state'[t] = s
      /\ \A u \in Threads : u # t => pc'[u] = pc[u] /\ state'[u] = state[u]
  BY <1>1, <1>2 DEF Set
<1>4. UsersOK
  BY DEF KillInv
<1>5. ASSUME NEW u \in Users
      PROVE  /\ pc'[u] \in UserPcs
             /\ pc'[u] \in {"run", "exit_push"} => state'[u] = "RUNNING"
             /\ pc'[u] = "asleep" => state'[u] \in {"RUNNING", "PAUSED"}
             /\ pc'[u] \in {"exit_yield", "exited"} => state'[u] = "FINISHED"
             /\ pc'[u] = "gone" => state'[u] = "UNUSED"
  <2>1. CASE u = t
    BY <1>3, <2>1
  <2>2. CASE u # t
    <3>1. pc'[u] = pc[u] /\ state'[u] = state[u]
      BY <1>1, <1>3, <2>2
    <3> QED
      BY <1>4, <3>1 DEF UsersOK
  <2> QED
    BY <2>1, <2>2
<1>6. UsersOK'
  BY <1>5 DEF UsersOK
<1> QED
  BY <1>1, <1>3, <1>6

-----------------------------------------------------------------------------
(* The steps of the threads of the process. *)

LEMMA WaitOnStep ==
  ASSUME KillInv, NEW t \in Users, wait_on(t)
  PROVE  KillInv'
<1>1. /\ current = t /\ pc[t] = "run"
      /\ critical_level' = Set(critical_level, t, CL_NOINT) /\ waiting' = waiting \cup {t}
      /\ state' = Set(state, t, "PAUSED") /\ pc' = Set(pc, t, "asleep")
      /\ run_scheduler(list, state') /\ UNCHANGED <<must_exit, victim, to_kill>>
  BY DEF wait_on, At
<1>2. ~ Window /\ t \in Threads /\ t # Killer
  BY <1>1, OffTheWindowUser
<1>3. UsersOK' /\ pc'[Killer] = pc[Killer] /\ state'[Killer] = state[Killer]
  BY <1>1, UserMoves DEF UserPcs
<1>4. KillTypes
  BY DEF KillInv
<1>5. critical_level'[Killer] = critical_level[Killer]
  BY <1>1, <1>2, <1>4, Names DEF KillTypes, Set
<1>6. KillerOK' /\ Unlinked' = {}
  BY <1>1, <1>2, <1>3, <1>5, KillerStays
<1>7. Running(state') = Running(state) \ {t}
  BY <1>1, <1>2, <1>4 DEF Running, KillTypes, Set
<1>8. \E q : Lists(list, q) /\ In(q) = Running(state') \ {current}
  BY <1>1, <1>2, <1>7, OffTheWindow
<1>9. Schedules(current, list, state', current', list')
  BY <1>1 DEF run_scheduler, Schedules
<1>10. current \in Threads \cup {NoThread}
  BY <1>1, <1>2
<1>11. Scheduled(state', current', list')
  BY <1>8, <1>9, <1>10, RunScheduler
<1>12. KillList' /\ CurrentOK' /\ current' \in Threads \cup {NoThread}
  BY <1>6, <1>11, ListScheduled
<1>13. KillTypes'
  BY <1>1, <1>2, <1>4, <1>12 DEF KillTypes, Set, UserPcs
<1> QED
  BY <1>3, <1>6, <1>12, <1>13 DEF KillInv

LEMMA WakeUpStep ==
  ASSUME KillInv, NEW t \in Users, WakeUp(t)
  PROVE  KillInv'
<1>1. /\ current = t /\ pc[t] = "asleep"
      /\ waiting' = waiting \ {t} /\ critical_level' = Set(critical_level, t, CL_USER)
      /\ pc' = Set(pc, t, "run")
      /\ UNCHANGED <<current, list, state, must_exit, victim, to_kill>>
  BY DEF WakeUp, At
<1>2. ~ Window /\ t \in Threads /\ t # Killer
  BY <1>1, OffTheWindowUser
<1>3. KillTypes /\ CurrentOK
  BY DEF KillInv
<1>4. state[t] = "RUNNING"
  BY <1>1, <1>2, <1>3, Names DEF CurrentOK
<1>5. state' = Set(state, t, "RUNNING")
  BY <1>1, <1>2, <1>3, <1>4 DEF KillTypes, Set
<1>6. UsersOK' /\ pc'[Killer] = pc[Killer] /\ state'[Killer] = state[Killer]
  BY <1>1, <1>5, UserMoves DEF UserPcs
<1>7. critical_level'[Killer] = critical_level[Killer]
  BY <1>1, <1>2, <1>3, Names DEF KillTypes, Set
<1>8. KillerOK' /\ Unlinked' = {}
  BY <1>1, <1>2, <1>6, <1>7, KillerStays
<1>9. KillList'
  BY <1>1, <1>2, <1>8, OffTheWindow, ListStays
<1>10. CurrentOK'
  BY <1>1, <1>4 DEF CurrentOK
<1>11. KillTypes'
  BY <1>1, <1>2, <1>3 DEF KillTypes, Set, UserPcs
<1> QED
  BY <1>6, <1>8, <1>9, <1>10, <1>11 DEF KillInv

LEMMA MaybeExitStep ==
  ASSUME KillInv, NEW t \in Users, maybe_exit(t)
  PROVE  KillInv'
<1>1. /\ current = t /\ pc[t] = "run"
      /\ critical_level' = Set(critical_level, t, CL_NOSWITCH)
      /\ pc' = Set(pc, t, "exit_push")
      /\ UNCHANGED <<current, list, state, waiting, must_exit, victim, to_kill>>
  BY DEF maybe_exit, At
<1>2. ~ Window /\ t \in Threads /\ t # Killer
  BY <1>1, OffTheWindowUser
<1>3. KillTypes
  BY DEF KillInv
<1>4. state[t] = "RUNNING"
  BY <1>1 DEF KillInv, UsersOK
<1>5. state' = Set(state, t, "RUNNING")
  BY <1>1, <1>2, <1>3, <1>4 DEF KillTypes, Set
<1>6. UsersOK' /\ pc'[Killer] = pc[Killer] /\ state'[Killer] = state[Killer]
  BY <1>1, <1>5, UserMoves DEF UserPcs
<1>7. critical_level'[Killer] = critical_level[Killer]
  BY <1>1, <1>2, <1>3, Names DEF KillTypes, Set
<1>8. KillerOK' /\ Unlinked' = {}
  BY <1>1, <1>2, <1>6, <1>7, KillerStays
<1>9. KillList'
  BY <1>1, <1>2, <1>8, OffTheWindow, ListStays
<1>10. CurrentOK'
  BY <1>1, <1>4 DEF CurrentOK
<1>11. KillTypes'
  BY <1>1, <1>2, <1>3 DEF KillTypes, Set, UserPcs
<1> QED
  BY <1>6, <1>8, <1>9, <1>10, <1>11 DEF KillInv

LEMMA ExitFinishStep ==
  ASSUME KillInv, NEW t \in Users, ExitFinish(t)
  PROVE  KillInv'
<1>1. /\ current = t /\ pc[t] = "exit_push"
      /\ state' = Set(state, t, "FINISHED")
      /\ critical_level' = Set(critical_level, t, CL_USER)
      /\ pc' = Set(pc, t, "exit_yield")
      /\ UNCHANGED <<current, list, waiting, must_exit, victim, to_kill>>
  BY DEF ExitFinish, At
<1>2. ~ Window /\ t \in Threads /\ t # Killer
  BY <1>1, OffTheWindowUser
<1>3. KillTypes
  BY DEF KillInv
<1>4. UsersOK' /\ pc'[Killer] = pc[Killer] /\ state'[Killer] = state[Killer]
  BY <1>1, UserMoves DEF UserPcs
<1>5. critical_level'[Killer] = critical_level[Killer]
  BY <1>1, <1>2, <1>3, Names DEF KillTypes, Set
<1>6. KillerOK' /\ Unlinked' = {}
  BY <1>1, <1>2, <1>4, <1>5, KillerStays
<1>7. Running(state') = Running(state) \ {t}
  BY <1>1, <1>2, <1>3 DEF Running, KillTypes, Set
<1>8. KillList'
  <2>1. PICK q : Lists(list, q) /\ In(q) = Running(state) \ {current}
    BY <1>2, OffTheWindow
  <2>2. Lists(list', q) /\ In(q) = Running(state') \ ({current'} \cup Unlinked')
    BY <1>1, <1>6, <1>7, <2>1
  <2> QED
    BY <2>2 DEF KillList, Running
<1>9. CurrentOK'
  BY <1>1, <1>2, <1>3 DEF CurrentOK, KillTypes, Set
<1>10. KillTypes'
  BY <1>1, <1>2, <1>3 DEF KillTypes, Set, UserPcs
<1> QED
  BY <1>4, <1>6, <1>8, <1>9, <1>10 DEF KillInv

\* A step that only calls run_scheduler(), and leaves each thread where it was
\* or, of those that have finished, puts one behind its yield().
LEMMA YieldStep ==
  ASSUME KillInv, ~ Window, run_scheduler(list, state), UNCHANGED <<state, victim>>,
         UNCHANGED <<critical_level, waiting, to_kill>>,
         KillerOK', UsersOK', Unlinked' = {}, pc' \in [Threads -> UserPcs \cup KillerPcs]
  PROVE  KillInv'
<1>1. KillTypes
  BY DEF KillInv
<1>2. \E q : Lists(list, q) /\ In(q) = Running(state) \ {current}
  BY OffTheWindow
<1>3. Schedules(current, list, state, current', list')
  BY DEF run_scheduler, Schedules
<1>4. current \in Threads \cup {NoThread}
  BY <1>1 DEF KillTypes
<1>5. Scheduled(state, current', list')
  BY <1>2, <1>3, <1>4, RunScheduler
<1>6. Scheduled(state', current', list')
  BY <1>5
<1>7. KillList' /\ CurrentOK' /\ current' \in Threads \cup {NoThread}
  BY <1>6, ListScheduled
<1>8. KillTypes'
  BY <1>1, <1>7 DEF KillTypes
<1> QED
  BY <1>7, <1>8 DEF KillInv

LEMMA ExitPushBlockedStep ==
  ASSUME KillInv, NEW t \in Users, ExitPushBlocked(t)
  PROVE  KillInv'
<1>1. /\ current = t /\ run_scheduler(list, state)
      /\ UNCHANGED <<state, critical_level, pc, waiting, must_exit, victim, to_kill>>
  BY DEF ExitPushBlocked, At
<1>2. ~ Window
  BY <1>1, OffTheWindowUser
<1>3. KillerOK' /\ Unlinked' = {}
  BY <1>1, <1>2, KillerStays
<1>4. UsersOK' /\ pc' \in [Threads -> UserPcs \cup KillerPcs]
  BY <1>1 DEF KillInv, UsersOK, KillTypes
<1> QED
  BY <1>1, <1>2, <1>3, <1>4, YieldStep

LEMMA ExitYieldStep ==
  ASSUME KillInv, NEW t \in Users, ExitYield(t)
  PROVE  KillInv'
<1>1. /\ current = t /\ pc[t] = "exit_yield" /\ pc' = Set(pc, t, "exited")
      /\ run_scheduler(list, state)
      /\ UNCHANGED <<state, critical_level, waiting, must_exit, victim, to_kill>>
  BY DEF ExitYield, At
<1>2. ~ Window /\ t \in Threads /\ t # Killer
  BY <1>1, OffTheWindowUser
<1>3. KillTypes
  BY DEF KillInv
<1>4. state[t] = "FINISHED"
  BY <1>1 DEF KillInv, UsersOK
<1>5. state' = Set(state, t, "FINISHED")
  BY <1>1, <1>2, <1>3, <1>4 DEF KillTypes, Set
<1>6. UsersOK' /\ pc'[Killer] = pc[Killer]
  BY <1>1, <1>5, UserMoves DEF UserPcs
<1>7. KillerOK' /\ Unlinked' = {}
  BY <1>1, <1>2, <1>6, KillerStays
<1>8. pc' \in [Threads -> UserPcs \cup KillerPcs]
  BY <1>1, <1>2, <1>3 DEF KillTypes, Set, UserPcs
<1> QED
  BY <1>1, <1>2, <1>6, <1>7, <1>8, YieldStep

-----------------------------------------------------------------------------
(* The steps of the killer. *)

\* A step of the killer changes no thread of the process.
LEMMA KillerMoves ==
  ASSUME KillInv, NEW p \in KillerPcs, pc' = Set(pc, Killer, p),
         UNCHANGED <<state, current>>
  PROVE  /\ UsersOK' /\ CurrentOK'
         /\ pc'[Killer] = p /\ pc' \in [Threads -> UserPcs \cup KillerPcs]
<1>1. Killer \in Threads /\ \A u \in Users : u \in Threads /\ u # Killer
  BY Names
<1>2. pc \in [Threads -> UserPcs \cup KillerPcs] /\ current \in Threads \cup {NoThread}
  BY DEF KillInv, KillTypes
<1>3. /\ pc'[Killer] = p /\ pc' \in [Threads -> UserPcs \cup KillerPcs]
      /\ \A u \in Threads : u # Killer => pc'[u] = pc[u]
  BY <1>1, <1>2 DEF Set
<1>4. \A u \in Users : pc'[u] = pc[u] /\ state'[u] = state[u]
  BY <1>1, <1>3
<1>5. UsersOK'
  BY <1>4 DEF KillInv, UsersOK
<1>6. CurrentOK'
  BY <1>2, <1>3 DEF KillInv, CurrentOK, KillerOK
<1> QED
  BY <1>3, <1>5, <1>6

LEMMA KillThreadStep ==
  ASSUME KillInv, kill_thread
  PROVE  KillInv'
<1>1. PICK u \in to_kill : victim' = u /\ to_kill' = to_kill \ {u}
  BY DEF kill_thread
<1>2. /\ current = Killer /\ pc[Killer] = "run"
      /\ critical_level' = Set(critical_level, Killer, CL_NOSWITCH)
      /\ pc' = Set(pc, Killer, "kill_test")
      /\ UNCHANGED <<current, list, state, waiting>>
  BY DEF kill_thread, At
<1>3. KillTypes /\ KillerOK
  BY DEF KillInv
<1>4. UsersOK' /\ CurrentOK' /\ pc'[Killer] = "kill_test" /\ pc' \in [Threads -> UserPcs \cup KillerPcs]
  BY <1>2, KillerMoves DEF KillerPcs
<1>5. KillList'
  <2>1. Unlinked' = Unlinked
    BY <1>2, <1>4 DEF Unlinked, Linking
  <2> QED
    BY <1>2, <2>1, ListStays
<1>6. KillerOK'
  <2>1. u \in Users /\ critical_level'[Killer] = CL_NOSWITCH
    BY <1>1, <1>2, <1>3, Names DEF KillTypes, Set
  <2> QED
    BY <1>1, <1>2, <1>3, <1>4, <2>1 DEF KillerOK, KillerPcs, Linking, Window
<1>7. KillTypes'
  BY <1>1, <1>2, <1>3, <1>4 DEF KillTypes, Set
<1> QED
  BY <1>4, <1>5, <1>6, <1>7 DEF KillInv

LEMMA KillTestStep ==
  ASSUME KillInv, KillTest
  PROVE  KillInv'
<1>1. PICK p : p = IF state[victim] = "PAUSED" THEN "kill_set" ELSE "kill_yield"
  OBVIOUS
<1>2. /\ current = Killer /\ pc[Killer] = "kill_test" /\ pc' = Set(pc, Killer, p)
      /\ UNCHANGED <<current, list, state, critical_level, waiting, must_exit,
                     victim, to_kill>>
  BY <1>1 DEF KillTest, At
<1>3. KillTypes /\ KillerOK
  BY DEF KillInv
<1>4. UsersOK' /\ CurrentOK' /\ pc'[Killer] = p /\ pc' \in [Threads -> UserPcs \cup KillerPcs]
  BY <1>1, <1>2, KillerMoves DEF KillerPcs
<1>5. KillList'
  <2>1. Unlinked' = Unlinked
    BY <1>1, <1>2, <1>4 DEF Unlinked, Linking
  <2> QED
    BY <1>2, <2>1, ListStays
<1>6. KillerOK'
  BY <1>1, <1>2, <1>3, <1>4 DEF KillerOK, KillerPcs, Linking, Window
<1>7. KillTypes'
  BY <1>2, <1>3, <1>4 DEF KillTypes
<1> QED
  BY <1>4, <1>5, <1>6, <1>7 DEF KillInv

\* The victim is runnable, and not linked yet.
LEMMA KillSetStep ==
  ASSUME KillInv, KillSet
  PROVE  KillInv'
<1>1. /\ current = Killer /\ pc[Killer] = "kill_set"
      /\ state' = Set(state, victim, "RUNNING") /\ pc' = Set(pc, Killer, "kill_link")
      /\ UNCHANGED <<current, list, critical_level, waiting, must_exit, victim, to_kill>>
  BY DEF KillSet, At
<1>2. KillTypes /\ KillerOK /\ UsersOK
  BY DEF KillInv
<1>3. victim \in Users /\ victim \in Threads /\ victim # Killer /\ state[victim] = "PAUSED"
  BY <1>1, <1>2, Names DEF KillerOK
<1>4. /\ pc'[Killer] = "kill_link" /\ pc' \in [Threads -> UserPcs \cup KillerPcs]
      /\ \A u \in Threads : u # Killer => pc'[u] = pc[u]
  BY <1>1, <1>2, Names DEF KillTypes, Set, KillerPcs, Linking
<1>5. /\ state'[victim] = "RUNNING" /\ state'[Killer] = "RUNNING"
      /\ state' \in [Threads -> {"RUNNING", "PAUSED", "FINISHED", "UNUSED"}]
      /\ \A u \in Threads : u # victim => state'[u] = state[u]
  BY <1>1, <1>2, <1>3, Names DEF KillTypes, KillerOK, Set
<1>6. KillList'
  <2>1. Unlinked = {} /\ Unlinked' = {victim}
    BY <1>1, <1>4 DEF Unlinked, Linking
  <2>2. PICK q : Lists(list, q) /\ In(q) = Running(state) \ {current}
    BY <2>1 DEF KillInv, KillList
  <2>3. Running(state') = Running(state) \cup {victim} /\ victim \notin Running(state)
    BY <1>3, <1>5 DEF Running
  <2>4. Lists(list', q) /\ In(q) = Running(state') \ ({current'} \cup Unlinked')
    BY <1>1, <2>1, <2>2, <2>3
  <2> QED
    BY <2>4 DEF KillList, Running
<1>7. UsersOK'
  <2>1. \A t \in Users : t \in Threads /\ t # Killer
    BY Names
  <2>2. pc[victim] = "asleep"
    BY <1>2, <1>3 DEF UsersOK, UserPcs
  <2>3. ASSUME NEW t \in Users
        PROVE  /\ pc'[t] \in UserPcs
               /\ pc'[t] \in {"run", "exit_push"} => state'[t] = "RUNNING"
               /\ pc'[t] = "asleep" => state'[t] \in {"RUNNING", "PAUSED"}
               /\ pc'[t] \in {"exit_yield", "exited"} => state'[t] = "FINISHED"
               /\ pc'[t] = "gone" => state'[t] = "UNUSED"
    <3>1. pc'[t] = pc[t] /\ (t = victim \/ state'[t] = state[t])
      BY <1>4, <1>5, <2>1
    <3>2. CASE t = victim
      BY <1>5, <2>2, <3>1, <3>2 DEF UserPcs
    <3>3. CASE state'[t] = state[t]
      BY <1>2, <3>1, <3>3 DEF UsersOK
    <3> QED
      BY <3>1, <3>2, <3>3
  <2> QED
    BY <2>3 DEF UsersOK
<1>8. KillerOK'
  BY <1>1, <1>2, <1>3, <1>4, <1>5 DEF KillerOK, KillerPcs, Linking, Window
<1>9. CurrentOK'
  BY <1>1, <1>5 DEF CurrentOK
<1>10. KillTypes'
  BY <1>1, <1>2, <1>4, <1>5 DEF KillTypes
<1> QED
  BY <1>6, <1>7, <1>8, <1>9, <1>10 DEF KillInv

LEMMA KillLinkStep ==
  ASSUME KillInv, KillLink
  PROVE  KillInv'
<1>1. PICK p : p = IF list.first = NoThread THEN "kill_store_only" ELSE "kill_store"
  OBVIOUS
<1>2. /\ current = Killer /\ pc[Killer] = "kill_link" /\ pc' = Set(pc, Killer, p)
      /\ list' = IF list.first = NoThread THEN list
                 ELSE [list EXCEPT !.next[victim] = list.first]
      /\ UNCHANGED <<current, state, critical_level, waiting, must_exit, victim, to_kill>>
  BY <1>1 DEF KillLink, At
<1>3. KillTypes /\ KillerOK
  BY DEF KillInv
<1>4. UsersOK' /\ CurrentOK' /\ pc'[Killer] = p /\ pc' \in [Threads -> UserPcs \cup KillerPcs]
  BY <1>1, <1>2, KillerMoves DEF KillerPcs, Linking
<1>5. victim \in Threads
  BY <1>2, <1>3, Names DEF KillerOK
<1>6. Unlinked = {victim} /\ Unlinked' = {victim}
  BY <1>1, <1>2, <1>4 DEF Unlinked, Linking
<1>7. PICK q : Lists(list, q) /\ In(q) = Running(state) \ ({current} \cup Unlinked)
  BY DEF KillInv, KillList
<1>8. victim \notin In(q)
  BY <1>6, <1>7
<1>9. /\ list.first \in Threads \cup {NoThread} /\ list.next \in [Threads -> Threads \cup {NoThread}]
      /\ list = [first |-> list.first, last |-> list.last, next |-> list.next]
  BY <1>7 DEF Lists
<1>10. Lists(list', q)
  <2>1. Lists([list EXCEPT !.next[victim] = list.first], q)
    BY <1>5, <1>7, <1>8, <1>9, LinkLists
  <2> QED
    BY <1>2, <1>7, <2>1
<1>11. KillList'
  <2>1. Lists(list', q) /\ In(q) = Running(state') \ ({current'} \cup Unlinked')
    BY <1>2, <1>6, <1>7, <1>10
  <2> QED
    BY <2>1 DEF KillList, Running
<1>12. /\ list'.first = list.first
       /\ list.first # NoThread => list'.next[victim] = list'.first
  BY <1>2, <1>5, <1>9
<1>13. KillerOK'
  BY <1>1, <1>2, <1>3, <1>4, <1>12 DEF KillerOK, KillerPcs, Linking, Window
<1>14. KillTypes'
  BY <1>2, <1>3, <1>4 DEF KillTypes
<1> QED
  BY <1>4, <1>11, <1>13, <1>14 DEF KillInv

\* The stores of kill_thread() end in the list that enqueue_thread() makes.
LEMMA LinkedStep ==
  ASSUME KillInv, current = Killer, pc[Killer] \in Linking,
         list' = RQ!enqueue_thread(list, victim, FALSE),
         pc' = Set(pc, Killer, "kill_yield"),
         UNCHANGED <<current, state, critical_level, waiting, victim, to_kill>>
  PROVE  KillInv'
<1>1. KillTypes /\ KillerOK
  BY DEF KillInv
<1>2. UsersOK' /\ CurrentOK' /\ pc'[Killer] = "kill_yield" /\ pc' \in [Threads -> UserPcs \cup KillerPcs]
  BY KillerMoves DEF KillerPcs
<1>3. victim \in Threads /\ victim # Killer /\ state[victim] = "RUNNING"
  BY <1>1, Names DEF KillerOK, Linking
<1>4. Unlinked = {victim} /\ Unlinked' = {}
  BY <1>2 DEF Unlinked, Linking
<1>5. PICK q : Lists(list, q) /\ In(q) = Running(state) \ ({current} \cup Unlinked)
  BY DEF KillInv, KillList
<1>6. q \in Seq(Threads) /\ victim \notin In(q)
  BY <1>4, <1>5 DEF Lists
<1>7. Lists(list', <<victim>> \o q)
  BY <1>3, <1>5, <1>6, EnqueueLists
<1>8. In(<<victim>> \o q) = In(q) \cup {victim}
  BY <1>3, <1>6, InAppend
<1>9. KillList'
  <2>1. victim \in Running(state)
    BY <1>3 DEF Running
  <2>2. In(<<victim>> \o q) = Running(state') \ ({current'} \cup Unlinked')
    BY <1>3, <1>4, <1>5, <1>8, <2>1
  <2> QED
    BY <1>7, <2>2 DEF KillList, Running
<1>10. KillerOK'
  BY <1>1, <1>2 DEF KillerOK, KillerPcs, Linking, Window
<1>11. KillTypes'
  BY <1>1, <1>2 DEF KillTypes
<1> QED
  BY <1>2, <1>9, <1>10, <1>11 DEF KillInv

LEMMA KillStoreStep ==
  ASSUME KillInv, KillStore
  PROVE  KillInv'
<1>1. /\ current = Killer /\ pc[Killer] = "kill_store"
      /\ list' = [list EXCEPT !.first = victim] /\ pc' = Set(pc, Killer, "kill_yield")
      /\ UNCHANGED <<current, state, critical_level, waiting, must_exit, victim, to_kill>>
  BY DEF KillStore, At
<1>2. victim \in Threads /\ list.first # NoThread /\ list.next[victim] = list.first
  BY <1>1, Names DEF KillInv, KillerOK
<1>3. /\ list.next \in [Threads -> Threads \cup {NoThread}]
      /\ list = [first |-> list.first, last |-> list.last, next |-> list.next]
  BY DEF KillInv, KillList, Lists
<1>4. [list.next EXCEPT ![victim] = list.first] = list.next
  BY <1>2, <1>3
<1>5. RQ!enqueue_thread(list, victim, FALSE) = [list EXCEPT !.next[victim] = list.first, !.first = victim]
  BY <1>2 DEF RQ!enqueue_thread
<1>6. [list EXCEPT !.next[victim] = list.first, !.first = victim] = [list EXCEPT !.first = victim]
  BY <1>3, <1>4
<1>7. list' = RQ!enqueue_thread(list, victim, FALSE)
  BY <1>1, <1>5, <1>6
<1> QED
  BY <1>1, <1>7, LinkedStep DEF Linking

LEMMA KillStoreOnlyStep ==
  ASSUME KillInv, KillStoreOnly
  PROVE  KillInv'
<1>1. /\ current = Killer /\ pc[Killer] = "kill_store_only"
      /\ list' = [list EXCEPT !.first = victim, !.last = victim, !.next[victim] = NoThread]
      /\ pc' = Set(pc, Killer, "kill_yield")
      /\ UNCHANGED <<current, state, critical_level, waiting, must_exit, victim, to_kill>>
  BY DEF KillStoreOnly, At
<1>2. victim \in Threads /\ list.first = NoThread
  BY <1>1, Names DEF KillInv, KillerOK
<1>3. list = [first |-> list.first, last |-> list.last, next |-> list.next]
  BY DEF KillInv, KillList, Lists
<1>4. list' = [first |-> victim, last |-> victim, next |-> [list.next EXCEPT ![victim] = NoThread]]
  BY <1>1, <1>3
<1>5. list' = RQ!enqueue_thread(list, victim, FALSE)
  BY <1>2, <1>4 DEF RQ!enqueue_thread
<1> QED
  BY <1>1, <1>5, LinkedStep DEF Linking

LEMMA KillYieldStep ==
  ASSUME KillInv, KillYield
  PROVE  KillInv'
<1>1. /\ current = Killer /\ pc[Killer] = "kill_yield" /\ pc' = Set(pc, Killer, "kill_test")
      /\ run_scheduler(list, state)
      /\ UNCHANGED <<state, critical_level, waiting, must_exit, victim, to_kill>>
  BY DEF KillYield, At
<1>2. KillTypes /\ KillerOK
  BY DEF KillInv
<1>3. /\ pc'[Killer] = "kill_test" /\ pc' \in [Threads -> UserPcs \cup KillerPcs]
      /\ \A u \in Users : pc'[u] = pc[u]
  BY <1>1, <1>2, Names DEF KillTypes, Set, KillerPcs
<1>4. ~ Window
  BY <1>1 DEF Window
<1>5. UsersOK'
  BY <1>1, <1>3 DEF KillInv, UsersOK
<1>6. KillerOK' /\ Unlinked' = {}
  BY <1>1, <1>2, <1>3 DEF KillerOK, KillerPcs, Linking, Window, Unlinked
<1> QED
  BY <1>1, <1>3, <1>4, <1>5, <1>6, YieldStep

LEMMA KillDoneStep ==
  ASSUME KillInv, KillDone
  PROVE  KillInv'
<1>1. /\ current = Killer /\ pc[Killer] = "kill_test" /\ state[victim] = "FINISHED"
      /\ state' = Set(state, victim, "UNUSED")
      /\ pc' = [pc EXCEPT ![Killer] = "run", ![victim] = "gone"]
      /\ critical_level' = Set(critical_level, Killer, CL_USER)
      /\ UNCHANGED <<current, list, waiting, must_exit, to_kill>>
  BY DEF KillDone, At
<1>2. KillTypes /\ KillerOK /\ UsersOK
  BY DEF KillInv
<1>3. victim \in Users /\ victim \in Threads /\ victim # Killer
  BY <1>1, <1>2, Names DEF KillerOK
<1>4. /\ pc'[Killer] = "run" /\ pc'[victim] = "gone"
      /\ pc' \in [Threads -> UserPcs \cup KillerPcs]
      /\ \A u \in Threads : u # Killer /\ u # victim => pc'[u] = pc[u]
  BY <1>1, <1>2, <1>3, Names DEF KillTypes, UserPcs, KillerPcs
<1>5. /\ state'[victim] = "UNUSED" /\ state'[Killer] = "RUNNING"
      /\ state' \in [Threads -> {"RUNNING", "PAUSED", "FINISHED", "UNUSED"}]
      /\ \A u \in Threads : u # victim => state'[u] = state[u]
  BY <1>1, <1>2, <1>3, Names DEF KillTypes, KillerOK, Set
<1>6. KillList'
  <2>1. Unlinked = {} /\ Unlinked' = {}
    BY <1>1, <1>4 DEF Unlinked, Linking
  <2>2. PICK q : Lists(list, q) /\ In(q) = Running(state) \ {current}
    BY <2>1 DEF KillInv, KillList
  <2>3. Running(state') = Running(state)
    BY <1>1, <1>3, <1>5 DEF Running
  <2>4. Lists(list', q) /\ In(q) = Running(state') \ ({current'} \cup Unlinked')
    BY <1>1, <2>1, <2>2, <2>3
  <2> QED
    BY <2>4 DEF KillList, Running
<1>7. UsersOK'
  <2>1. \A t \in Users : t \in Threads /\ t # Killer
    BY Names
  <2>2. ASSUME NEW t \in Users
        PROVE  /\ pc'[t] \in UserPcs
               /\ pc'[t] \in {"run", "exit_push"} => state'[t] = "RUNNING"
               /\ pc'[t] = "asleep" => state'[t] \in {"RUNNING", "PAUSED"}
               /\ pc'[t] \in {"exit_yield", "exited"} => state'[t] = "FINISHED"
               /\ pc'[t] = "gone" => state'[t] = "UNUSED"
    <3>1. CASE t = victim
      BY <1>4, <1>5, <3>1 DEF UserPcs
    <3>2. CASE t # victim
      <4>1. pc'[t] = pc[t] /\ state'[t] = state[t]
        BY <1>4, <1>5, <2>1, <3>2
      <4> QED
        BY <1>2, <4>1 DEF UsersOK
    <3> QED
      BY <3>1, <3>2
  <2> QED
    BY <2>2 DEF UsersOK
<1>8. KillerOK'
  BY <1>1, <1>4, <1>5 DEF KillerOK, KillerPcs, Linking, Window
<1>9. CurrentOK'
  BY <1>1, <1>5 DEF CurrentOK
<1>10. KillTypes'
  BY <1>1, <1>2, <1>4, <1>5, Names DEF KillTypes, Set
<1> QED
  BY <1>6, <1>7, <1>8, <1>9, <1>10 DEF KillInv

-----------------------------------------------------------------------------
(* Interrupts. *)

LEMMA DeviceIrqStep ==
  ASSUME KillInv, ~ IrqDuringKill, DeviceIrq
  PROVE  KillInv'
<1>1. PICK t \in waiting : /\ state[t] = "PAUSED"
                           /\ state' = Set(state, t, "RUNNING")
                           /\ list' = RQ!enqueue_thread(list, t, FALSE)
  BY DEF DeviceIrq
<1>2. ~ Window /\ UNCHANGED <<current, critical_level, pc, waiting, must_exit, victim, to_kill>>
  BY DEF DeviceIrq
<1>3. KillTypes /\ UsersOK /\ KillerOK
  BY DEF KillInv
<1>4. t \in Users /\ t \in Threads /\ t # Killer
  BY <1>1, <1>3, Names DEF KillTypes
<1>5. pc[t] = "asleep"
  BY <1>1, <1>3, <1>4 DEF UsersOK, UserPcs
<1>6. pc' = Set(pc, t, "asleep")
  BY <1>2, <1>3, <1>4, <1>5 DEF KillTypes, Set
<1>7. UsersOK' /\ pc'[Killer] = pc[Killer] /\ state'[Killer] = state[Killer]
  BY <1>1, <1>4, <1>6, UserMoves DEF UserPcs
<1>8. KillerOK' /\ Unlinked' = {}
  BY <1>2, <1>7, KillerStays
<1>9. /\ state'[t] = "RUNNING" /\ \A u \in Threads : u # t => state'[u] = state[u]
      /\ state' \in [Threads -> {"RUNNING", "PAUSED", "FINISHED", "UNUSED"}]
  BY <1>1, <1>3, <1>4 DEF KillTypes, Set
<1>10. current # t
  BY <1>1, <1>4, <1>5, Names DEF KillInv, CurrentOK
<1>11. KillList'
  <2>1. PICK q : Lists(list, q) /\ In(q) = Running(state) \ {current}
    BY <1>2, OffTheWindow
  <2>2. Running(state') = Running(state) \cup {t} /\ t \notin Running(state)
    BY <1>1, <1>4, <1>9 DEF Running
  <2>3. q \in Seq(Threads) /\ t \notin In(q)
    BY <2>1, <2>2 DEF Lists
  <2>4. Lists(list', <<t>> \o q)
    BY <1>1, <1>4, <2>1, <2>3, EnqueueLists
  <2>5. In(<<t>> \o q) = In(q) \cup {t}
    BY <1>4, <2>3, InAppend
  <2>6. In(<<t>> \o q) = Running(state') \ ({current'} \cup Unlinked')
    BY <1>2, <1>8, <1>10, <2>1, <2>2, <2>5
  <2> QED
    BY <2>4, <2>6 DEF KillList, Running
<1>12. CurrentOK'
  BY <1>2, <1>3, <1>9, <1>10 DEF KillInv, KillTypes, CurrentOK
<1>13. KillTypes'
  BY <1>2, <1>3, <1>9 DEF KillTypes
<1> QED
  BY <1>7, <1>8, <1>11, <1>12, <1>13 DEF KillInv

LEMMA TimerPreemptsStep ==
  ASSUME KillInv, TimerPreempts
  PROVE  KillInv'
<1>1. /\ critical_level[current] = CL_USER /\ run_scheduler(list, state)
      /\ UNCHANGED <<state, critical_level, pc, waiting, must_exit, victim, to_kill>>
  BY DEF TimerPreempts
<1>2. ~ Window
  BY <1>1 DEF KillInv, KillerOK, Window, CL_USER, CL_NOSWITCH
<1>3. KillerOK' /\ Unlinked' = {}
  BY <1>1, <1>2, KillerStays
<1>4. UsersOK' /\ pc' \in [Threads -> UserPcs \cup KillerPcs]
  BY <1>1 DEF KillInv, UsersOK, KillTypes
<1> QED
  BY <1>1, <1>2, <1>3, <1>4, YieldStep

LEMMA KillIdle ==
  ASSUME KillInv, UNCHANGED vars
  PROVE  KillInv'
<1>1. UNCHANGED <<current, list, state, critical_level, pc, waiting, must_exit, victim, to_kill>>
  BY DEF vars
<1>2. KillTypes' /\ CurrentOK' /\ UsersOK' /\ KillerOK'
  BY <1>1 DEF KillInv, KillTypes, CurrentOK, UsersOK, KillerOK, Window
<1>3. KillList'
  BY <1>1, ListStays DEF Unlinked
<1> QED
  BY <1>2, <1>3 DEF KillInv

LEMMA KillNext ==
  ASSUME KillInv, ~ IrqDuringKill, [Next]_vars
  PROVE  KillInv'
<1>1. ASSUME NEW t \in Users, UserStep(t) PROVE KillInv'
  BY <1>1, WaitOnStep, WakeUpStep, MaybeExitStep, ExitPushBlockedStep, ExitFinishStep,
     ExitYieldStep DEF UserStep
<1>2. CASE KillerStep
  BY <1>2, KillThreadStep, KillTestStep, KillSetStep, KillLinkStep, KillStoreStep,
     KillStoreOnlyStep, KillYieldStep, KillDoneStep DEF KillerStep
<1>3. CASE DeviceIrq
  BY <1>3, DeviceIrqStep
<1>4. CASE TimerPreempts
  BY <1>4, TimerPreemptsStep
<1>5. CASE UNCHANGED vars
  BY <1>5, KillIdle
<1> QED
  BY <1>1, <1>2, <1>3, <1>4, <1>5 DEF Next

LEMMA KillInvariant ==
  ASSUME ~ IrqDuringKill
  PROVE  Spec => []KillInv
<1>1. KillInv /\ [Next]_vars => KillInv'
  BY KillNext
<1> QED
  BY KillInit, <1>1, PTL DEF Spec

\* While no interrupt comes between kill_thread()'s test and the end of its
\* links (thread.c:419-421), every runnable thread is linked in the run queue or
\* on the processor, but for the victim that is about to be, and nothing else is
\* linked: for any number of threads.  The code does not keep the hypothesis:
\* level CL_NOSWITCH leaves interrupts on, and the run kill_irq shows what then
\* becomes of the queue.
THEOREM NoThreadIsLost ==
  ASSUME ~ IrqDuringKill
  PROVE  Spec => []NoThreadLost
<1>1. KillInv => NoThreadLost
  <2> SUFFICES ASSUME KillInv PROVE NoThreadLost
    OBVIOUS
  <2>1. PICK q : Lists(list, q) /\ In(q) = Running(state) \ ({current} \cup Unlinked)
    BY DEF KillInv, KillList
  <2>2. RQ!Queued = In(q)
    BY <2>1, ListsQueue
  <2> QED
    BY <2>1, <2>2 DEF NoThreadLost, Running, Unlinked, Linking
<1> QED
  BY <1>1, KillInvariant, PTL

\* Nor, then, is a thread that went through the yield() of exit() (thread.c:376)
\* ever dispatched again.
THEOREM ExitIsFinal ==
  ASSUME ~ IrqDuringKill
  PROVE  Spec => []ExitNeverReturns
<1>1. KillInv => ExitNeverReturns
  <2> SUFFICES ASSUME KillInv, NEW t \in Users, pc[t] = "exited", current = t PROVE FALSE
    BY DEF ExitNeverReturns
  <2>1. t # NoThread
    BY Names
  <2>2. state[t] = "FINISHED"
    BY DEF KillInv, UsersOK
  <2> QED
    BY <2>1, <2>2 DEF KillInv, CurrentOK
<1> QED
  BY <1>1, KillInvariant, PTL
=============================================================================
