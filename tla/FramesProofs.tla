----------------------------- MODULE FramesProofs -----------------------------
(***************************************************************************)
(* Proofs about module Frames, for any memory size, any word size and any  *)
(* number of clients.  FailsOnlyWhenFull rests on NothingSkipped, and that *)
(* one is inductive with TypeOK.  Exclusive needs that the kernel's own    *)
(* frames stay marked, and CountExact the library's theorems on finite     *)
(* sets.                                                                   *)
(*                                                                         *)
(* The second part is about module Handles, the references to files, the   *)
(* third about module SlabAlloc, the heap, and the fourth about module     *)
(* FilePager, what a file holds.                                           *)
(***************************************************************************)
EXTENDS Frames, Objects, FiniteSetTheorems, SequenceTheorems, WellFoundedInduction, TLAPS

\* The kernel's own frames stay marked as used: no client can free them.
KernelMarked == (0 .. kernel_pages - 1) \ {protector} \subseteq frame_bitset

Inv ==
  /\ TypeOK
  /\ NothingSkipped
  /\ CountExact
  /\ KernelMarked
  /\ Exclusive

-----------------------------------------------------------------------------
(***************************************************************************)
(* Words and bits.                                                         *)
(***************************************************************************)

\* A frame is one of the bits of the word that INDEX_FROM_BIT gives.
LEMMA IndexFacts ==
  ASSUME NEW f \in Nat
  PROVE  Index(f) \in Nat /\ f \in Bits(Index(f))
<1>0. WordBits \in Nat \ {0}
  BY FramesAssumption
<1>1. f \div WordBits \in Nat
  BY <1>0, SMT
<1>2. f = WordBits * (f \div WordBits) + (f % WordBits)
  BY <1>0, SMT
<1>3. f % WordBits \in 0 .. WordBits - 1
  BY <1>0, SMT
<1> QED
  BY <1>0, <1>1, <1>2, <1>3, SMT DEF Index, Bits

\* INDEX_FROM_BIT grows with its argument.
LEMMA IndexMonotone ==
  ASSUME NEW f \in Nat, NEW g \in Nat, f <= g
  PROVE  Index(f) <= Index(g)
<1>0. WordBits \in Nat \ {0}
  BY FramesAssumption
<1>1. /\ Index(f) \in Nat /\ f \in Bits(Index(f))
      /\ Index(g) \in Nat /\ g \in Bits(Index(g))
  BY IndexFacts
<1>2. SUFFICES ASSUME Index(g) + 1 <= Index(f) PROVE FALSE
  BY <1>1
<1>3. (Index(g) + 1) * WordBits <= Index(f) * WordBits
  BY <1>0, <1>1, <1>2, SMT
<1> QED
  BY <1>0, <1>1, <1>3, SMT DEF Bits

\* The bits of word i are the frames whose index is i.
LEMMA BitsHaveIndex ==
  ASSUME NEW i \in Nat, NEW f \in Bits(i)
  PROVE  f \in Nat /\ Index(f) = i
<1>0. WordBits \in Nat \ {0}
  BY FramesAssumption
<1>1. f \in Nat
  BY <1>0, SMT DEF Bits
<1>2. Index(f) \in Nat /\ f \in Bits(Index(f))
  BY <1>1, IndexFacts
<1>3. ~ (i + 1 <= Index(f))
  <2>1. SUFFICES ASSUME i + 1 <= Index(f) PROVE FALSE
    OBVIOUS
  <2>2. (i + 1) * WordBits <= Index(f) * WordBits
    BY <1>0, <1>2, <2>1, SMT
  <2> QED
    BY <1>0, <1>2, <2>2, SMT DEF Bits
<1>4. ~ (Index(f) + 1 <= i)
  <2>1. SUFFICES ASSUME Index(f) + 1 <= i PROVE FALSE
    OBVIOUS
  <2>2. (Index(f) + 1) * WordBits <= i * WordBits
    BY <1>0, <1>2, <2>1, SMT
  <2> QED
    BY <1>0, <1>2, <2>2, SMT DEF Bits
<1> QED
  BY <1>1, <1>2, <1>3, <1>4

\* The frames of the words that are searched are frames of the machine.
LEMMA SearchableFacts ==
  /\ Searchable \subseteq Frames
  /\ \A f \in Searchable : Index(f) \in Words
  /\ Index(nframes) \in Nat
<1>0. WordBits \in Nat \ {0} /\ nframes \in Nat
  BY FramesAssumption
<1>1. Index(nframes) \in Nat /\ nframes \in Bits(Index(nframes))
  BY <1>0, IndexFacts
<1>2. Searchable \subseteq Frames
  BY <1>0, <1>1 DEF Searchable, Frames, Bits
<1>3. ASSUME NEW f \in Searchable
      PROVE  Index(f) \in Words
  <2>1. f \in Nat /\ f < Index(nframes) * WordBits
    BY <1>0, <1>1 DEF Searchable
  <2>2. Index(f) \in Nat /\ f \in Bits(Index(f))
    BY <2>1, IndexFacts
  <2>3. SUFFICES ASSUME Index(nframes) <= Index(f) PROVE FALSE
    BY <1>1, <2>2 DEF Words
  <2>4. Index(nframes) * WordBits <= Index(f) * WordBits
    BY <1>0, <1>1, <2>2, <2>3, SMT
  <2> QED
    BY <1>0, <1>1, <2>1, <2>2, <2>4 DEF Bits
<1> QED
  BY <1>1, <1>2, <1>3

\* The search stops at the first place there is.
LEMMA FirstIsLeast ==
  ASSUME NEW S \in SUBSET Nat, S # {}
  PROVE  First(S) \in S /\ \A g \in S : First(S) <= g
<1> DEFINE Less == OpToRel(<, Nat)
<1>1. \A f, g \in Nat : g < f => <<g, f>> \in Less
  BY DEF OpToRel
<1> HIDE DEF Less
<1>0. IsWellFoundedOn(Less, Nat)
  BY NatLessThanWellFounded DEF Less
<1>2. PICK f \in S : \A g \in S : ~ (<<g, f>> \in Less)
  <2>1. S \subseteq Nat
    OBVIOUS
  <2> QED
    BY <1>0, <2>1, WFMin
<1>3. ASSUME NEW g \in S
      PROVE  f <= g
  <2>1. f \in Nat /\ g \in Nat
    BY <1>2
  <2>2. ~ (g < f)
    BY <1>1, <1>2, <2>1
  <2> QED
    BY <2>1, <2>2
<1> QED
  BY <1>2, <1>3 DEF First

\* Where a successful search for n frames puts them.
LEMMA PlaceFacts ==
  ASSUME TypeOK, NEW n \in Sizes, Places(n) # {}
  PROVE  /\ First(Places(n)) \in Places(n)
         /\ Run(First(Places(n)), n) \subseteq Searchable
         /\ Run(First(Places(n)), n) \cap frame_bitset = {}
<1> DEFINE base == First(Places(n))
<1>0. WordBits \in Nat \ {0} /\ n \in 1 .. WordBits /\ n \in Nat /\ n >= 1
  BY FramesAssumption
<1>1. Searchable \subseteq Nat /\ Places(n) \subseteq Searchable
  BY SearchableFacts, <1>0 DEF Places, Searchable
<1>2. base \in Places(n)
  BY <1>1, FirstIsLeast
<1>3. /\ base \in Searchable /\ base \in Nat
      /\ Index(base + n - 1) = Index(base)
      /\ Run(base, n) \cap frame_bitset = {}
  BY <1>1, <1>2 DEF Places
<1> HIDE DEF base
<1>4. ASSUME NEW f \in Run(base, n)
      PROVE  f \in Searchable
  <2>1. f \in Nat /\ base <= f /\ f <= base + n - 1 /\ base + n - 1 \in Nat
    BY <1>0, <1>3 DEF Run
  <2>2. Index(base) <= Index(f) /\ Index(f) <= Index(base + n - 1)
    BY <1>3, <2>1, IndexMonotone
  <2>3. Index(f) = Index(base)
    BY <1>3, <2>1, <2>2, IndexFacts
  <2>4. Index(base) \in Words
    BY <1>3, SearchableFacts
  <2>5. Index(f) \in Nat /\ f \in Bits(Index(f)) /\ Index(f) + 1 <= Index(nframes)
        /\ Index(nframes) \in Nat
    BY <2>1, <2>3, <2>4, IndexFacts, SearchableFacts DEF Words
  <2>6. (Index(f) + 1) * WordBits <= Index(nframes) * WordBits
    BY <1>0, <2>5, SMT
  <2> QED
    BY <1>0, <2>1, <2>5, <2>6 DEF Bits, Searchable
<1> QED
  BY <1>2, <1>3, <1>4 DEF base

\* The hint moves over full words only.
LEMMA AdvancedFacts ==
  ASSUME TypeOK, NothingSkipped
  PROVE  /\ Advanced \in 0 .. Index(nframes)
         /\ \A i \in Words : i < Advanced => Full(i)
<1> DEFINE rest == {i \in Words : i >= begin_search_at /\ ~ Full(i)}
<1>0. Index(nframes) \in Nat /\ Words \subseteq Nat /\ rest \subseteq Words
      /\ begin_search_at \in Nat
  BY SearchableFacts DEF Words, TypeOK, Index
<1>1. CASE rest # {}
  <2>1. Advanced = First(rest)
    BY <1>1 DEF Advanced
  <2>2. First(rest) \in rest /\ \A g \in rest : First(rest) <= g
    BY <1>0, <1>1, FirstIsLeast
  <2>3. Advanced \in 0 .. Index(nframes)
    BY <1>0, <2>1, <2>2 DEF Words
  <2>4. ASSUME NEW i \in Words, i < Advanced
        PROVE  Full(i)
    <3>1. CASE i < begin_search_at
      BY <3>1 DEF NothingSkipped
    <3>2. CASE i >= begin_search_at
      <4>1. i \notin rest
        BY <1>0, <2>1, <2>2, <2>3, <2>4
      <4> QED
        BY <3>2, <4>1
    <3> QED
      BY <1>0, <3>1, <3>2
  <2> QED
    BY <2>3, <2>4
<1>2. CASE rest = {}
  <2>1. Advanced = Index(nframes)
    BY <1>2 DEF Advanced
  <2>2. \A i \in Words : Full(i)
    BY <1>0, <1>2 DEF NothingSkipped
  <2> QED
    BY <1>0, <2>1, <2>2
<1> QED
  BY <1>1, <1>2

-----------------------------------------------------------------------------
(***************************************************************************)
(* The invariant.                                                          *)
(***************************************************************************)

\* frame_init_allocator() and paging_setup() establish the invariant.
LEMMA InitInv == Init => Inv
<1> SUFFICES ASSUME Init PROVE Inv
  OBVIOUS
<1>0. /\ WordBits \in Nat \ {0} /\ nframes \in Nat
      /\ kernel_pages \in 1 .. nframes /\ kernel_pages \in Nat
      /\ protector \in 1 .. kernel_pages - 1 /\ protector \in Nat
      /\ protector <= nframes
  BY FramesAssumption
<1>1. Index(protector) \in 0 .. Index(nframes)
  BY <1>0, IndexFacts, IndexMonotone
<1>2. TypeOK
  BY <1>0, <1>1 DEF Init, TypeOK, Frames, NoAnswer, Index
<1>3. NothingSkipped
  <2> SUFFICES ASSUME NEW i \in Words, i < begin_search_at,
                      NEW f \in Bits(i)
               PROVE  f \in frame_bitset
    BY DEF NothingSkipped, Full
  <2>1. i \in Nat
    BY SearchableFacts DEF Words
  <2>2. f \in Nat /\ Index(f) = i
    BY <2>1, BitsHaveIndex
  <2>3. ~ (protector <= f)
    BY <1>0, <1>1, <2>1, <2>2, IndexMonotone DEF Init
  <2> QED
    BY <1>0, <2>2, <2>3 DEF Init
<1>4. CountExact
  <2> DEFINE K == 0 .. kernel_pages - 1
  <2>1. IsFiniteSet(K) /\ Cardinality(K) = kernel_pages
    BY <1>0, FS_Interval
  <2>2. Cardinality(K \ {protector}) = Cardinality(K) - Cardinality(K \cap {protector})
    BY <2>1, FS_Difference
  <2>3. K \cap {protector} = {protector}
    BY <1>0
  <2>4. Cardinality({protector}) = 1
    BY FS_Singleton
  <2> QED
    BY <1>0, <2>1, <2>2, <2>3, <2>4 DEF Init, CountExact
<1>5. Exclusive /\ KernelMarked
  BY DEF Init, Exclusive, KernelMarked
<1> QED
  BY <1>2, <1>3, <1>4, <1>5 DEF Inv

\* frame_alloc() preserves the invariant.
LEMMA AllocInv ==
  ASSUME Inv, NEW c \in Clients, NEW n \in Sizes, frame_alloc(c, n)
  PROVE  Inv'
<1>0. /\ n \in Nat /\ n >= 1 /\ nframes \in Nat
      /\ kernel_pages \in Nat /\ protector \in Nat
  BY FramesAssumption
<1>1. /\ begin_search_at' \in 0 .. nframes \div WordBits
      /\ \A i \in Words : i < begin_search_at' => Full(i)
  BY AdvancedFacts DEF frame_alloc, Inv, Index
<1>2. CASE Places(n) = {}
  <2>1. /\ UNCHANGED <<frame_bitset, nused_frames, owned>>
        /\ answer' = [n |-> n, base |-> 0]
    BY <1>2 DEF frame_alloc
  <2> QED
    BY <1>0, <1>1, <2>1
       DEF Inv, TypeOK, NothingSkipped, Full, CountExact, Exclusive, KernelMarked
<1>3. CASE Places(n) # {}
  <2> DEFINE base == First(Places(n))
  <2>1. /\ frame_bitset' = frame_bitset \cup Run(base, n)
        /\ owned' = [owned EXCEPT ![c] = @ \cup Run(base, n)]
        /\ answer' = [n |-> n, base |-> base]
        /\ nused_frames' = nused_frames + n
    BY <1>3 DEF frame_alloc
  <2>2. /\ base \in Nat
        /\ Run(base, n) \subseteq Frames
        /\ Run(base, n) \cap frame_bitset = {}
    <3>1. /\ base \in Places(n)
          /\ Run(base, n) \subseteq Searchable
          /\ Run(base, n) \cap frame_bitset = {}
      BY <1>3, PlaceFacts DEF Inv
    <3>2. Places(n) \subseteq Frames /\ Frames \subseteq Nat
      <4>1. Places(n) \subseteq Searchable
        BY DEF Places
      <4>2. Frames \subseteq Nat
        BY <1>0 DEF Frames
      <4> QED
        BY <4>1, <4>2, SearchableFacts
    <3> QED
      BY <3>1, <3>2, SearchableFacts, Zenon
  <2> HIDE DEF base
  <2>3. TypeOK'
    BY <1>0, <1>1, <2>1, <2>2 DEF Inv, TypeOK
  <2>4. NothingSkipped'
    BY <1>1, <2>1 DEF NothingSkipped, Full
  <2>5. CountExact'
    <3>1. IsFiniteSet(Run(base, n)) /\ Cardinality(Run(base, n)) = n
      BY <1>0, <2>2, FS_Interval DEF Run
    <3>2. IsFiniteSet(frame_bitset)
      <4>1. IsFiniteSet(0 .. nframes - 1)
        BY <1>0, FS_Interval
      <4>2. frame_bitset \in SUBSET (0 .. nframes - 1)
        BY DEF Inv, TypeOK, Frames
      <4> QED
        BY <4>1, <4>2, FS_Subset
    <3>3. Cardinality(frame_bitset \cup Run(base, n)) =
            Cardinality(frame_bitset) + n - Cardinality({})
      BY <2>2, <3>1, <3>2, FS_Union
    <3>4. Cardinality({}) = 0 /\ Cardinality(frame_bitset) \in Nat
      BY <3>2, FS_EmptySet, FS_CardinalityType
    <3> QED
      BY <1>0, <2>1, <3>3, <3>4 DEF Inv, CountExact
  <2>6. Exclusive'
    <3>1. \A d \in Clients : owned[d] \cap Run(base, n) = {}
      BY <2>2 DEF Inv, Exclusive
    <3>2. \A d \in Clients : owned'[d] = IF d = c THEN owned[c] \cup Run(base, n)
                                         ELSE owned[d]
      BY <2>1 DEF Inv, TypeOK
    <3>3. Run(base, n) \cap (0 .. kernel_pages - 1) \subseteq {protector}
      BY <2>2 DEF Inv, KernelMarked
    <3> QED
      BY <2>1, <3>1, <3>2, <3>3 DEF Inv, Exclusive
  <2> QED
    BY <2>1, <2>3, <2>4, <2>5, <2>6 DEF Inv, KernelMarked
<1> QED
  BY <1>2, <1>3

\* frame_free() preserves the invariant.
LEMMA FreeInv ==
  ASSUME Inv, NEW c \in Clients, NEW n \in Sizes, NEW base \in owned[c],
         frame_free(c, base, n)
  PROVE  Inv'
<1>0. /\ n \in Nat /\ n >= 1 /\ nframes \in Nat
      /\ kernel_pages \in Nat /\ protector \in Nat
  BY FramesAssumption
<1>1. base \in Nat /\ Index(base) \in Nat /\ begin_search_at \in Nat
  <2>1. base \in Frames /\ begin_search_at \in Nat
    BY SearchableFacts DEF Inv, TypeOK, Index
  <2> QED
    BY <1>0, <2>1, IndexFacts DEF Frames
<1>2. Run(base, n) \subseteq owned[c] /\ Run(base, n) \subseteq frame_bitset
  BY DEF Inv, Exclusive, frame_free
<1>3. IsFiniteSet(frame_bitset)
  <2>1. IsFiniteSet(0 .. nframes - 1)
    BY <1>0, FS_Interval
  <2>2. frame_bitset \in SUBSET (0 .. nframes - 1)
    BY DEF Inv, TypeOK, Frames
  <2> QED
    BY <2>1, <2>2, FS_Subset
<1>4. CountExact' /\ nused_frames' \in Nat
  <2>1. /\ Cardinality(frame_bitset \ Run(base, n)) =
             Cardinality(frame_bitset) - Cardinality(frame_bitset \cap Run(base, n))
        /\ IsFiniteSet(frame_bitset \ Run(base, n))
    BY <1>3, FS_Difference
  <2>2. frame_bitset \cap Run(base, n) = Run(base, n) \cap frame_bitset
    OBVIOUS
  <2>3. Cardinality(frame_bitset \ Run(base, n)) \in Nat
    BY <2>1, FS_CardinalityType
  <2>4. nused_frames' = nused_frames - Cardinality(Run(base, n) \cap frame_bitset)
    BY DEF frame_free, Counted
  <2>5. frame_bitset' = frame_bitset \ Run(base, n)
    BY DEF frame_free
  <2> QED
    BY <2>1, <2>2, <2>3, <2>4, <2>5 DEF CountExact, Inv
<1>5. TypeOK'
  <2>1. begin_search_at' \in 0 .. nframes \div WordBits
    <3>1. begin_search_at \in 0 .. nframes \div WordBits
          /\ nframes \div WordBits \in Nat
      BY SearchableFacts DEF Inv, TypeOK, Index
    <3>2. begin_search_at' = begin_search_at \/
          (begin_search_at' = Index(base) /\ Index(base) < begin_search_at)
      BY DEF frame_free, Hint
    <3> QED
      BY <1>1, <3>1, <3>2
  <2> QED
    BY <1>4, <2>1 DEF Inv, TypeOK, frame_free, NoAnswer
<1>6. NothingSkipped'
  <2> SUFFICES ASSUME NEW i \in Words, i < begin_search_at',
                      NEW f \in Bits(i)
               PROVE  f \in frame_bitset'
    BY DEF NothingSkipped, Full
  <2>1. i \in Nat /\ i < begin_search_at /\ i < Index(base)
    BY <1>1, SearchableFacts DEF Words, frame_free, Hint
  <2>2. f \in frame_bitset
    BY <2>1 DEF Inv, NothingSkipped, Full
  <2>3. f \in Nat /\ Index(f) = i
    BY <2>1, BitsHaveIndex
  <2>4. ~ (base <= f)
    BY <1>1, <2>1, <2>3, IndexMonotone
  <2>5. f \notin Run(base, n)
    BY <1>0, <1>1, <2>3, <2>4 DEF Run
  <2> QED
    BY <2>2, <2>5 DEF frame_free
<1>7. Exclusive' /\ KernelMarked'
  <2>1. \A d \in Clients : owned'[d] = IF d = c THEN owned[c] \ Run(base, n)
                                       ELSE owned[d]
    BY DEF Inv, TypeOK, frame_free
  <2>2. \A d \in Clients \ {c} : owned[d] \cap Run(base, n) = {}
    BY <1>2 DEF Inv, Exclusive
  <2>3. Exclusive'
    BY <2>1, <2>2 DEF Inv, Exclusive, frame_free
  <2>4. KernelMarked'
    BY <1>2 DEF Inv, Exclusive, KernelMarked, frame_free
  <2> QED
    BY <2>3, <2>4
<1> QED
  BY <1>4, <1>5, <1>6, <1>7 DEF Inv

\* The invariant holds throughout.
LEMMA Invariance == Spec => []Inv
<1>1. Inv /\ [Next]_vars => Inv'
  <2> SUFFICES ASSUME Inv, [Next]_vars PROVE Inv'
    OBVIOUS
  <2>1. CASE UNCHANGED vars
    BY <2>1 DEF vars, Inv, TypeOK, NothingSkipped, Full, CountExact, Exclusive,
                KernelMarked
  <2>2. CASE Next
    BY <2>2, AllocInv, FreeInv DEF Next
  <2> QED
    BY <2>1, <2>2
<1> QED
  BY <1>1, InitInv, PTL DEF Spec

\* The bitmap, the count and the hint keep their types; in particular no frame
\* beyond the machine's memory is ever handed out.
THEOREM FramesTypes == Spec => []TypeOK
<1>1. Inv => TypeOK
  BY DEF Inv
<1> QED
  BY <1>1, Invariance, PTL

\* begin_search_at never skips a word that has a free frame.
THEOREM SearchSkipsNothing == Spec => []NothingSkipped
<1>1. Inv => NothingSkipped
  BY DEF Inv
<1> QED
  BY <1>1, Invariance, PTL

\* nused_frames counts the frames in use.
THEOREM CountIsExact == Spec => []CountExact
<1>1. Inv => CountExact
  BY DEF Inv
<1> QED
  BY <1>1, Invariance, PTL

\* No frame is ever handed to two clients, nor a frame of the kernel's image.
THEOREM FramesAreExclusive == Spec => []Exclusive
<1>1. Inv => Exclusive
  BY DEF Inv
<1> QED
  BY <1>1, Invariance, PTL

\* frame_alloc(1) returns 0 only when there is no free frame to be found.
THEOREM FailureMeansFull == Spec => []FailsOnlyWhenFull
<1>1. Init => FailsOnlyWhenFull
  BY DEF Init, NoAnswer, FailsOnlyWhenFull
<1>2. Inv /\ FailsOnlyWhenFull /\ [Next]_vars => FailsOnlyWhenFull'
  <2> SUFFICES ASSUME Inv, FailsOnlyWhenFull, [Next]_vars,
                      answer'.n = 1, answer'.base = 0
               PROVE  Searchable \subseteq frame_bitset'
    BY DEF FailsOnlyWhenFull
  <2>1. CASE UNCHANGED vars
    BY <2>1 DEF vars, FailsOnlyWhenFull
  <2>2. ASSUME NEW c \in Clients, NEW n \in Sizes, frame_alloc(c, n)
        PROVE  Searchable \subseteq frame_bitset'
    <3>0. Searchable \subseteq Nat /\ 1 \in Nat
      BY SearchableFacts, FramesAssumption DEF Searchable
    <3>1. CASE Places(n) # {}
      \* the answer would be frame 0, which is the kernel's
      <4>1. /\ First(Places(n)) \in Places(n)
            /\ First(Places(n)) = 0
        BY <2>2, <3>1, PlaceFacts DEF Inv, frame_alloc
      <4>2. Run(0, n) \cap frame_bitset = {}
        BY <4>1 DEF Places
      <4>3. 0 \in Run(0, n) /\ 0 \in frame_bitset
        BY FramesAssumption DEF Run, Inv, KernelMarked
      <4> QED
        BY <4>2, <4>3
    <3>2. CASE Places(n) = {}
      <4>1. n = 1 /\ frame_bitset' = frame_bitset
        BY <2>2, <3>2 DEF frame_alloc
      <4>2. ASSUME NEW f \in Searchable, f \notin frame_bitset
            PROVE  FALSE
        <5>1. f \in Nat /\ Index(f) \in Nat /\ f \in Bits(Index(f))
          BY <3>0, <4>2, IndexFacts
        <5>2. Index(f) \in Words
          BY SearchableFacts
        <5>3. Index(f) >= begin_search_at
          BY <4>2, <5>1, <5>2, SearchableFacts
             DEF Inv, NothingSkipped, Full, TypeOK, Index
        <5>4. Run(f, 1) = {f} /\ f + 1 - 1 = f
          BY <5>1 DEF Run
        <5>5. f \in Places(1)
          BY <4>2, <5>3, <5>4 DEF Places
        <5> QED
          BY <3>2, <4>1, <5>5
      <4> QED
        BY <4>1, <4>2
    <3> QED
      BY <3>1, <3>2
  <2>3. ASSUME NEW c \in Clients, NEW n \in Sizes, NEW base \in owned[c],
               frame_free(c, base, n)
        PROVE  FALSE
    BY <2>3 DEF frame_free, NoAnswer
  <2> QED
    BY <2>1, <2>2, <2>3 DEF Next
<1> QED
  BY <1>1, <1>2, Invariance, PTL DEF Spec

-----------------------------------------------------------------------------
(***************************************************************************)
(* References to files (module Handles), for any handles and tokens and    *)
(* any bound on descriptors.                                               *)
(*                                                                         *)
(* That a handle has as many references as holders needs little more than  *)
(* the lock of the token table (an entry that has not taken its reference  *)
(* yet is not used and does not expire) and that a call's handles differ.  *)
(* That a handle that a call has read without a reference is not freed     *)
(* needs that the descriptor it was read from stays: only the process      *)
(* itself closes it, or process_exit() when no call is under way.          *)
(*                                                                         *)
(* Every step changes each set of holders of a handle by one at most: a    *)
(* lemma for each set says by how much, and the steps add up.              *)
(***************************************************************************)
\* Handles has operators of the libraries of its own: they are the same.
LEMMA SameCardinality == \A S : H!Cardinality(S) = Cardinality(S)
BY DEF H!Cardinality, Cardinality

LEMMA SameRange == \A s : H!Range(s) = Range(s)
BY DEF H!Range, Range

\* The calls that carry a handle they have no reference on.
Reading == {"gen", "genref", "bind"}
Giving == {"adding", "undo", "bindadd"}

HCalls == [op : Reading \cup Giving \cup {"idle", "expire", "exit"},
           todo : Seq(Handles), got : SUBSET H!Fds, h : Handles \cup {NoHandle}, fd : H!Fds \cup {0}]

HandleTypes ==
  /\ refs \in [Handles -> Int]
  /\ files \in [H!Procs -> SUBSET (H!Fds \X Handles)]
  /\ next_fd \in [H!Procs -> Nat \ {0}]
  /\ alive \subseteq H!Procs
  /\ token_table \subseteq [tok : Tokens, h : Handles, old : BOOLEAN]
  /\ IsFiniteSet(token_table)
  /\ token_lock \in H!Actors \cup {NoHandle}
  /\ proc_lock \in H!Actors \cup {NoHandle}
  /\ hcall \in [H!Actors -> HCalls]

\* The handles of a call differ.
Distinct(s) == \A i, j \in DOMAIN s : s[i] = s[j] => i = j

\* What a call has read or taken is still there.
CallInStep(a) ==
  LET c == hcall[a] IN
  /\ Distinct(c.todo)
  /\ c.op \notin Giving => c.todo = <<>>
  /\ c.op \in Reading <=> c.h # NoHandle
  /\ c.op \in Reading \cup Giving => a \in H!Procs
  /\ c.op \in Reading => \E fd \in H!Fds : <<fd, c.h>> \in files[a]
  /\ c.op = "genref" => token_lock = a /\ H!Toks(c.h) # {}
  /\ c.op = "expire" => token_lock = a /\ a = Worker
  /\ c.op = "exit" => proc_lock = a /\ a # Child
  /\ c.op \in {"bind", "bindadd"} => c.fd \in H!Fds
  /\ c.op = "bindadd" => Len(c.todo) = 1
CallsInStep == \A a \in H!Actors : CallInStep(a)

\* No call of a process is under way when its descriptors are released.
ExitAlone == proc_lock # NoHandle => hcall[Child] = H!Idle

TokensDiffer == \A d, e \in token_table : d.tok = e.tok => d = e

HandleCounted == \A h \in Handles : refs[h] = H!Holders(h)
FdsDiffer ==
  /\ \A p \in H!Procs : \A f, g \in files[p] : f[1] = g[1] => f = g
  /\ \A p \in H!Procs : \A f \in files[p] : f[1] < next_fd[p]

HandlesInv ==
  /\ HandleTypes
  /\ CallsInStep
  /\ ExitAlone
  /\ TokensDiffer
  /\ HandleCounted
  /\ FdsDiffer

-----------------------------------------------------------------------------
(***************************************************************************)
(* Calls and their handles.                                                *)
(***************************************************************************)

\* The parts of a call.
LEMMA CallFacts ==
  ASSUME HandleTypes, NEW a \in H!Actors
  PROVE  /\ hcall[a] \in HCalls
         /\ hcall[a].op \in Reading \cup Giving \cup {"idle", "expire", "exit"}
         /\ hcall[a].todo \in Seq(Handles) /\ hcall[a].got \subseteq H!Fds
         /\ hcall[a].h \in Handles \cup {NoHandle} /\ hcall[a].fd \in H!Fds \cup {0}
BY DEF HandleTypes, HCalls

\* The handles that a call has in hand, when it has none, one or two ...
LEMMA RangeFacts ==
  /\ Range(<<>>) = {} /\ Distinct(<<>>)
  /\ \A h : Range(<<h>>) = {h} /\ Distinct(<<h>>)
  /\ \A h, g : Range(<<h, g>>) = {h, g} /\ (h # g => Distinct(<<h, g>>))
<1>1. Range(<<>>) = {} /\ Distinct(<<>>)
  BY DEF Range, Distinct
<1>2. ASSUME NEW h PROVE Range(<<h>>) = {h} /\ Distinct(<<h>>)
  BY DEF Range, Distinct
<1>3. ASSUME NEW h, NEW g PROVE Range(<<h, g>>) = {h, g} /\ (h # g => Distinct(<<h, g>>))
  <2>1. DOMAIN <<h, g>> = {1, 2} /\ <<h, g>>[1] = h /\ <<h, g>>[2] = g
    OBVIOUS
  <2> QED
    BY <2>1 DEF Range, Distinct
<1> QED
  BY <1>1, <1>2, <1>3

\* ... and when it is done with the first one.
LEMMA TailFacts ==
  ASSUME NEW s \in Seq(Handles), s # <<>>, Distinct(s)
  PROVE  /\ Head(s) \in Handles /\ Head(s) \in Range(s)
         /\ Tail(s) \in Seq(Handles) /\ Distinct(Tail(s))
         /\ Range(Tail(s)) = Range(s) \ {Head(s)}
         /\ Len(s) = 1 => Range(s) = {Head(s)}
<1>1. /\ Tail(s) \in Seq(Handles) /\ Len(Tail(s)) = Len(s) - 1
      /\ \A i \in 1 .. Len(Tail(s)) : Tail(s)[i] = s[i + 1]
      /\ Len(s) \in Nat \ {0} /\ Head(s) = s[1] /\ Head(s) \in Handles
  BY HeadTailProperties, EmptySeq
<1>2. DOMAIN s = 1 .. Len(s) /\ DOMAIN Tail(s) = 1 .. (Len(s) - 1)
  BY <1>1
<1>3. Distinct(Tail(s))
  BY <1>1, <1>2 DEF Distinct
<1>4. Head(s) \in Range(s) /\ (Len(s) = 1 => Range(s) = {Head(s)})
  BY <1>1, <1>2 DEF Range
<1>5. ASSUME NEW h \in Range(Tail(s)) PROVE h \in Range(s) \ {Head(s)}
  <2>1. PICK i \in 1 .. (Len(s) - 1) : h = s[i + 1]
    BY <1>1, <1>2 DEF Range
  <2>2. i + 1 \in DOMAIN s /\ 1 \in DOMAIN s /\ i + 1 # 1
    BY <1>1, <1>2
  <2> QED
    BY <1>1, <2>1, <2>2 DEF Range, Distinct
<1>6. ASSUME NEW h \in Range(s), h # Head(s) PROVE h \in Range(Tail(s))
  <2>1. PICK i \in 1 .. Len(s) : h = s[i]
    BY <1>2 DEF Range
  <2>2. i - 1 \in 1 .. (Len(s) - 1) /\ (i - 1) + 1 = i
    BY <1>1, <1>6, <2>1
  <2>3. Tail(s)[i - 1] = h
    BY <1>1, <2>1, <2>2
  <2> QED
    BY <1>2, <2>2, <2>3 DEF Range
<1> QED
  BY <1>1, <1>3, <1>4, <1>5, <1>6

-----------------------------------------------------------------------------
(***************************************************************************)
(* How many hold a handle.                                                 *)
(***************************************************************************)

One(b) == IF b THEN 1 ELSE 0

\* The actors and the descriptors can be counted.
LEMMA ActorsFinite ==
  ASSUME H!HandlesAssumption
  PROVE  IsFiniteSet(H!Procs) /\ IsFiniteSet(H!Actors) /\ IsFiniteSet(H!Procs \X H!Fds)
<1>1. IsFiniteSet({Parent})
  BY FS_Singleton
<1>2. IsFiniteSet({Parent} \cup {Child})
  BY <1>1, FS_AddElement
<1>3. H!Procs = {Parent} \cup {Child}
  BY DEF H!Procs
<1>4. IsFiniteSet(H!Procs \cup {Worker})
  BY <1>2, <1>3, FS_AddElement
<1>5. IsFiniteSet(H!Fds)
  <2>1. 1 \in Int /\ MaxFd \in Int
    BY DEF H!HandlesAssumption
  <2> QED
    BY <2>1, FS_Interval DEF H!Fds
<1>6. IsFiniteSet(H!Procs \X H!Fds)
  BY <1>2, <1>3, <1>5, FS_Product
<1> QED
  BY <1>2, <1>3, <1>4, <1>6 DEF H!Actors

\* Each kind of holder can be counted.
LEMMA HoldersFinite ==
  ASSUME H!HandlesAssumption, HandleTypes, NEW h
  PROVE  /\ IsFiniteSet(H!Descs(h)) /\ Cardinality(H!Descs(h)) \in Nat
         /\ IsFiniteSet(H!Toks(h)) /\ Cardinality(H!Toks(h)) \in Nat
         /\ IsFiniteSet(H!Callers(h)) /\ Cardinality(H!Callers(h)) \in Nat
         /\ IsFiniteSet(H!Pending(h)) /\ Cardinality(H!Pending(h)) \in Nat
<1>1. H!Descs(h) \in SUBSET (H!Procs \X H!Fds)
  BY DEF H!Descs
<1>2. H!Toks(h) \in SUBSET token_table
  BY DEF H!Toks
<1>3. H!Callers(h) \in SUBSET H!Actors /\ H!Pending(h) \in SUBSET H!Actors
  BY SameRange DEF H!Callers, H!Pending
<1>4. IsFiniteSet(token_table)
  BY DEF HandleTypes
<1>5. IsFiniteSet(H!Descs(h))
  BY <1>1, ActorsFinite, FS_Subset
<1>6. IsFiniteSet(H!Toks(h))
  BY <1>2, <1>4, FS_Subset
<1>7. IsFiniteSet(H!Callers(h)) /\ IsFiniteSet(H!Pending(h))
  BY <1>3, ActorsFinite, FS_Subset
<1> QED
  BY <1>5, <1>6, <1>7, FS_CardinalityType

\* A descriptor is given.
LEMMA DescsAdded ==
  ASSUME H!HandlesAssumption, HandleTypes, NEW h, NEW p \in H!Procs, NEW fd \in H!Fds,
         NEW g,
         <<fd, g>> \notin files[p],
         files' = [files EXCEPT ![p] = @ \cup {<<fd, g>>}]
  PROVE  Cardinality(H!Descs(h)') = Cardinality(H!Descs(h)) + One(h = g)
<1>2. \A q \in H!Procs : files'[q] = IF q = p THEN files[p] \cup {<<fd, g>>} ELSE files[q]
  BY DEF HandleTypes
<1>3. H!Descs(h)' = IF h = g THEN H!Descs(h) \cup {<<p, fd>>} ELSE H!Descs(h)
  <2>1. ASSUME NEW q \in H!Procs, NEW n \in H!Fds
        PROVE  <<n, h>> \in files'[q] <=> <<n, h>> \in files[q] \/ (q = p /\ n = fd /\ h = g)
    BY <1>2
  <2> QED
    BY <2>1 DEF H!Descs
<1>4. CASE h = g
  <2>1. <<p, fd>> \notin H!Descs(h) /\ IsFiniteSet(H!Descs(h))
    BY <1>4, HoldersFinite DEF H!Descs
  <2> QED
    BY <1>3, <1>4, <2>1, FS_AddElement DEF One
<1>5. CASE h # g
  BY <1>3, <1>5, HoldersFinite DEF One
<1> QED
  BY <1>4, <1>5

\* A descriptor is closed.
LEMMA DescsRemoved ==
  ASSUME H!HandlesAssumption, HandleTypes, NEW h, NEW p \in H!Procs, NEW fd \in H!Fds,
         NEW g,
         <<fd, g>> \in files[p],
         files' = [files EXCEPT ![p] = @ \ {<<fd, g>>}]
  PROVE  Cardinality(H!Descs(h)') = Cardinality(H!Descs(h)) - One(h = g)
<1>2. \A q \in H!Procs : files'[q] = IF q = p THEN files[p] \ {<<fd, g>>} ELSE files[q]
  BY DEF HandleTypes
<1>3. H!Descs(h)' = IF h = g THEN H!Descs(h) \ {<<p, fd>>} ELSE H!Descs(h)
  <2>1. ASSUME NEW q \in H!Procs, NEW n \in H!Fds
        PROVE  <<n, h>> \in files'[q] <=> <<n, h>> \in files[q] /\ ~(q = p /\ n = fd /\ h = g)
    BY <1>2
  <2> QED
    BY <2>1 DEF H!Descs
<1>4. CASE h = g
  <2>1. <<p, fd>> \in H!Descs(h) /\ IsFiniteSet(H!Descs(h))
    BY <1>4, HoldersFinite DEF H!Descs
  <2> QED
    BY <1>3, <1>4, <2>1, FS_RemoveElement DEF One
<1>5. CASE h # g
  BY <1>3, <1>5, HoldersFinite DEF One
<1> QED
  BY <1>4, <1>5

\* A token is made.
LEMMA ToksAdded ==
  ASSUME H!HandlesAssumption, HandleTypes, NEW h, NEW e,
         e \notin token_table, token_table' = token_table \cup {e}
  PROVE  Cardinality(H!Toks(h)') = Cardinality(H!Toks(h)) + One(h = e.h)
<1>1. IsFiniteSet(H!Toks(h)) /\ e \notin H!Toks(h)
  BY HoldersFinite DEF H!Toks
<1>2. CASE h = e.h
  <2>1. H!Toks(h)' = H!Toks(h) \cup {e}
    BY <1>2 DEF H!Toks
  <2> QED
    BY <1>1, <1>2, <2>1, FS_AddElement DEF One
<1>3. CASE h # e.h
  <2>1. H!Toks(h)' = H!Toks(h)
    BY <1>3 DEF H!Toks
  <2> QED
    BY <1>3, <2>1, HoldersFinite DEF One
<1> QED
  BY <1>2, <1>3

\* A token is used, or expires.
LEMMA ToksRemoved ==
  ASSUME H!HandlesAssumption, HandleTypes, NEW h, NEW e \in token_table,
         token_table' = token_table \ {e}
  PROVE  Cardinality(H!Toks(h)') = Cardinality(H!Toks(h)) - One(h = e.h)
<1>1. IsFiniteSet(H!Toks(h))
  BY HoldersFinite
<1>2. CASE h = e.h
  <2>1. H!Toks(h)' = H!Toks(h) \ {e} /\ e \in H!Toks(h)
    BY <1>2 DEF H!Toks
  <2> QED
    BY <1>1, <1>2, <2>1, FS_RemoveElement DEF One
<1>3. CASE h # e.h
  <2>1. H!Toks(h)' = H!Toks(h)
    BY <1>3 DEF H!Toks
  <2> QED
    BY <1>3, <2>1, HoldersFinite DEF One
<1> QED
  BY <1>2, <1>3

\* A set of actors that one actor may join or leave.
LEMMA ActorMoves ==
  ASSUME NEW S, NEW T, NEW a, IsFiniteSet(S),
         \A b : b # a => (b \in T <=> b \in S)
  PROVE  Cardinality(T) = Cardinality(S) + One(a \in T) - One(a \in S)
<1>1. Cardinality(S) \in Nat
  BY FS_CardinalityType
<1>2. CASE a \in T <=> a \in S
  <2>1. T = S
    BY <1>2
  <2> QED
    BY <1>1, <2>1 DEF One
<1>3. CASE a \in T /\ a \notin S
  <2>1. T = S \cup {a}
    BY <1>3
  <2> QED
    BY <1>1, <1>3, <2>1, FS_AddElement DEF One
<1>4. CASE a \notin T /\ a \in S
  <2>1. T = S \ {a}
    BY <1>4
  <2> QED
    BY <1>1, <1>4, <2>1, FS_RemoveElement DEF One
<1> QED
  BY <1>2, <1>3, <1>4

\* A call takes handles in hand or lets them go, or is about to take the
\* reference of a token.
LEMMA CallersMove ==
  ASSUME H!HandlesAssumption, HandleTypes, NEW h, NEW a \in H!Actors, NEW c,
         hcall' = [hcall EXCEPT ![a] = c]
  PROVE  /\ Cardinality(H!Callers(h)') = Cardinality(H!Callers(h))
              + One(h \in Range(c.todo)) - One(h \in Range(hcall[a].todo))
         /\ Cardinality(H!Pending(h)') = Cardinality(H!Pending(h))
              + One(c.op = "genref" /\ c.h = h)
              - One(hcall[a].op = "genref" /\ hcall[a].h = h)
<1>1. \A b \in H!Actors : hcall'[b] = IF b = a THEN c ELSE hcall[b]
  BY DEF HandleTypes
<1>2. /\ \A b : b # a => (b \in H!Callers(h)' <=> b \in H!Callers(h))
      /\ a \in H!Callers(h)' <=> h \in Range(c.todo)
      /\ a \in H!Callers(h) <=> h \in Range(hcall[a].todo)
  BY <1>1, SameRange DEF H!Callers
<1>3. /\ \A b : b # a => (b \in H!Pending(h)' <=> b \in H!Pending(h))
      /\ a \in H!Pending(h)' <=> c.op = "genref" /\ c.h = h
      /\ a \in H!Pending(h) <=> hcall[a].op = "genref" /\ hcall[a].h = h
  BY <1>1 DEF H!Pending
<1>4. IsFiniteSet(H!Callers(h)) /\ IsFiniteSet(H!Pending(h))
  BY HoldersFinite
<1>5. Cardinality(H!Callers(h)') =
        Cardinality(H!Callers(h)) + One(a \in H!Callers(h)') - One(a \in H!Callers(h))
  BY <1>2, <1>4, ActorMoves
<1>6. Cardinality(H!Pending(h)') =
        Cardinality(H!Pending(h)) + One(a \in H!Pending(h)') - One(a \in H!Pending(h))
  BY <1>3, <1>4, ActorMoves
<1> QED
  BY <1>2, <1>3, <1>5, <1>6 DEF One

-----------------------------------------------------------------------------
(***************************************************************************)
(* What one actor does leaves the calls of the others in step.             *)
(***************************************************************************)

\* What the call of b needs stays as it is.
Keeps(b) ==
  /\ hcall'[b] = hcall[b]
  /\ b \in H!Procs /\ hcall[b].op \in Reading => files[b] \subseteq files'[b]
  /\ token_lock = b => token_lock' = b
  /\ hcall[b].op = "genref" => \A h : H!Toks(h) # {} => H!Toks(h)' # {}
  /\ proc_lock = b => proc_lock' = b

\* Then the call stays in step.
LEMMA CallKept ==
  ASSUME NEW b \in H!Actors, CallInStep(b), Keeps(b)
  PROVE  CallInStep(b)'
BY DEF CallInStep, Keeps, Reading, Giving

\* One call changes, and nothing that the others need.
LEMMA CallsKept ==
  ASSUME HandleTypes, CallsInStep, NEW a \in H!Actors, NEW c,
         hcall' = [hcall EXCEPT ![a] = c],
         CallInStep(a)',
         \A b \in H!Actors : b # a => (hcall'[b] = hcall[b] => Keeps(b))
  PROVE  CallsInStep'
<1>1. \A b \in H!Actors : b # a => hcall'[b] = hcall[b]
  BY DEF HandleTypes
<1>2. ASSUME NEW b \in H!Actors PROVE CallInStep(b)'
  BY <1>1, CallKept DEF CallsInStep
<1> QED
  BY <1>2 DEF CallsInStep

\* The call of one actor changes, and nothing else does but the references.
LEMMA CallChanges ==
  ASSUME HandleTypes, CallsInStep, NEW a \in H!Actors, NEW c,
         hcall' = [hcall EXCEPT ![a] = c],
         CallInStep(a)',
         UNCHANGED <<token_table, token_lock, proc_lock>>,
         \A p \in H!Procs : p # a => files[p] \subseteq files'[p]
  PROVE  CallsInStep'
<1>1. ASSUME NEW b \in H!Actors, b # a, hcall'[b] = hcall[b] PROVE Keeps(b)
  BY <1>1 DEF Keeps, H!Toks
<1> QED
  BY <1>1, CallsKept

\* No call carries more than the handles that are counted for it: a token that
\* has not taken its reference is in the table.
LEMMA PendingFew ==
  ASSUME H!HandlesAssumption, HandleTypes, CallsInStep, NEW h \in Handles
  PROVE  Cardinality(H!Pending(h)) <= Cardinality(H!Toks(h))
<1>1. /\ IsFiniteSet(H!Pending(h)) /\ Cardinality(H!Pending(h)) \in Nat
      /\ IsFiniteSet(H!Toks(h)) /\ Cardinality(H!Toks(h)) \in Nat
  BY HoldersFinite
<1>2. CASE H!Pending(h) = {}
  BY <1>1, <1>2, FS_EmptySet
<1>3. CASE H!Pending(h) # {}
  <2>1. PICK a \in H!Actors : hcall[a].op = "genref" /\ hcall[a].h = h
    BY <1>3 DEF H!Pending
  <2>2. \A b \in H!Pending(h) : token_lock = b
    BY DEF H!Pending, CallsInStep, CallInStep
  <2>3. H!Pending(h) = {a} /\ H!Toks(h) # {}
    BY <2>1, <2>2 DEF H!Pending, CallsInStep, CallInStep
  <2>4. Cardinality(H!Pending(h)) = 1
    BY <2>3, FS_Singleton
  <2>5. Cardinality(H!Toks(h)) # 0
    BY <1>1, <2>3, FS_EmptySet
  <2> QED
    BY <1>1, <2>4, <2>5
<1> QED
  BY <1>2, <1>3

\* A handle that a descriptor names has a reference.
LEMMA NamedIsHeld ==
  ASSUME H!HandlesAssumption, HandlesInv, NEW p \in H!Procs, NEW fd \in H!Fds,
         NEW h \in Handles,
         <<fd, h>> \in files[p]
  PROVE  refs[h] > 0
<1>1. <<p, fd>> \in H!Descs(h)
  BY DEF H!Descs
<1>2. Cardinality(H!Descs(h)) # 0
  BY <1>1, HoldersFinite, FS_EmptySet DEF HandlesInv
<1>3. Cardinality(H!Pending(h)) <= Cardinality(H!Toks(h))
  BY PendingFew DEF HandlesInv
<1>4. refs[h] = Cardinality(H!Descs(h)) + Cardinality(H!Toks(h))
                + Cardinality(H!Callers(h)) - Cardinality(H!Pending(h))
  BY SameCardinality DEF HandlesInv, HandleCounted, H!Holders
<1> QED
  BY <1>2, <1>3, <1>4, HoldersFinite DEF HandlesInv

\* So the invariant implies the property of the run.
LEMMA ExactFollows ==
  ASSUME H!HandlesAssumption, HandlesInv
  PROVE  H!HandlesExact
<1>1. ASSUME NEW a \in H!Actors, hcall[a].h # NoHandle
      PROVE  refs[hcall[a].h] > 0
  <2>1. hcall[a].h \in Handles /\ hcall[a].op \in Reading /\ a \in H!Procs
    BY <1>1, CallFacts DEF HandlesInv, CallsInStep, CallInStep
  <2>2. PICK fd \in H!Fds : <<fd, hcall[a].h>> \in files[a]
    BY <2>1 DEF HandlesInv, CallsInStep, CallInStep
  <2> QED
    BY <2>1, <2>2, NamedIsHeld
<1> QED
  BY <1>1 DEF HandlesInv, H!HandlesExact, HandleCounted, FdsDiffer

\* At first nobody holds anything.
LEMMA HandlesInitHolds ==
  ASSUME H!HandlesAssumption, H!Init
  PROVE  HandlesInv
<1>1. HandleTypes
  <2>1. H!Idle \in HCalls
    BY EmptySeq DEF H!Idle, H!Call, HCalls
  <2>2. IsFiniteSet(token_table)
    BY FS_EmptySet DEF H!Init
  <2> QED
    BY <2>1, <2>2 DEF H!Init, HandleTypes
<1>2. \A a \in H!Actors : hcall[a] = H!Idle
  BY DEF H!Init
<1>3. CallsInStep
  BY <1>2, RangeFacts DEF CallsInStep, CallInStep, H!Idle, H!Call, Reading, Giving
<1>4. ExitAlone /\ TokensDiffer /\ FdsDiffer
  BY DEF H!Init, ExitAlone, TokensDiffer, FdsDiffer
<1>5. ASSUME NEW h \in Handles PROVE refs[h] = H!Holders(h)
  <2>1. H!Descs(h) = {} /\ H!Toks(h) = {}
    BY DEF H!Init, H!Descs, H!Toks
  <2>2. H!Callers(h) = {} /\ H!Pending(h) = {}
    BY <1>2, RangeFacts, SameRange DEF H!Callers, H!Pending, H!Idle, H!Call
  <2> QED
    BY <2>1, <2>2, FS_EmptySet, SameCardinality DEF H!Init, H!Holders
<1> QED
  BY <1>1, <1>3, <1>4, <1>5 DEF HandlesInv, HandleCounted

-----------------------------------------------------------------------------
(***************************************************************************)
(* The steps.                                                              *)
(***************************************************************************)

\* The sum of the holders, and its terms.
LEMMA HoldersSum ==
  ASSUME H!HandlesAssumption, HandleTypes, HandleCounted, NEW h \in Handles
  PROVE  /\ refs[h] = Cardinality(H!Descs(h)) + Cardinality(H!Toks(h))
                        + Cardinality(H!Callers(h)) - Cardinality(H!Pending(h))
         /\ Cardinality(H!Descs(h)) \in Nat /\ Cardinality(H!Toks(h)) \in Nat
         /\ Cardinality(H!Callers(h)) \in Nat /\ Cardinality(H!Pending(h)) \in Nat
BY HoldersFinite, SameCardinality DEF HandleCounted, H!Holders

\* Only the child's own calls are hindered by its exit.
LEMMA ExitAloneKept ==
  ASSUME H!HandlesAssumption, HandleTypes, ExitAlone, NEW a \in H!Actors, NEW c,
         hcall' = [hcall EXCEPT ![a] = c], proc_lock' = proc_lock,
         a = Child => proc_lock = NoHandle
  PROVE  ExitAlone'
<1>1. Child \in H!Actors
  BY DEF H!Procs, H!Actors
<1> QED
  BY <1>1 DEF HandleTypes, ExitAlone

\* Descriptors are still given once when none is given, or closed.
LEMMA FdsKept ==
  ASSUME FdsDiffer, UNCHANGED next_fd, \A p \in H!Procs : files'[p] \subseteq files[p]
  PROVE  FdsDiffer'
BY DEF FdsDiffer

\* A call that holds what it held changes in other ways: nothing else moves.
LEMMA OneCallChanges ==
  ASSUME H!HandlesAssumption, HandlesInv, NEW a \in H!Actors, NEW c \in HCalls,
         hcall' = [hcall EXCEPT ![a] = c],
         UNCHANGED <<refs, files, next_fd, token_table, token_lock, proc_lock>>,
         alive' \subseteq H!Procs,
         CallInStep(a)',
         a = Child => proc_lock = NoHandle,
         Range(c.todo) = Range(hcall[a].todo),
         c.op # "genref", hcall[a].op # "genref"
  PROVE  HandlesInv'
<1>0. HandleTypes /\ CallsInStep /\ ExitAlone /\ TokensDiffer /\ HandleCounted /\ FdsDiffer
  BY DEF HandlesInv
<1>1. HandleTypes'
  BY <1>0 DEF HandleTypes
<1>2. CallsInStep'
  BY <1>0, CallChanges
<1>3. ExitAlone'
  BY <1>0, ExitAloneKept
<1>4. TokensDiffer' /\ FdsDiffer'
  BY <1>0 DEF TokensDiffer, FdsDiffer
<1>5. ASSUME NEW h \in Handles PROVE refs'[h] = H!Holders(h)'
  <2>1. /\ Cardinality(H!Callers(h)') = Cardinality(H!Callers(h))
             + One(h \in Range(c.todo)) - One(h \in Range(hcall[a].todo))
        /\ Cardinality(H!Pending(h)') = Cardinality(H!Pending(h))
             + One(c.op = "genref" /\ c.h = h)
             - One(hcall[a].op = "genref" /\ hcall[a].h = h)
    BY <1>0, CallersMove
  <2>2. H!Descs(h)' = H!Descs(h) /\ H!Toks(h)' = H!Toks(h)
    BY DEF H!Descs, H!Toks
  <2> QED
    BY <1>0, <2>1, <2>2, HoldersSum, SameCardinality DEF H!Holders, One
<1> QED
  BY <1>1, <1>2, <1>3, <1>4, <1>5 DEF HandlesInv, HandleCounted

\* open_sc(), make_shm_sc(), make_channel_sc().
LEMMA NewHandlesStep ==
  ASSUME H!HandlesAssumption, HandlesInv, NEW p \in H!Procs, NEW hs \in Seq(Handles),
         Distinct(hs), H!NewHandles(p, hs)
  PROVE  HandlesInv'
<1>0. /\ HandleTypes /\ CallsInStep /\ ExitAlone /\ TokensDiffer /\ HandleCounted /\ FdsDiffer
      /\ p \in H!Actors
  BY DEF HandlesInv, H!Actors
<1> DEFINE c == H!Adding(hs, {})
<1>1. /\ hcall' = [hcall EXCEPT ![p] = c] /\ hcall[p] = H!Idle
      /\ p = Child => proc_lock = NoHandle
      /\ UNCHANGED <<files, next_fd, alive, token_table, token_lock, proc_lock>>
      /\ refs' = [h \in Handles |-> IF h \in Range(hs) THEN 1 ELSE refs[h]]
      /\ \A h \in Range(hs) : refs[h] = 0
  BY SameCardinality, SameRange DEF H!NewHandles, H!Go, H!Calls, H!Unlocked, H!tokvars,
       H!Unallocated
<1>2. /\ c \in HCalls /\ c.op = "adding" /\ c.todo = hs /\ c.h = NoHandle
      /\ hcall[p].op = "idle" /\ hcall[p].todo = <<>>
  BY <1>1 DEF H!Adding, H!Call, HCalls, Giving, H!Idle
<1> HIDE DEF c
<1>3. hcall'[p] = c
  BY <1>0, <1>1 DEF HandleTypes
<1>4. HandleTypes'
  BY <1>0, <1>1, <1>2 DEF HandleTypes
<1>5. CallInStep(p)'
  BY <1>2, <1>3 DEF CallInStep, Reading, Giving
<1>6. CallsInStep'
  BY <1>0, <1>1, <1>5, CallChanges
<1>7. ExitAlone'
  BY <1>0, <1>1, ExitAloneKept
<1>8. TokensDiffer' /\ FdsDiffer'
  BY <1>0, <1>1 DEF TokensDiffer, FdsDiffer
<1>9. ASSUME NEW h \in Handles PROVE refs'[h] = H!Holders(h)'
  <2>1. /\ Cardinality(H!Callers(h)') = Cardinality(H!Callers(h))
             + One(h \in Range(c.todo)) - One(h \in Range(hcall[p].todo))
        /\ Cardinality(H!Pending(h)') = Cardinality(H!Pending(h))
             + One(c.op = "genref" /\ c.h = h)
             - One(hcall[p].op = "genref" /\ hcall[p].h = h)
    BY <1>0, <1>1, CallersMove DEF One
  <2>2. H!Descs(h)' = H!Descs(h) /\ H!Toks(h)' = H!Toks(h)
    BY <1>1 DEF H!Descs, H!Toks
  <2>3. h \notin Range(hcall[p].todo)
    BY <1>2, RangeFacts
  <2>4. refs'[h] = refs[h] + One(h \in Range(hs))
    BY <1>0, <1>1 DEF One, HandleTypes
  <2> QED
    BY <1>0, <1>2, <2>1, <2>2, <2>3, <2>4, HoldersSum, SameCardinality DEF H!Holders,
         One
<1> QED
  BY <1>4, <1>6, <1>7, <1>8, <1>9 DEF HandlesInv, HandleCounted

\* proc_add_fd(): a new descriptor takes the reference over, or the call fails.
LEMMA AddFdStep ==
  ASSUME H!HandlesAssumption, HandlesInv, NEW p \in H!Procs, H!proc_add_fd(p)
  PROVE  HandlesInv'
<1>0. /\ HandleTypes /\ CallsInStep /\ ExitAlone /\ TokensDiffer /\ HandleCounted /\ FdsDiffer
      /\ p \in H!Actors
  BY DEF HandlesInv, H!Actors
<1> DEFINE s == hcall[p].todo
           fd == next_fd[p]
<1>1. /\ hcall[p].op = "adding" /\ s # <<>>
      /\ fd \in H!Fds
      /\ next_fd' = [next_fd EXCEPT ![p] = @ + 1]
      /\ UNCHANGED <<refs, alive, token_table, token_lock, proc_lock>>
  BY <1>0 DEF H!proc_add_fd, HandleTypes, H!Fds, H!HandlesAssumption, H!tokvars
<1>2. /\ p = Child => proc_lock = NoHandle
      /\ s \in Seq(Handles) /\ Distinct(s) /\ hcall[p].h = NoHandle /\ hcall[p].got \subseteq H!Fds
  BY <1>0, <1>1, CallFacts DEF ExitAlone, H!Idle, H!Call, CallsInStep, CallInStep,
       Reading
<1>3. /\ Head(s) \in Handles /\ Head(s) \in Range(s)
      /\ Tail(s) \in Seq(Handles) /\ Distinct(Tail(s))
      /\ Range(Tail(s)) = Range(s) \ {Head(s)}
  BY <1>1, <1>2, TailFacts
<1>4. \A f \in files[p] : f[1] # fd
  BY <1>0 DEF FdsDiffer, HandleTypes
<1>5. TokensDiffer' /\ next_fd' \in [H!Procs -> Nat \ {0}]
  BY <1>0, <1>1 DEF TokensDiffer, HandleTypes
<1>6. CASE /\ files' = [files EXCEPT ![p] = @ \cup {<<fd, Head(s)>>}]
           /\ hcall' = [hcall EXCEPT ![p] = H!Adding(Tail(s), hcall[p].got \cup {fd})]
  <2> DEFINE c == H!Adding(Tail(s), hcall[p].got \cup {fd})
  <2>1. c \in HCalls /\ c.op = "adding" /\ c.todo = Tail(s) /\ c.h = NoHandle
    BY <1>1, <1>2, <1>3 DEF H!Adding, H!Call, HCalls, Giving
  <2>2. hcall' = [hcall EXCEPT ![p] = c]
    BY <1>6
  <2> HIDE DEF c
  <2>3. hcall'[p] = c
    BY <1>0, <2>2 DEF HandleTypes
  <2>4. \A q \in H!Procs : files'[q] =
          IF q = p THEN files[p] \cup {<<fd, Head(s)>>} ELSE files[q]
    BY <1>0, <1>6 DEF HandleTypes
  <2>5. \A q \in H!Procs : next_fd'[q] = IF q = p THEN fd + 1 ELSE next_fd[q]
    BY <1>0, <1>1 DEF HandleTypes
  <2>6. HandleTypes'
    <3>1. files' \in [H!Procs -> SUBSET (H!Fds \X Handles)]
      BY <1>0, <1>1, <1>3, <1>6 DEF HandleTypes
    <3> QED
      BY <1>0, <1>1, <1>5, <2>1, <2>2, <3>1 DEF HandleTypes
  <2>7. CallInStep(p)'
    BY <1>3, <2>1, <2>3 DEF CallInStep, Reading, Giving
  <2>8. CallsInStep'
    BY <1>0, <1>1, <2>2, <2>4, <2>7, CallChanges
  <2>9. ExitAlone'
    BY <1>0, <1>1, <1>2, <2>2, ExitAloneKept
  <2>10. FdsDiffer'
    <3>1. ASSUME NEW q \in H!Procs, NEW f \in files'[q], NEW g \in files'[q],
                 f[1] = g[1]
          PROVE  f = g
      BY <1>0, <1>4, <2>4, <3>1 DEF FdsDiffer
    <3>2. ASSUME NEW q \in H!Procs, NEW f \in files'[q] PROVE f[1] < next_fd'[q]
      <4>1. f[1] \in Nat /\ next_fd[q] \in Nat /\ fd \in Nat
        BY <1>0, <1>1, <2>6, <3>2 DEF HandleTypes, H!Fds
      <4> QED
        BY <1>0, <2>4, <2>5, <4>1 DEF FdsDiffer
    <3> QED
      BY <3>1, <3>2 DEF FdsDiffer
  <2>11. ASSUME NEW h \in Handles PROVE refs'[h] = H!Holders(h)'
    <3>1. /\ Cardinality(H!Callers(h)') = Cardinality(H!Callers(h))
               + One(h \in Range(c.todo)) - One(h \in Range(hcall[p].todo))
          /\ Cardinality(H!Pending(h)') = Cardinality(H!Pending(h))
               + One(c.op = "genref" /\ c.h = h)
               - One(hcall[p].op = "genref" /\ hcall[p].h = h)
      BY <1>0, <2>2, CallersMove DEF One
    <3>2. /\ fd \in H!Fds /\ <<fd, Head(s)>> \notin files[p] /\ HandleTypes
          /\ files' = [files EXCEPT ![p] = @ \cup {<<fd, Head(s)>>}]
      BY <1>0, <1>1, <1>4, <1>6
    <3>3. Cardinality(H!Descs(h)') = Cardinality(H!Descs(h)) + One(h = Head(s))
      <4>1. PICK n \in H!Fds, g \in Handles : n = fd /\ g = Head(s)
        BY <1>3, <3>2
      <4>2. <<n, g>> \notin files[p] /\ files' = [files EXCEPT ![p] = @ \cup {<<n, g>>}]
        BY <3>2, <4>1
      <4>3. Cardinality(H!Descs(h)') = Cardinality(H!Descs(h)) + One(h = g)
        BY <1>0, <4>2, DescsAdded DEF One
      <4> QED
        BY <4>1, <4>3
    <3>4. H!Toks(h)' = H!Toks(h)
      BY <1>1 DEF H!Toks
    <3>5. One(h \in Range(c.todo)) = One(h \in Range(s)) - One(h = Head(s))
      BY <1>3, <2>1 DEF One
    <3>6. refs' = refs /\ c.op # "genref" /\ hcall[p].op # "genref"
      BY <1>1, <2>1
    <3> QED
      BY <1>0, <3>1, <3>3, <3>4, <3>5, <3>6, HoldersSum, SameCardinality DEF H!Holders,
           One
  <2> QED
    BY <1>5, <2>6, <2>8, <2>9, <2>10, <2>11 DEF HandlesInv, HandleCounted
<1>7. CASE hcall' = [hcall EXCEPT ![p] = [hcall[p] EXCEPT !.op = "undo"]] /\ UNCHANGED files
  <2> DEFINE c == [hcall[p] EXCEPT !.op = "undo"]
  <2>1. c \in HCalls /\ c.op = "undo" /\ c.todo = s /\ c.h = NoHandle
    BY <1>0, <1>2, CallFacts DEF HCalls, Giving
  <2>2. hcall' = [hcall EXCEPT ![p] = c]
    BY <1>7
  <2> HIDE DEF c
  <2>3. hcall'[p] = c
    BY <1>0, <2>2 DEF HandleTypes
  <2>4. HandleTypes'
    BY <1>0, <1>1, <1>5, <1>7, <2>1, <2>2 DEF HandleTypes
  <2>5. CallInStep(p)'
    BY <1>2, <2>1, <2>3 DEF CallInStep, Reading, Giving
  <2>6. CallsInStep'
    BY <1>0, <1>1, <1>7, <2>2, <2>5, CallChanges
  <2>7. ExitAlone'
    BY <1>0, <1>1, <1>2, <2>2, ExitAloneKept
  <2>8. FdsDiffer'
    <3>1. \A q \in H!Procs : next_fd'[q] >= next_fd[q] /\ next_fd[q] \in Nat
      BY <1>0, <1>1 DEF HandleTypes
    <3>2. \A q \in H!Procs : \A f \in files[q] : f[1] \in Nat
      BY <1>0 DEF HandleTypes, H!Fds
    <3>3. \A q \in H!Procs : next_fd'[q] \in Nat
      BY <2>4 DEF HandleTypes
    <3>4. ASSUME NEW q \in H!Procs, NEW f \in files[q] PROVE f[1] < next_fd'[q]
      BY <1>0, <3>1, <3>2, <3>3 DEF FdsDiffer
    <3> QED
      BY <1>0, <1>7, <3>4 DEF FdsDiffer
  <2>9. ASSUME NEW h \in Handles PROVE refs'[h] = H!Holders(h)'
    <3>1. /\ Cardinality(H!Callers(h)') = Cardinality(H!Callers(h))
               + One(h \in Range(c.todo)) - One(h \in Range(hcall[p].todo))
          /\ Cardinality(H!Pending(h)') = Cardinality(H!Pending(h))
               + One(c.op = "genref" /\ c.h = h)
               - One(hcall[p].op = "genref" /\ hcall[p].h = h)
      BY <1>0, <2>2, CallersMove DEF One
    <3>2. H!Descs(h)' = H!Descs(h) /\ H!Toks(h)' = H!Toks(h)
      BY <1>1, <1>7 DEF H!Descs, H!Toks
    <3> QED
      BY <1>0, <1>1, <2>1, <3>1, <3>2, HoldersSum, SameCardinality DEF H!Holders, One
  <2> QED
    BY <1>5, <2>4, <2>6, <2>7, <2>8, <2>9 DEF HandlesInv, HandleCounted
<1> QED
  BY <1>6, <1>7 DEF H!proc_add_fd, H!Go

\* The end of a call that has given all its descriptors.
LEMMA AddedStep ==
  ASSUME H!HandlesAssumption, HandlesInv, NEW p \in H!Procs, H!Added(p)
  PROVE  HandlesInv'
<1>0. /\ HandleTypes /\ CallsInStep /\ ExitAlone /\ p \in H!Actors
      /\ hcall[p].op = "adding" /\ hcall[p].todo = <<>>
      /\ hcall' = [hcall EXCEPT ![p] = H!Idle]
      /\ UNCHANGED <<refs, files, next_fd, alive, token_table, token_lock, proc_lock>>
  BY DEF HandlesInv, H!Actors, H!Added, H!Go, H!tokvars
<1>1. H!Idle \in HCalls /\ H!Idle.op = "idle" /\ H!Idle.todo = <<>> /\ H!Idle.h = NoHandle
  BY DEF H!Idle, H!Call, HCalls
<1>2. hcall'[p] = H!Idle
  BY <1>0 DEF HandleTypes
<1>3. CallInStep(p)'
  BY <1>1, <1>2, RangeFacts DEF CallInStep, Reading, Giving
<1>4. p = Child => proc_lock = NoHandle
  BY <1>0, <1>1 DEF ExitAlone
<1>5. alive' \subseteq H!Procs
  BY <1>0 DEF HandleTypes
<1> QED
  BY <1>0, <1>1, <1>3, <1>4, <1>5, OneCallChanges

\* A descriptor of a process is closed, with the reference of its entry, while
\* no call of that process reads it.
LEMMA FdClosed ==
  ASSUME H!HandlesAssumption, HandlesInv, NEW p \in H!Procs, NEW fd \in H!Fds,
         NEW g \in Handles,
         <<fd, g>> \in files[p],
         files' = [files EXCEPT ![p] = @ \ {<<fd, g>>}],
         refs' = [refs EXCEPT ![g] = @ - 1],
         UNCHANGED <<next_fd, token_table, token_lock>>
  PROVE  /\ files' \in [H!Procs -> SUBSET (H!Fds \X Handles)]
         /\ refs' \in [Handles -> Int]
         /\ \A q \in H!Procs : q # p => files'[q] = files[q]
         /\ FdsDiffer' /\ TokensDiffer'
         /\ \A h \in Handles :
              /\ refs'[h] = refs[h] - One(h = g)
              /\ Cardinality(H!Descs(h)') = Cardinality(H!Descs(h)) - One(h = g)
              /\ H!Toks(h)' = H!Toks(h)
<1>0. HandleTypes /\ TokensDiffer /\ FdsDiffer
  BY DEF HandlesInv
<1>1. /\ files' \in [H!Procs -> SUBSET (H!Fds \X Handles)]
      /\ refs' \in [Handles -> Int]
  BY <1>0 DEF HandleTypes
<1>2. \A q \in H!Procs : files'[q] = IF q = p THEN files[p] \ {<<fd, g>>} ELSE files[q]
  BY <1>0 DEF HandleTypes
<1>3. FdsDiffer'
  BY <1>0, <1>2, FdsKept
<1>4. TokensDiffer'
  BY <1>0 DEF TokensDiffer
<1>5. ASSUME NEW h \in Handles
      PROVE  /\ refs'[h] = refs[h] - One(h = g)
             /\ Cardinality(H!Descs(h)') = Cardinality(H!Descs(h)) - One(h = g)
             /\ H!Toks(h)' = H!Toks(h)
  <2>1. refs'[h] = refs[h] - One(h = g)
    BY <1>0 DEF HandleTypes, One
  <2>2. Cardinality(H!Descs(h)') = Cardinality(H!Descs(h)) - One(h = g)
    BY <1>0, DescsRemoved DEF One
  <2>3. H!Toks(h)' = H!Toks(h)
    BY DEF H!Toks
  <2> QED
    BY <2>1, <2>2, <2>3
<1> QED
  BY <1>1, <1>2, <1>3, <1>4, <1>5

\* The handles of a call are those of its own: a process that closes a
\* descriptor is in no call that has read one.
LEMMA CloseFdStep ==
  ASSUME H!HandlesAssumption, HandlesInv, NEW p \in H!Procs, NEW fd \in H!Fds,
         NEW c \in HCalls,
         H!CloseFd(p, fd),
         hcall' = [hcall EXCEPT ![p] = c],
         c.op = hcall[p].op, c.todo = hcall[p].todo, c.h = NoHandle, hcall[p].h = NoHandle,
         c.op \in {"idle", "undo"},
         p = Child => proc_lock = NoHandle,
         UNCHANGED <<next_fd, alive, token_table, token_lock, proc_lock>>
  PROVE  HandlesInv'
<1>0. /\ HandleTypes /\ CallsInStep /\ ExitAlone /\ TokensDiffer /\ HandleCounted /\ FdsDiffer
      /\ p \in H!Actors
  BY DEF HandlesInv, H!Actors
<1>1. hcall'[p] = c
  BY <1>0 DEF HandleTypes
<1>2. CallInStep(p)'
  BY <1>0, <1>1 DEF CallsInStep, CallInStep, Reading, Giving
<1>3. CASE H!At(p, fd) = {}
  <2>1. UNCHANGED <<refs, files>>
    BY <1>3 DEF H!CloseFd
  <2>2. alive' \subseteq H!Procs
    BY <1>0 DEF HandleTypes
  <2> QED
    BY <1>0, <1>2, <2>1, <2>2, OneCallChanges
<1>4. CASE H!At(p, fd) # {}
  <2>1. PICK g \in Handles : /\ <<fd, g>> \in files[p]
                             /\ files' = [files EXCEPT ![p] = @ \ {<<fd, g>>}]
                             /\ refs' = [refs EXCEPT ![g] = @ - 1]
    BY <1>4 DEF H!CloseFd, H!At, H!unref_file
  <2>2. /\ files' \in [H!Procs -> SUBSET (H!Fds \X Handles)]
        /\ refs' \in [Handles -> Int]
        /\ \A q \in H!Procs : q # p => files'[q] = files[q]
        /\ FdsDiffer' /\ TokensDiffer'
        /\ \A h \in Handles :
             /\ refs'[h] = refs[h] - One(h = g)
             /\ Cardinality(H!Descs(h)') = Cardinality(H!Descs(h)) - One(h = g)
             /\ H!Toks(h)' = H!Toks(h)
    BY <2>1, FdClosed
  <2>3. HandleTypes'
    BY <1>0, <2>2 DEF HandleTypes
  <2>4. CallsInStep'
    BY <1>0, <1>2, <2>2, CallChanges
  <2>5. ExitAlone'
    BY <1>0, ExitAloneKept
  <2>6. ASSUME NEW h \in Handles PROVE refs'[h] = H!Holders(h)'
    <3>1. /\ Cardinality(H!Callers(h)') = Cardinality(H!Callers(h))
               + One(h \in Range(c.todo)) - One(h \in Range(hcall[p].todo))
          /\ Cardinality(H!Pending(h)') = Cardinality(H!Pending(h))
               + One(c.op = "genref" /\ c.h = h)
               - One(hcall[p].op = "genref" /\ hcall[p].h = h)
      BY <1>0, CallersMove DEF One
    <3> QED
      BY <1>0, <2>2, <3>1, HoldersSum, SameCardinality DEF H!Holders, One
  <2> QED
    BY <2>2, <2>3, <2>4, <2>5, <2>6 DEF HandlesInv, HandleCounted
<1> QED
  BY <1>3, <1>4

\* close_sc().
LEMMA CloseStep ==
  ASSUME H!HandlesAssumption, HandlesInv, NEW p \in H!Procs, NEW fd \in H!Fds,
         H!close_sc(p, fd)
  PROVE  HandlesInv'
<1>0. /\ HandleTypes /\ p \in H!Actors /\ hcall[p] = H!Idle
      /\ (p = Child => proc_lock = NoHandle) /\ H!CloseFd(p, fd) /\ hcall' = hcall
      /\ UNCHANGED <<next_fd, alive, token_table, token_lock, proc_lock>>
  BY DEF HandlesInv, H!Actors, H!close_sc, H!Calls, H!Unlocked, H!tokvars
<1>1. H!Idle \in HCalls /\ H!Idle.op = "idle" /\ H!Idle.todo = <<>> /\ H!Idle.h = NoHandle
  BY DEF H!Idle, H!Call, HCalls
<1>2. hcall' = [hcall EXCEPT ![p] = H!Idle]
  BY <1>0 DEF HandleTypes
<1> QED
  BY <1>0, <1>1, <1>2, CloseFdStep

\* The error paths: a descriptor is closed again, or a handle that got none
\* loses its reference.
LEMMA UndoStep ==
  ASSUME H!HandlesAssumption, HandlesInv, NEW p \in H!Procs, H!Undo(p)
  PROVE  HandlesInv'
<1>0. /\ HandleTypes /\ CallsInStep /\ ExitAlone /\ TokensDiffer /\ HandleCounted /\ FdsDiffer
      /\ p \in H!Actors
  BY DEF HandlesInv, H!Actors
<1>1. /\ hcall[p].op = "undo" /\ hcall[p].h = NoHandle
      /\ hcall[p] \in HCalls
      /\ UNCHANGED <<next_fd, alive, token_table, token_lock, proc_lock>>
  BY <1>0, CallFacts DEF H!Undo, H!tokvars, CallsInStep, CallInStep, Reading
<1>2. p = Child => proc_lock = NoHandle
  BY <1>0, <1>1 DEF ExitAlone, H!Idle, H!Call
<1>3. ASSUME NEW fd \in hcall[p].got, H!CloseFd(p, fd),
             hcall' = [hcall EXCEPT ![p] = [hcall[p] EXCEPT !.got = @ \ {fd}]]
      PROVE  HandlesInv'
  <2> DEFINE c == [hcall[p] EXCEPT !.got = @ \ {fd}]
  <2>1. /\ c \in HCalls /\ c.op = hcall[p].op /\ c.todo = hcall[p].todo /\ c.h = hcall[p].h
        /\ fd \in H!Fds
    BY <1>1 DEF HCalls
  <2>2. hcall' = [hcall EXCEPT ![p] = c]
    BY <1>3
  <2> HIDE DEF c
  <2> QED
    BY <1>1, <1>2, <1>3, <2>1, <2>2, CloseFdStep
<1>4. ASSUME hcall[p].todo # <<>>,
             refs' = [refs EXCEPT ![Head(hcall[p].todo)] = @ - 1],
             hcall' = [hcall EXCEPT ![p] =
               IF Len(hcall[p].todo) = 1 THEN H!Idle
               ELSE [hcall[p] EXCEPT !.todo = Tail(@)]],
             files' = files
      PROVE  HandlesInv'
  <2> DEFINE s == hcall[p].todo
             c == IF Len(s) = 1 THEN H!Idle ELSE [hcall[p] EXCEPT !.todo = Tail(@)]
  <2>1. /\ s \in Seq(Handles) /\ Distinct(s)
        /\ Head(s) \in Handles /\ Head(s) \in Range(s)
        /\ Tail(s) \in Seq(Handles) /\ Distinct(Tail(s))
        /\ Range(Tail(s)) = Range(s) \ {Head(s)}
        /\ Len(s) = 1 => Range(s) = {Head(s)}
    <3>1. s \in Seq(Handles) /\ Distinct(s)
      BY <1>0, CallFacts DEF CallsInStep, CallInStep
    <3> QED
      BY <1>4, <3>1, TailFacts
  <2>2. H!Idle \in HCalls /\ H!Idle.op = "idle" /\ H!Idle.todo = <<>> /\ H!Idle.h = NoHandle
    BY DEF H!Idle, H!Call, HCalls
  <2>3. /\ c \in HCalls /\ c.op \in {"idle", "undo"} /\ c.h = NoHandle
        /\ Distinct(c.todo) /\ (c.op = "idle" => c.todo = <<>>)
        /\ Range(c.todo) = Range(s) \ {Head(s)}
    <3>1. CASE Len(s) = 1
      BY <2>1, <2>2, <3>1, RangeFacts
    <3>2. CASE Len(s) # 1
      <4>1. c = [hcall[p] EXCEPT !.todo = Tail(@)]
        BY <3>2
      <4> QED
        BY <1>1, <2>1, <4>1 DEF HCalls
    <3> QED
      BY <3>1, <3>2
  <2>4. hcall' = [hcall EXCEPT ![p] = c]
    BY <1>4
  <2> HIDE DEF c
  <2>5. hcall'[p] = c
    BY <1>0, <2>4 DEF HandleTypes
  <2>6. HandleTypes'
    <3>1. refs' \in [Handles -> Int]
      BY <1>0, <1>4, <2>1 DEF HandleTypes
    <3>2. hcall' \in [H!Actors -> HCalls]
      BY <1>0, <2>3, <2>4 DEF HandleTypes
    <3> QED
      BY <1>0, <1>1, <1>4, <3>1, <3>2 DEF HandleTypes
  <2>7. CallInStep(p)'
    BY <1>0, <1>1, <2>3, <2>5 DEF CallInStep, Reading, Giving
  <2>8. CallsInStep'
    BY <1>0, <1>1, <1>4, <2>4, <2>7, CallChanges
  <2>9. ExitAlone'
    BY <1>0, <1>1, <1>2, <2>4, ExitAloneKept
  <2>10. TokensDiffer' /\ FdsDiffer'
    BY <1>0, <1>1, <1>4 DEF TokensDiffer, FdsDiffer
  <2>11. ASSUME NEW h \in Handles PROVE refs'[h] = H!Holders(h)'
    <3>1. /\ Cardinality(H!Callers(h)') = Cardinality(H!Callers(h))
               + One(h \in Range(c.todo)) - One(h \in Range(hcall[p].todo))
          /\ Cardinality(H!Pending(h)') = Cardinality(H!Pending(h))
               + One(c.op = "genref" /\ c.h = h)
               - One(hcall[p].op = "genref" /\ hcall[p].h = h)
      BY <1>0, <2>4, CallersMove DEF One
    <3>2. H!Descs(h)' = H!Descs(h) /\ H!Toks(h)' = H!Toks(h)
      BY <1>1, <1>4 DEF H!Descs, H!Toks
    <3>3. refs'[h] = refs[h] - One(h = Head(s))
      BY <1>0, <1>4, <2>1 DEF HandleTypes, One
    <3>4. One(h \in Range(c.todo)) = One(h \in Range(s)) - One(h = Head(s))
      BY <2>1, <2>3 DEF One
    <3>5. c.op # "genref" /\ hcall[p].op # "genref"
      BY <1>1, <2>3
    <3> QED
      BY <1>0, <3>1, <3>2, <3>3, <3>4, <3>5, HoldersSum, SameCardinality DEF H!Holders,
           One
  <2> QED
    BY <2>6, <2>8, <2>9, <2>10, <2>11 DEF HandlesInv, HandleCounted
<1>5. \/ \E fd \in hcall[p].got :
           H!CloseFd(p, fd)
             /\ hcall' = [hcall EXCEPT ![p] = [hcall[p] EXCEPT !.got = @ \ {fd}]]
      \/ /\ hcall[p].todo # <<>> /\ files' = files
         /\ refs' = [refs EXCEPT ![Head(hcall[p].todo)] = @ - 1]
         /\ hcall' = [hcall EXCEPT ![p] =
              IF Len(hcall[p].todo) = 1 THEN H!Idle
              ELSE [hcall[p] EXCEPT !.todo = Tail(@)]]
  BY DEF H!Undo, H!Go, H!unref_file
<1> QED
  BY <1>3, <1>4, <1>5

\* proc_read_fd(): the call has read a handle that its process has a descriptor
\* for, and takes no reference.
LEMMA ReadFdStep ==
  ASSUME H!HandlesAssumption, HandlesInv, NEW p \in H!Procs, NEW fd \in H!Fds,
         NEW op \in {"gen", "bind"}, NEW as \in H!Fds \cup {0},
         op = "bind" => as \in H!Fds,
         H!ReadFd(p, fd, op, as)
  PROVE  HandlesInv'
<1>0. /\ HandleTypes /\ CallsInStep /\ p \in H!Actors
      /\ hcall[p] = H!Idle /\ (p = Child => proc_lock = NoHandle)
      /\ UNCHANGED <<refs, files, next_fd, alive, token_table, token_lock, proc_lock>>
  BY DEF HandlesInv, H!Actors, H!ReadFd, H!Calls, H!Unlocked, H!tokvars
<1>1. PICK g \in Handles : /\ <<fd, g>> \in files[p]
                           /\ hcall' = [hcall EXCEPT ![p] = H!Call(op, <<>>, {}, g, as)]
  BY DEF H!ReadFd, H!At, H!Go
<1> DEFINE c == H!Call(op, <<>>, {}, g, as)
<1>2. /\ c \in HCalls /\ c.op = op /\ c.todo = <<>> /\ c.h = g /\ c.fd = as
      /\ g # NoHandle
  <2>1. c = [op |-> op, todo |-> <<>>, got |-> {}, h |-> g, fd |-> as]
    BY DEF H!Call
  <2>2. g # NoHandle /\ op \in Reading
    BY DEF H!HandlesAssumption, Reading
  <2>3. <<>> \in Seq(Handles) /\ {} \subseteq H!Fds
    BY EmptySeq
  <2>4. op \in Reading \cup Giving \cup {"idle", "expire", "exit"}
    BY <2>2
  <2>5. [op |-> op, todo |-> <<>>, got |-> {}, h |-> g, fd |-> as] \in HCalls
    BY <2>3, <2>4 DEF HCalls
  <2> QED
    BY <2>2, <2>5 DEF H!Call
<1>3. hcall' = [hcall EXCEPT ![p] = c] /\ hcall[p].todo = <<>> /\ hcall[p].op = "idle"
  BY <1>0, <1>1 DEF H!Idle, H!Call
<1> HIDE DEF c
<1>4. hcall'[p] = c
  BY <1>0, <1>3 DEF HandleTypes
<1>5. \E n \in H!Fds : <<n, c.h>> \in files'[p]
  BY <1>0, <1>1, <1>2
<1>6. CallInStep(p)'
  BY <1>2, <1>4, <1>5, RangeFacts DEF CallInStep, Reading, Giving
<1>7. alive' \subseteq H!Procs
  BY <1>0 DEF HandleTypes
<1> QED
  BY <1>0, <1>2, <1>3, <1>6, <1>7, OneCallChanges

\* gen_token_for() up to the entry in the table, which has no reference yet; or
\* no memory for it.
LEMMA GenAddStep ==
  ASSUME H!HandlesAssumption, HandlesInv, NEW p \in H!Procs, NEW k \in Tokens,
         H!GenAdd(p, k)
  PROVE  HandlesInv'
<1>0. /\ HandleTypes /\ CallsInStep /\ ExitAlone /\ TokensDiffer /\ HandleCounted /\ FdsDiffer
      /\ p \in H!Actors
  BY DEF HandlesInv, H!Actors
<1>1. /\ hcall[p].op = "gen" /\ token_lock = NoHandle
      /\ \A e \in token_table : e.tok # k
      /\ UNCHANGED <<refs, files, next_fd, alive, proc_lock>>
  BY DEF H!GenAdd
<1>2. /\ hcall[p] \in HCalls /\ hcall[p].h \in Handles /\ hcall[p].todo = <<>>
      /\ p = Child => proc_lock = NoHandle
      /\ \E fd \in H!Fds : <<fd, hcall[p].h>> \in files[p]
  <2>1. hcall[p] \in HCalls /\ hcall[p].h # NoHandle /\ hcall[p].todo = <<>>
        /\ \E fd \in H!Fds : <<fd, hcall[p].h>> \in files[p]
    BY <1>0, <1>1, CallFacts DEF CallsInStep, CallInStep, Reading, Giving
  <2>2. p = Child => proc_lock = NoHandle
    BY <1>1 , <1>0 DEF ExitAlone, H!Idle, H!Call
  <2> QED
    BY <1>0, <2>1, <2>2, CallFacts
<1>3. ASSUME hcall' = [hcall EXCEPT ![p] = H!Idle], UNCHANGED <<token_table, token_lock>>
      PROVE  HandlesInv'
  <2>1. H!Idle \in HCalls /\ H!Idle.op = "idle" /\ H!Idle.todo = <<>> /\ H!Idle.h = NoHandle
    BY DEF H!Idle, H!Call, HCalls
  <2>2. hcall'[p] = H!Idle
    BY <1>0, <1>3 DEF HandleTypes
  <2>3. CallInStep(p)'
    BY <2>1, <2>2, RangeFacts DEF CallInStep, Reading, Giving
  <2>4. alive' \subseteq H!Procs
    BY <1>0, <1>1 DEF HandleTypes
  <2> QED
    BY <1>0, <1>1, <1>2, <1>3, <2>1, <2>3, <2>4, OneCallChanges
<1>4. ASSUME token_table' = token_table \cup {[tok |-> k, h |-> hcall[p].h,
             old |-> FALSE]},
             token_lock' = p,
             hcall' = [hcall EXCEPT ![p] = [hcall[p] EXCEPT !.op = "genref"]]
      PROVE  HandlesInv'
  <2>0. PICK g \in Handles : g = hcall[p].h
    BY <1>2
  <2> DEFINE c == [hcall[p] EXCEPT !.op = "genref"]
             e == [tok |-> k, h |-> g, old |-> FALSE]
  <2>1. /\ c \in HCalls /\ c.op = "genref" /\ c.todo = <<>> /\ c.h = g /\ g # NoHandle
        /\ hcall' = [hcall EXCEPT ![p] = c]
    BY <1>2, <1>4, <2>0 DEF HCalls, Reading, H!HandlesAssumption
  <2>2. /\ e \in [tok : Tokens, h : Handles, old : BOOLEAN] /\ e.h = g /\ e.tok = k
        /\ e \notin token_table /\ token_table' = token_table \cup {e}
    BY <1>1, <1>4, <2>0
  <2> HIDE DEF c, e
  <2>3. hcall'[p] = c
    BY <1>0, <2>1 DEF HandleTypes
  <2>4. HandleTypes'
    <3>1. IsFiniteSet(token_table')
      BY <1>0, <2>2, FS_AddElement DEF HandleTypes
    <3>2. hcall' \in [H!Actors -> HCalls]
      BY <1>0, <2>1 DEF HandleTypes
    <3> QED
      BY <1>0, <1>1, <1>4, <2>2, <3>1, <3>2 DEF HandleTypes
  <2>5. CallInStep(p)'
    <3>1. {x \in token_table' : x.h = hcall'[p].h} # {}
      BY <2>1, <2>2, <2>3
    <3> QED
      BY <1>1, <1>2, <1>4, <2>0, <2>1, <2>3, <3>1, RangeFacts
         DEF CallInStep, Reading, Giving, H!Toks
  <2>6. CallsInStep'
    <3>1. ASSUME NEW b \in H!Actors, b # p, hcall'[b] = hcall[b] PROVE Keeps(b)
      <4>1. b # NoHandle /\ hcall[b].op # "genref"
        BY <1>0, <1>1 DEF H!HandlesAssumption, CallsInStep, CallInStep
      <4> QED
        BY <1>1, <3>1, <4>1 DEF Keeps
    <3> QED
      BY <1>0, <2>1, <2>5, <3>1, CallsKept
  <2>7. ExitAlone'
    BY <1>0, <1>1, <1>2, <2>1, ExitAloneKept
  <2>8. TokensDiffer' /\ FdsDiffer'
    BY <1>0, <1>1, <2>2 DEF TokensDiffer, FdsDiffer
  <2>9. ASSUME NEW h \in Handles PROVE refs'[h] = H!Holders(h)'
    <3>1. /\ Cardinality(H!Callers(h)') = Cardinality(H!Callers(h))
               + One(h \in Range(c.todo)) - One(h \in Range(hcall[p].todo))
          /\ Cardinality(H!Pending(h)') = Cardinality(H!Pending(h))
               + One(c.op = "genref" /\ c.h = h)
               - One(hcall[p].op = "genref" /\ hcall[p].h = h)
      BY <1>0, <2>1, CallersMove DEF One
    <3>2. H!Descs(h)' = H!Descs(h)
      BY <1>1 DEF H!Descs
    <3>3. Cardinality(H!Toks(h)') = Cardinality(H!Toks(h)) + One(h = e.h)
      BY <1>0, <2>2, ToksAdded DEF One
    <3>4. Range(c.todo) = Range(hcall[p].todo) /\ refs' = refs /\ hcall[p].op # "genref"
      BY <1>1, <1>2, <2>1
    <3>5. c.op = "genref" /\ c.h = g /\ e.h = g
      BY <2>1, <2>2
    <3>6. Cardinality(H!Callers(h)') = Cardinality(H!Callers(h))
      BY <1>0, <3>1, <3>4, HoldersFinite DEF One
    <3>7. Cardinality(H!Pending(h)') = Cardinality(H!Pending(h)) + One(h = g)
      BY <1>0, <3>1, <3>4, <3>5, HoldersFinite DEF One
    <3>8. Cardinality(H!Toks(h)') = Cardinality(H!Toks(h)) + One(h = g)
      BY <3>3, <3>5
    <3> QED
      BY <1>0, <3>2, <3>4, <3>6, <3>7, <3>8, HoldersSum, SameCardinality DEF H!Holders,
           One
  <2> QED
    BY <2>4, <2>6, <2>7, <2>8, <2>9 DEF HandlesInv, HandleCounted
<1> QED
  BY <1>3, <1>4 DEF H!GenAdd, H!Go, H!tokvars

\* The token takes its reference, and the lock is given up.
LEMMA GenRefStep ==
  ASSUME H!HandlesAssumption, HandlesInv, NEW p \in H!Procs, H!GenRef(p)
  PROVE  HandlesInv'
<1>0. /\ HandleTypes /\ CallsInStep /\ ExitAlone /\ TokensDiffer /\ HandleCounted /\ FdsDiffer
      /\ p \in H!Actors
  BY DEF HandlesInv, H!Actors
<1>1. /\ hcall[p].op = "genref" /\ token_lock' = NoHandle
      /\ refs' = [refs EXCEPT ![hcall[p].h] = @ + 1]
      /\ hcall' = [hcall EXCEPT ![p] = H!Idle]
      /\ UNCHANGED <<files, next_fd, alive, token_table, proc_lock>>
  BY DEF H!GenRef, H!TokenRef, H!ref_file, H!Go
<1>2. /\ hcall[p].h \in Handles /\ hcall[p].todo = <<>> /\ token_lock = p
      /\ p = Child => proc_lock = NoHandle
  <2>1. hcall[p].h # NoHandle /\ hcall[p].todo = <<>> /\ token_lock = p
    BY <1>0, <1>1 DEF CallsInStep, CallInStep, Reading, Giving
  <2>2. p = Child => proc_lock = NoHandle
    BY <1>1, <1>0 DEF ExitAlone, H!Idle, H!Call
  <2> QED
    BY <1>0, <2>1, <2>2, CallFacts
<1>3. H!Idle \in HCalls /\ H!Idle.op = "idle" /\ H!Idle.todo = <<>> /\ H!Idle.h = NoHandle
  BY DEF H!Idle, H!Call, HCalls
<1>4. hcall'[p] = H!Idle
  BY <1>0, <1>1 DEF HandleTypes
<1>5. HandleTypes'
  <2>1. refs' \in [Handles -> Int]
    BY <1>0, <1>1, <1>2 DEF HandleTypes
  <2> QED
    BY <1>0, <1>1, <1>3, <2>1 DEF HandleTypes
<1>6. CallInStep(p)'
  BY <1>3, <1>4, RangeFacts DEF CallInStep, Reading, Giving
<1>7. CallsInStep'
  <2>1. ASSUME NEW b \in H!Actors, b # p, hcall'[b] = hcall[b] PROVE Keeps(b)
    BY <1>1, <1>2, <2>1 DEF Keeps, H!Toks
  <2> QED
    BY <1>0, <1>1, <1>6, <2>1, CallsKept
<1>8. ExitAlone'
  BY <1>0, <1>1, <1>2, ExitAloneKept
<1>9. TokensDiffer' /\ FdsDiffer'
  BY <1>0, <1>1 DEF TokensDiffer, FdsDiffer
<1>10. ASSUME NEW h \in Handles PROVE refs'[h] = H!Holders(h)'
  <2>1. /\ Cardinality(H!Callers(h)') = Cardinality(H!Callers(h))
             + One(h \in Range(H!Idle.todo)) - One(h \in Range(hcall[p].todo))
        /\ Cardinality(H!Pending(h)') = Cardinality(H!Pending(h))
             + One(H!Idle.op = "genref" /\ H!Idle.h = h)
             - One(hcall[p].op = "genref" /\ hcall[p].h = h)
    BY <1>0, <1>1, CallersMove DEF One
  <2>2. H!Descs(h)' = H!Descs(h) /\ H!Toks(h)' = H!Toks(h)
    BY <1>1 DEF H!Descs, H!Toks
  <2>3. refs'[h] = refs[h] + One(hcall[p].h = h)
    BY <1>0, <1>1, <1>2 DEF HandleTypes, One
  <2>4. H!Idle.op # "genref" /\ Range(H!Idle.todo) = Range(hcall[p].todo)
    BY <1>2, <1>3
  <2> QED
    BY <1>0, <1>1, <2>1, <2>2, <2>3, <2>4, HoldersSum, SameCardinality DEF H!Holders,
         One
<1> QED
  BY <1>5, <1>7, <1>8, <1>9, <1>10 DEF HandlesInv, HandleCounted

\* use_token(): the reference of the token becomes the call's.
LEMMA UseTokenStep ==
  ASSUME H!HandlesAssumption, HandlesInv, NEW p \in H!Procs, NEW k \in Tokens,
         H!use_token_sc(p, k)
  PROVE  HandlesInv'
<1>0. /\ HandleTypes /\ CallsInStep /\ ExitAlone /\ TokensDiffer /\ HandleCounted /\ FdsDiffer
      /\ p \in H!Actors
  BY DEF HandlesInv, H!Actors
<1>1. PICK e \in token_table : /\ token_table' = token_table \ {e}
                               /\ hcall' = [hcall EXCEPT ![p] = H!Adding(<<e.h>>, {})]
  BY DEF H!use_token_sc, H!Go
<1>2. /\ hcall[p] = H!Idle /\ token_lock = NoHandle /\ (p = Child => proc_lock = NoHandle)
      /\ UNCHANGED <<refs, files, next_fd, alive, token_lock, proc_lock>>
  BY DEF H!use_token_sc, H!Calls, H!Unlocked
<1> DEFINE c == H!Adding(<<e.h>>, {})
<1>3. /\ c \in HCalls /\ c.op = "adding" /\ c.todo = <<e.h>> /\ c.h = NoHandle
      /\ Range(c.todo) = {e.h} /\ Distinct(c.todo)
      /\ hcall[p].op = "idle" /\ hcall[p].todo = <<>>
  <2>1. e.h \in Handles
    BY <1>0 DEF HandleTypes
  <2>2. /\ c.op = "adding" /\ c.todo = <<e.h>> /\ c.h = NoHandle
        /\ c = [op |-> "adding", todo |-> <<e.h>>, got |-> {}, h |-> NoHandle, fd |-> 0]
    BY DEF H!Adding, H!Call
  <2>3. c \in HCalls
    <3>1. <<e.h>> \in Seq(Handles) /\ {} \subseteq H!Fds
      BY <2>1
    <3>2. [op |-> "adding", todo |-> <<e.h>>, got |-> {}, h |-> NoHandle, fd |-> 0] \in HCalls
      BY <3>1 DEF HCalls, Giving
    <3> QED
      BY <3>2 DEF H!Adding, H!Call
  <2>4. Range(c.todo) = {e.h} /\ Distinct(c.todo)
    BY <2>2, RangeFacts
  <2> QED
    BY <1>2, <2>2, <2>3, <2>4 DEF H!Idle, H!Call
<1>4. hcall' = [hcall EXCEPT ![p] = c]
  BY <1>1
<1> HIDE DEF c
<1>5. hcall'[p] = c
  BY <1>0, <1>4 DEF HandleTypes
<1>6. HandleTypes'
  <2>1. token_table' \subseteq token_table /\ IsFiniteSet(token_table')
    BY <1>0, <1>1, FS_RemoveElement DEF HandleTypes
  <2> QED
    BY <1>0, <1>2, <1>3, <1>4, <2>1 DEF HandleTypes
<1>7. CallInStep(p)'
  BY <1>3, <1>5 DEF CallInStep, Reading, Giving
<1>8. CallsInStep'
  <2>1. ASSUME NEW b \in H!Actors, b # p, hcall'[b] = hcall[b] PROVE Keeps(b)
    <3>1. b # NoHandle /\ hcall[b].op # "genref"
      BY <1>0, <1>2 DEF H!HandlesAssumption, CallsInStep, CallInStep
    <3> QED
      BY <1>2, <2>1, <3>1 DEF Keeps
  <2> QED
    BY <1>0, <1>4, <1>7, <2>1, CallsKept
<1>9. ExitAlone'
  BY <1>0, <1>2, <1>4, ExitAloneKept
<1>10. TokensDiffer' /\ FdsDiffer'
  BY <1>0, <1>1, <1>2 DEF TokensDiffer, FdsDiffer
<1>11. ASSUME NEW h \in Handles PROVE refs'[h] = H!Holders(h)'
  <2>1. /\ Cardinality(H!Callers(h)') = Cardinality(H!Callers(h))
             + One(h \in Range(c.todo)) - One(h \in Range(hcall[p].todo))
        /\ Cardinality(H!Pending(h)') = Cardinality(H!Pending(h))
             + One(c.op = "genref" /\ c.h = h)
             - One(hcall[p].op = "genref" /\ hcall[p].h = h)
    BY <1>0, <1>4, CallersMove DEF One
  <2>2. H!Descs(h)' = H!Descs(h) /\ refs' = refs
    BY <1>2 DEF H!Descs
  <2>3. Cardinality(H!Toks(h)') = Cardinality(H!Toks(h)) - One(h = e.h)
    BY <1>0, <1>1, ToksRemoved DEF One
  <2>4. h \notin Range(hcall[p].todo)
    BY <1>3, RangeFacts
  <2>5. Cardinality(H!Callers(h)') = Cardinality(H!Callers(h)) + One(h = e.h)
    BY <1>0, <1>3, <2>1, <2>4, HoldersFinite DEF One
  <2>6. Cardinality(H!Pending(h)') = Cardinality(H!Pending(h))
    BY <1>0, <1>3, <2>1, HoldersFinite DEF One
  <2> QED
    BY <1>0, <2>2, <2>3, <2>5, <2>6, HoldersSum, SameCardinality DEF H!Holders, One
<1> QED
  BY <1>6, <1>8, <1>9, <1>10, <1>11 DEF HandlesInv, HandleCounted

\* bind_fd_sc() takes a reference on the handle it has read.
LEMMA BindRefStep ==
  ASSUME H!HandlesAssumption, HandlesInv, NEW p \in H!Procs, H!BindRef(p)
  PROVE  HandlesInv'
<1>0. /\ HandleTypes /\ CallsInStep /\ ExitAlone /\ TokensDiffer /\ HandleCounted /\ FdsDiffer
      /\ p \in H!Actors
  BY DEF HandlesInv, H!Actors
<1>1. /\ hcall[p].op = "bind"
      /\ refs' = [refs EXCEPT ![hcall[p].h] = @ + 1]
      /\ hcall' = [hcall EXCEPT ![p] = H!Call("bindadd", <<hcall[p].h>>, {}, NoHandle, hcall[p].fd)]
      /\ UNCHANGED <<files, next_fd, alive, token_table, token_lock, proc_lock>>
  BY DEF H!BindRef, H!ref_file, H!Go, H!tokvars
<1>2. /\ hcall[p].h \in Handles /\ hcall[p].todo = <<>> /\ hcall[p].fd \in H!Fds
      /\ p = Child => proc_lock = NoHandle
  <2>1. hcall[p].h # NoHandle /\ hcall[p].todo = <<>> /\ hcall[p].fd \in H!Fds
    BY <1>0, <1>1 DEF CallsInStep, CallInStep, Reading, Giving
  <2>2. p = Child => proc_lock = NoHandle
    BY <1>1, <1>0 DEF ExitAlone, H!Idle, H!Call
  <2> QED
    BY <1>0, <2>1, <2>2, CallFacts
<1>3. PICK g \in Handles : g = hcall[p].h
  BY <1>2
<1> DEFINE c == H!Call("bindadd", <<g>>, {}, NoHandle, hcall[p].fd)
<1>4. /\ c \in HCalls /\ c.op = "bindadd" /\ c.todo = <<g>> /\ c.h = NoHandle /\ c.fd \in H!Fds
      /\ Range(c.todo) = {g} /\ Distinct(c.todo)
  <2>1. /\ c.op = "bindadd" /\ c.todo = <<g>> /\ c.h = NoHandle /\ c.fd = hcall[p].fd
        /\ c = [op |-> "bindadd", todo |-> <<g>>, got |-> {}, h |-> NoHandle, fd |-> hcall[p].fd]
    BY DEF H!Call
  <2>2. c \in HCalls
    <3>1. <<g>> \in Seq(Handles) /\ {} \subseteq H!Fds /\ hcall[p].fd \in H!Fds
      BY <1>2
    <3>2. [op |-> "bindadd", todo |-> <<g>>, got |-> {}, h |-> NoHandle, fd |-> hcall[p].fd] \in HCalls
      BY <3>1 DEF HCalls, Giving
    <3> QED
      BY <3>2 DEF H!Call
  <2> QED
    BY <1>2, <2>1, <2>2, RangeFacts
<1>5. hcall' = [hcall EXCEPT ![p] = c]
  BY <1>1, <1>3
<1> HIDE DEF c
<1>6. hcall'[p] = c
  BY <1>0, <1>5 DEF HandleTypes
<1>7. HandleTypes'
  <2>1. refs' \in [Handles -> Int]
    BY <1>0, <1>1, <1>2 DEF HandleTypes
  <2>2. hcall' \in [H!Actors -> HCalls]
    BY <1>0, <1>4, <1>5 DEF HandleTypes
  <2> QED
    BY <1>0, <1>1, <2>1, <2>2 DEF HandleTypes
<1>8. CallInStep(p)'
  BY <1>4, <1>6 DEF CallInStep, Reading, Giving
<1>9. CallsInStep'
  BY <1>0, <1>1, <1>5, <1>8, CallChanges
<1>10. ExitAlone'
  BY <1>0, <1>1, <1>2, <1>5, ExitAloneKept
<1>11. TokensDiffer' /\ FdsDiffer'
  BY <1>0, <1>1 DEF TokensDiffer, FdsDiffer
<1>12. ASSUME NEW h \in Handles PROVE refs'[h] = H!Holders(h)'
  <2>1. /\ Cardinality(H!Callers(h)') = Cardinality(H!Callers(h))
             + One(h \in Range(c.todo)) - One(h \in Range(hcall[p].todo))
        /\ Cardinality(H!Pending(h)') = Cardinality(H!Pending(h))
             + One(c.op = "genref" /\ c.h = h)
             - One(hcall[p].op = "genref" /\ hcall[p].h = h)
    BY <1>0, <1>5, CallersMove DEF One
  <2>2. H!Descs(h)' = H!Descs(h) /\ H!Toks(h)' = H!Toks(h)
    BY <1>1 DEF H!Descs, H!Toks
  <2>3. refs'[h] = refs[h] + One(h = g)
    BY <1>0, <1>1, <1>3 DEF HandleTypes, One
  <2>4. h \notin Range(hcall[p].todo)
    BY <1>2, RangeFacts
  <2>5. Cardinality(H!Callers(h)') = Cardinality(H!Callers(h)) + One(h = g)
    BY <1>0, <1>4, <2>1, <2>4, HoldersFinite DEF One
  <2>6. Cardinality(H!Pending(h)') = Cardinality(H!Pending(h))
    BY <1>0, <1>1, <1>4, <2>1, HoldersFinite DEF One
  <2> QED
    BY <1>0, <2>2, <2>3, <2>5, <2>6, HoldersSum, SameCardinality DEF H!Holders, One
<1> QED
  BY <1>7, <1>9, <1>10, <1>11, <1>12 DEF HandlesInv, HandleCounted

\* proc_add_fd_as(): the child's descriptor takes the reference over, or the
\* call fails.
LEMMA AddFdAsStep ==
  ASSUME H!HandlesAssumption, HandlesInv, NEW p \in H!Procs, H!proc_add_fd_as(p)
  PROVE  HandlesInv'
<1>0. /\ HandleTypes /\ CallsInStep /\ ExitAlone /\ TokensDiffer /\ HandleCounted /\ FdsDiffer
      /\ p \in H!Actors /\ Child \in H!Procs
  BY DEF HandlesInv, H!Actors, H!Procs
<1>1. /\ hcall[p].op = "bindadd" /\ proc_lock = NoHandle
      /\ UNCHANGED <<refs, alive, token_table, token_lock, proc_lock>>
  BY DEF H!proc_add_fd_as, H!tokvars
<1>2. /\ hcall[p] \in HCalls /\ hcall[p].h = NoHandle /\ hcall[p].fd \in H!Fds
      /\ hcall[p].todo \in Seq(Handles) /\ Len(hcall[p].todo) = 1 /\ Distinct(hcall[p].todo)
  BY <1>0, <1>1, CallFacts DEF CallsInStep, CallInStep, Reading
<1>3. PICK n \in H!Fds, s \in Seq(Handles) : n = hcall[p].fd /\ s = hcall[p].todo
  BY <1>2
<1> DEFINE free == Child \in alive /\ H!At(Child, n) = {}
<1>4. next_fd' = [next_fd EXCEPT ![Child] = IF free THEN H!Above(n, @) ELSE @]
  BY <1>3 DEF H!proc_add_fd_as
<1>5. \/ /\ free /\ hcall' = [hcall EXCEPT ![p] = H!Idle]
         /\ files' = [files EXCEPT ![Child] = @ \cup {<<n, Head(s)>>}]
      \/ /\ hcall' = [hcall EXCEPT ![p] = [hcall[p] EXCEPT !.op = "undo"]]
         /\ files' = files
  BY <1>3 DEF H!proc_add_fd_as, H!Go
<1>6. /\ \A q \in H!Procs : next_fd'[q] \in Nat \ {0} /\ next_fd'[q] >= next_fd[q]
      /\ free => next_fd'[Child] > n
      /\ next_fd' \in [H!Procs -> Nat \ {0}]
  <2>1. next_fd[Child] \in Nat \ {0} /\ n \in Nat \ {0}
    BY <1>0, <1>3 DEF HandleTypes, H!Fds
  <2>2. /\ H!Above(n, next_fd[Child]) \in Nat \ {0}
        /\ H!Above(n, next_fd[Child]) >= next_fd[Child] /\ H!Above(n, next_fd[Child]) > n
    BY <2>1 DEF H!Above
  <2>3. next_fd' = [next_fd EXCEPT ![Child] = IF free THEN H!Above(n, next_fd[Child])
                                              ELSE next_fd[Child]]
    BY <1>4
  <2> HIDE DEF free
  <2> QED
    BY <1>0, <2>1, <2>2, <2>3 DEF HandleTypes
<1> HIDE DEF free
<1>7. /\ Head(s) \in Handles /\ Head(s) \in Range(s)
      /\ Distinct(s) /\ Range(s) = {Head(s)}
  <2>1. Distinct(s) /\ Len(s) = 1
    BY <1>2, <1>3
  <2>2. s # <<>>
    <3>1. Len(s) # 0
      BY <2>1
    <3> QED
      BY <3>1, EmptySeq, Zenon
  <2> QED
    BY <2>1, <2>2, TailFacts
<1>8. TokensDiffer'
  BY <1>0, <1>1 DEF TokensDiffer
<1>9. \A q \in H!Procs : \A f \in files[q] : f[1] \in Nat /\ f[1] < next_fd'[q]
  <2>1. ASSUME NEW q \in H!Procs, NEW f \in files[q] PROVE f[1] \in Nat /\ f[1] < next_fd'[q]
    <3>1. f[1] \in Nat /\ next_fd[q] \in Nat /\ f[1] < next_fd[q]
      BY <1>0 DEF HandleTypes, H!Fds, FdsDiffer
    <3> QED
      BY <1>6, <3>1
  <2> QED
    BY <2>1
<1>10. CASE /\ free /\ hcall' = [hcall EXCEPT ![p] = H!Idle]
            /\ files' = [files EXCEPT ![Child] = @ \cup {<<n, Head(s)>>}]
  <2>1. H!Idle \in HCalls /\ H!Idle.op = "idle" /\ H!Idle.todo = <<>> /\ H!Idle.h = NoHandle
    BY DEF H!Idle, H!Call, HCalls
  <2>2. hcall'[p] = H!Idle
    BY <1>0, <1>10 DEF HandleTypes
  <2>3. \A f \in files[Child] : f[1] # n
    <3>1. ASSUME NEW f \in files[Child], f[1] = n PROVE FALSE
      <4>1. f \in H!Fds \X Handles
        BY <1>0 DEF HandleTypes
      <4>2. f = <<n, f[2]>> /\ f[2] \in Handles
        BY <3>1, <4>1
      <4>3. f[2] \in H!At(Child, n)
        BY <4>2 DEF H!At
      <4> QED
        BY <1>10, <4>3 DEF free
    <3> QED
      BY <3>1
  <2>4. \A q \in H!Procs : files'[q] =
          IF q = Child THEN files[Child] \cup {<<n, Head(s)>>} ELSE files[q]
    BY <1>0, <1>10 DEF HandleTypes
  <2>5. HandleTypes'
    <3>1. files' \in [H!Procs -> SUBSET (H!Fds \X Handles)]
      BY <1>0, <1>7, <1>10 DEF HandleTypes
    <3>2. hcall' \in [H!Actors -> HCalls]
      BY <1>0, <1>10, <2>1 DEF HandleTypes
    <3> QED
      BY <1>0, <1>1, <1>6, <3>1, <3>2 DEF HandleTypes
  <2>6. CallInStep(p)'
    BY <2>1, <2>2, RangeFacts DEF CallInStep, Reading, Giving
  <2>7. CallsInStep'
    <3>1. \A q \in H!Procs : files[q] \subseteq files'[q]
      BY <2>4
    <3> QED
      BY <1>0, <1>1, <1>10, <2>6, <3>1, CallChanges
  <2>8. ExitAlone'
    BY <1>0, <1>1, <1>10, ExitAloneKept
  <2>9. FdsDiffer'
    <3>1. ASSUME NEW q \in H!Procs, NEW f \in files'[q], NEW g \in files'[q],
                 f[1] = g[1]
          PROVE  f = g
      BY <1>0, <2>3, <2>4, <3>1 DEF FdsDiffer
    <3>2. ASSUME NEW q \in H!Procs, NEW f \in files'[q] PROVE f[1] < next_fd'[q]
      BY <1>6, <1>9, <1>10, <2>4
    <3> QED
      BY <3>1, <3>2 DEF FdsDiffer
  <2>10. ASSUME NEW h \in Handles PROVE refs'[h] = H!Holders(h)'
    <3>1. /\ Cardinality(H!Callers(h)') = Cardinality(H!Callers(h))
               + One(h \in Range(H!Idle.todo)) - One(h \in Range(hcall[p].todo))
          /\ Cardinality(H!Pending(h)') = Cardinality(H!Pending(h))
               + One(H!Idle.op = "genref" /\ H!Idle.h = h)
               - One(hcall[p].op = "genref" /\ hcall[p].h = h)
      BY <1>0, <1>10, CallersMove DEF One
    <3>2. PICK g \in Handles : g = Head(s)
      BY <1>7
    <3>3. /\ <<n, g>> \notin files[Child]
          /\ files' = [files EXCEPT ![Child] = @ \cup {<<n, g>>}]
      BY <1>10, <2>3, <3>2
    <3>4. Cardinality(H!Descs(h)') = Cardinality(H!Descs(h)) + One(h = g)
      BY <1>0, <3>3, DescsAdded DEF One
    <3>5. H!Toks(h)' = H!Toks(h) /\ refs' = refs
      BY <1>1 DEF H!Toks
    <3>6. Cardinality(H!Callers(h)') = Cardinality(H!Callers(h)) - One(h \in Range(s))
      BY <1>0, <1>3, <2>1, <3>1, HoldersFinite, RangeFacts DEF One
    <3>7. Cardinality(H!Pending(h)') = Cardinality(H!Pending(h))
      BY <1>0, <1>1, <2>1, <3>1, HoldersFinite DEF One
    <3>8. Range(s) = {g}
      BY <1>7, <3>2
    <3>9. Cardinality(H!Callers(h)') = Cardinality(H!Callers(h)) - One(h = g)
      BY <3>6, <3>8 DEF One
    <3>10. /\ refs[h] = Cardinality(H!Descs(h)) + Cardinality(H!Toks(h))
                           + Cardinality(H!Callers(h)) - Cardinality(H!Pending(h))
           /\ Cardinality(H!Descs(h)) \in Nat /\ Cardinality(H!Toks(h)) \in Nat
           /\ Cardinality(H!Callers(h)) \in Nat /\ Cardinality(H!Pending(h)) \in Nat
      BY <1>0, HoldersSum
    <3>11. One(h = g) \in {0, 1}
      BY DEF One
    <3> QED
      BY <3>4, <3>5, <3>7, <3>9, <3>10, <3>11, SameCardinality DEF H!Holders
  <2> QED
    BY <1>8, <2>5, <2>7, <2>8, <2>9, <2>10 DEF HandlesInv, HandleCounted
<1>11. CASE /\ hcall' = [hcall EXCEPT ![p] = [hcall[p] EXCEPT !.op = "undo"]]
            /\ files' = files
  <2> DEFINE c == [hcall[p] EXCEPT !.op = "undo"]
  <2>1. c \in HCalls /\ c.op = "undo" /\ c.todo = hcall[p].todo /\ c.h = NoHandle
    BY <1>2 DEF HCalls, Giving
  <2>2. hcall' = [hcall EXCEPT ![p] = c]
    BY <1>11
  <2> HIDE DEF c
  <2>3. hcall'[p] = c
    BY <1>0, <2>2 DEF HandleTypes
  <2>4. HandleTypes'
    <3>1. hcall' \in [H!Actors -> HCalls]
      BY <1>0, <2>1, <2>2 DEF HandleTypes
    <3> QED
      BY <1>0, <1>1, <1>6, <1>11, <3>1 DEF HandleTypes
  <2>5. CallInStep(p)'
    BY <1>0, <1>2, <2>1, <2>3 DEF CallInStep, Reading, Giving
  <2>6. CallsInStep'
    BY <1>0, <1>1, <1>11, <2>2, <2>5, CallChanges
  <2>7. ExitAlone'
    BY <1>0, <1>1, <2>2, ExitAloneKept
  <2>8. FdsDiffer'
    BY <1>0, <1>9, <1>11 DEF FdsDiffer
  <2>9. ASSUME NEW h \in Handles PROVE refs'[h] = H!Holders(h)'
    <3>1. /\ Cardinality(H!Callers(h)') = Cardinality(H!Callers(h))
               + One(h \in Range(c.todo)) - One(h \in Range(hcall[p].todo))
          /\ Cardinality(H!Pending(h)') = Cardinality(H!Pending(h))
               + One(c.op = "genref" /\ c.h = h)
               - One(hcall[p].op = "genref" /\ hcall[p].h = h)
      BY <1>0, <2>2, CallersMove DEF One
    <3>2. H!Descs(h)' = H!Descs(h) /\ H!Toks(h)' = H!Toks(h)
      BY <1>1, <1>11 DEF H!Descs, H!Toks
    <3> QED
      BY <1>0, <1>1, <2>1, <3>1, <3>2, HoldersSum, SameCardinality DEF H!Holders, One
  <2> QED
    BY <1>8, <2>4, <2>6, <2>7, <2>8, <2>9 DEF HandlesInv, HandleCounted
<1> QED
  BY <1>5, <1>10, <1>11

\* Time passes for a token: another record stands for the same one.
LEMMA AgeStep ==
  ASSUME H!HandlesAssumption, HandlesInv, H!Age
  PROVE  HandlesInv'
<1>0. /\ HandleTypes /\ CallsInStep /\ ExitAlone /\ TokensDiffer /\ HandleCounted /\ FdsDiffer
      /\ UNCHANGED <<refs, files, next_fd, alive, token_lock, proc_lock, hcall>>
  BY DEF HandlesInv, H!Age
<1>1. PICK e \in token_table :
        /\ ~ e.old
        /\ token_table' = (token_table \ {e}) \cup {[e EXCEPT !.old = TRUE]}
  BY DEF H!Age
<1> DEFINE d == [e EXCEPT !.old = TRUE]
<1>2. /\ e \in [tok : Tokens, h : Handles, old : BOOLEAN]
      /\ d \in [tok : Tokens, h : Handles, old : BOOLEAN]
      /\ d.tok = e.tok /\ d.h = e.h /\ d.old = TRUE
  BY <1>0 DEF HandleTypes
<1>3. token_table' = (token_table \ {e}) \cup {d} /\ d # e
  BY <1>1, <1>2
<1> HIDE DEF d
<1>4. d \notin token_table
  BY <1>0, <1>2, <1>3 DEF TokensDiffer
<1>5. HandleTypes'
  <2>1. IsFiniteSet(token_table')
    BY <1>0, <1>3, FS_RemoveElement, FS_AddElement DEF HandleTypes
  <2> QED
    BY <1>0, <1>2, <1>3, <2>1 DEF HandleTypes
<1>6. \A h : H!Toks(h) # {} => H!Toks(h)' # {}
  <2>1. ASSUME NEW h, NEW x \in H!Toks(h) PROVE H!Toks(h)' # {}
    <3>1. CASE x = e
      <4>1. d \in H!Toks(h)'
        BY <1>2, <1>3, <3>1 DEF H!Toks
      <4> QED
        BY <4>1
    <3>2. CASE x # e
      <4>1. x \in H!Toks(h)'
        BY <1>3, <3>2 DEF H!Toks
      <4> QED
        BY <4>1
    <3> QED
      BY <3>1, <3>2
  <2> QED
    BY <2>1
<1>7. CallsInStep'
  <2>1. ASSUME NEW b \in H!Actors PROVE CallInStep(b)'
    <3>1. Keeps(b)
      BY <1>0, <1>6 DEF Keeps
    <3> QED
      BY <1>0, <3>1, CallKept DEF CallsInStep
  <2> QED
    BY <2>1 DEF CallsInStep
<1>8. ExitAlone' /\ FdsDiffer'
  BY <1>0 DEF ExitAlone, FdsDiffer
<1>9. TokensDiffer'
  BY <1>0, <1>2, <1>3 DEF TokensDiffer
<1>10. ASSUME NEW h \in Handles PROVE refs'[h] = H!Holders(h)'
  <2>1. H!Descs(h)' = H!Descs(h) /\ H!Callers(h)' = H!Callers(h) /\ H!Pending(h)' = H!Pending(h)
    BY <1>0, SameRange DEF H!Descs, H!Callers, H!Pending
  <2>2. IsFiniteSet(H!Toks(h)) /\ Cardinality(H!Toks(h)) \in Nat
    BY <1>0, HoldersFinite
  <2>3. Cardinality(H!Toks(h)') = Cardinality(H!Toks(h))
    <3>1. CASE h = e.h
      <4>1. H!Toks(h)' = (H!Toks(h) \ {e}) \cup {d} /\ e \in H!Toks(h) /\ d \notin H!Toks(h) \ {e}
        BY <1>2, <1>3, <1>4, <3>1 DEF H!Toks
      <4>2. /\ IsFiniteSet(H!Toks(h) \ {e})
            /\ Cardinality(H!Toks(h) \ {e}) = Cardinality(H!Toks(h)) - 1
        BY <2>2, <4>1, FS_RemoveElement
      <4>3. Cardinality((H!Toks(h) \ {e}) \cup {d}) = Cardinality(H!Toks(h) \ {e}) + 1
        BY <4>1, <4>2, FS_AddElement
      <4> QED
        BY <2>2, <4>1, <4>2, <4>3
    <3>2. CASE h # e.h
      <4>1. H!Toks(h)' = H!Toks(h)
        BY <1>2, <1>3, <3>2 DEF H!Toks
      <4> QED
        BY <4>1
    <3> QED
      BY <3>1, <3>2
  <2>4. refs' = refs /\ refs[h] = H!Holders(h)
    BY <1>0 DEF HandleCounted
  <2> QED
    BY <2>1, <2>3, <2>4, SameCardinality DEF H!Holders
<1> QED
  BY <1>5, <1>7, <1>8, <1>9, <1>10 DEF HandlesInv, HandleCounted

\* token_expiration_check() takes the lock of the tokens ...
LEMMA ExpireBeginStep ==
  ASSUME H!HandlesAssumption, HandlesInv, H!ExpireBegin
  PROVE  HandlesInv'
<1>0. /\ HandleTypes /\ CallsInStep /\ ExitAlone /\ TokensDiffer /\ HandleCounted /\ FdsDiffer
      /\ Worker \in H!Actors /\ Worker # Child
      /\ hcall[Worker] = H!Idle /\ token_lock = NoHandle /\ token_lock' = Worker
      /\ hcall' = [hcall EXCEPT ![Worker] = [H!Idle EXCEPT !.op = "expire"]]
      /\ UNCHANGED <<refs, files, next_fd, alive, token_table, proc_lock>>
  BY DEF HandlesInv, H!Actors, H!ExpireBegin, H!Go, H!HandlesAssumption, H!Procs
<1> DEFINE c == [H!Idle EXCEPT !.op = "expire"]
<1>1. c \in HCalls /\ c.op = "expire" /\ c.todo = <<>> /\ c.h = NoHandle
  <2>1. H!Idle \in HCalls /\ H!Idle.todo = <<>> /\ H!Idle.h = NoHandle
    BY DEF H!Idle, H!Call, HCalls
  <2> QED
    BY <2>1 DEF HCalls
<1>2. hcall[Worker].op = "idle" /\ hcall[Worker].todo = <<>>
  BY <1>0 DEF H!Idle, H!Call
<1>3. hcall' = [hcall EXCEPT ![Worker] = c]
  BY <1>0
<1> HIDE DEF c
<1>4. hcall'[Worker] = c
  BY <1>0, <1>3 DEF HandleTypes
<1>5. HandleTypes'
  <2>1. hcall' \in [H!Actors -> HCalls]
    BY <1>0, <1>1, <1>3 DEF HandleTypes
  <2> QED
    BY <1>0, <2>1 DEF HandleTypes
<1>6. CallInStep(Worker)'
  BY <1>0, <1>1, <1>4, RangeFacts DEF CallInStep, Reading, Giving
<1>7. CallsInStep'
  <2>1. ASSUME NEW b \in H!Actors, b # Worker, hcall'[b] = hcall[b] PROVE Keeps(b)
    <3>1. b # NoHandle
      BY DEF H!HandlesAssumption
    <3> QED
      BY <1>0, <2>1, <3>1 DEF Keeps, H!Toks
  <2> QED
    BY <1>0, <1>3, <1>6, <2>1, CallsKept
<1>8. ExitAlone'
  BY <1>0, <1>3, ExitAloneKept
<1>9. TokensDiffer' /\ FdsDiffer'
  BY <1>0 DEF TokensDiffer, FdsDiffer
<1>10. ASSUME NEW h \in Handles PROVE refs'[h] = H!Holders(h)'
  <2>1. /\ Cardinality(H!Callers(h)') = Cardinality(H!Callers(h))
             + One(h \in Range(c.todo)) - One(h \in Range(hcall[Worker].todo))
        /\ Cardinality(H!Pending(h)') = Cardinality(H!Pending(h))
             + One(c.op = "genref" /\ c.h = h)
             - One(hcall[Worker].op = "genref" /\ hcall[Worker].h = h)
    BY <1>0, <1>3, CallersMove DEF One
  <2>2. H!Descs(h)' = H!Descs(h) /\ H!Toks(h)' = H!Toks(h) /\ refs' = refs
    BY <1>0 DEF H!Descs, H!Toks
  <2> QED
    BY <1>0, <1>1, <1>2, <2>1, <2>2, HoldersSum, SameCardinality DEF H!Holders, One
<1> QED
  BY <1>5, <1>7, <1>8, <1>9, <1>10 DEF HandlesInv, HandleCounted

\* ... drops the reference of each token that is past its time ...
LEMMA ExpireOneStep ==
  ASSUME H!HandlesAssumption, HandlesInv, H!ExpireOne
  PROVE  HandlesInv'
<1>0. /\ HandleTypes /\ CallsInStep /\ ExitAlone /\ TokensDiffer /\ HandleCounted /\ FdsDiffer
      /\ Worker \in H!Actors /\ hcall[Worker].op = "expire"
      /\ UNCHANGED <<files, next_fd, alive, token_lock, proc_lock, hcall>>
  BY DEF HandlesInv, H!Actors, H!ExpireOne
<1>1. PICK e \in token_table : /\ token_table' = token_table \ {e}
                               /\ refs' = [refs EXCEPT ![e.h] = @ - 1]
  BY DEF H!ExpireOne, H!unref_file
<1>2. e.h \in Handles
  BY <1>0 DEF HandleTypes
<1>3. HandleTypes'
  <2>1. token_table' \subseteq token_table /\ IsFiniteSet(token_table')
    BY <1>0, <1>1, FS_RemoveElement DEF HandleTypes
  <2>2. refs' \in [Handles -> Int]
    BY <1>0, <1>1, <1>2 DEF HandleTypes
  <2> QED
    BY <1>0, <2>1, <2>2 DEF HandleTypes
<1>4. CallsInStep'
  <2>1. ASSUME NEW b \in H!Actors PROVE CallInStep(b)'
    <3>1. hcall[b].op # "genref"
      BY <1>0 DEF CallsInStep, CallInStep
    <3>2. Keeps(b)
      BY <1>0, <3>1 DEF Keeps
    <3> QED
      BY <1>0, <3>2, CallKept DEF CallsInStep
  <2> QED
    BY <2>1 DEF CallsInStep
<1>5. ExitAlone' /\ FdsDiffer'
  BY <1>0 DEF ExitAlone, FdsDiffer
<1>6. TokensDiffer'
  BY <1>0, <1>1 DEF TokensDiffer
<1>7. ASSUME NEW h \in Handles PROVE refs'[h] = H!Holders(h)'
  <2>1. H!Descs(h)' = H!Descs(h) /\ H!Callers(h)' = H!Callers(h) /\ H!Pending(h)' = H!Pending(h)
    BY <1>0, SameRange DEF H!Descs, H!Callers, H!Pending
  <2>2. Cardinality(H!Toks(h)') = Cardinality(H!Toks(h)) - One(h = e.h)
    BY <1>0, <1>1, ToksRemoved DEF One
  <2>3. refs'[h] = refs[h] - One(h = e.h)
    BY <1>0, <1>1, <1>2 DEF HandleTypes, One
  <2> QED
    BY <1>0, <2>1, <2>2, <2>3, HoldersSum, SameCardinality DEF H!Holders, One
<1> QED
  BY <1>3, <1>4, <1>5, <1>6, <1>7 DEF HandlesInv, HandleCounted

\* ... and gives up the lock.
LEMMA ExpireEndStep ==
  ASSUME H!HandlesAssumption, HandlesInv, H!ExpireEnd
  PROVE  HandlesInv'
<1>0. /\ HandleTypes /\ CallsInStep /\ ExitAlone /\ TokensDiffer /\ HandleCounted /\ FdsDiffer
      /\ Worker \in H!Actors /\ Worker # Child
      /\ hcall[Worker].op = "expire" /\ token_lock' = NoHandle
      /\ hcall' = [hcall EXCEPT ![Worker] = H!Idle]
      /\ UNCHANGED <<refs, files, next_fd, alive, token_table, proc_lock>>
  BY DEF HandlesInv, H!Actors, H!ExpireEnd, H!Go, H!HandlesAssumption, H!Procs
<1>1. H!Idle \in HCalls /\ H!Idle.op = "idle" /\ H!Idle.todo = <<>> /\ H!Idle.h = NoHandle
  BY DEF H!Idle, H!Call, HCalls
<1>2. hcall[Worker].todo = <<>> /\ token_lock = Worker
  BY <1>0 DEF CallsInStep, CallInStep, Giving
<1>3. hcall'[Worker] = H!Idle
  BY <1>0 DEF HandleTypes
<1>4. HandleTypes'
  <2>1. hcall' \in [H!Actors -> HCalls]
    BY <1>0, <1>1 DEF HandleTypes
  <2> QED
    BY <1>0, <2>1 DEF HandleTypes
<1>5. CallInStep(Worker)'
  BY <1>1, <1>3, RangeFacts DEF CallInStep, Reading, Giving
<1>6. CallsInStep'
  <2>1. ASSUME NEW b \in H!Actors, b # Worker, hcall'[b] = hcall[b] PROVE Keeps(b)
    BY <1>0, <1>2, <2>1 DEF Keeps, H!Toks
  <2> QED
    BY <1>0, <1>5, <2>1, CallsKept
<1>7. ExitAlone'
  BY <1>0, ExitAloneKept
<1>8. TokensDiffer' /\ FdsDiffer'
  BY <1>0 DEF TokensDiffer, FdsDiffer
<1>9. ASSUME NEW h \in Handles PROVE refs'[h] = H!Holders(h)'
  <2>1. /\ Cardinality(H!Callers(h)') = Cardinality(H!Callers(h))
             + One(h \in Range(H!Idle.todo)) - One(h \in Range(hcall[Worker].todo))
        /\ Cardinality(H!Pending(h)') = Cardinality(H!Pending(h))
             + One(H!Idle.op = "genref" /\ H!Idle.h = h)
             - One(hcall[Worker].op = "genref" /\ hcall[Worker].h = h)
    BY <1>0, CallersMove DEF One
  <2>2. H!Descs(h)' = H!Descs(h) /\ H!Toks(h)' = H!Toks(h) /\ refs' = refs
    BY <1>0 DEF H!Descs, H!Toks
  <2> QED
    BY <1>0, <1>1, <1>2, <2>1, <2>2, HoldersSum, SameCardinality DEF H!Holders, One
<1> QED
  BY <1>4, <1>6, <1>7, <1>8, <1>9 DEF HandlesInv, HandleCounted

\* process_exit() of the child begins when no call of it is under way ...
LEMMA ExitBeginStep ==
  ASSUME H!HandlesAssumption, HandlesInv, NEW a \in H!Actors, H!ExitBegin(a)
  PROVE  HandlesInv'
<1>0. /\ HandleTypes /\ CallsInStep /\ ExitAlone /\ TokensDiffer /\ HandleCounted /\ FdsDiffer
      /\ a # Child /\ hcall[a] = H!Idle /\ hcall[Child] = H!Idle
      /\ proc_lock = NoHandle /\ proc_lock' = a
      /\ hcall' = [hcall EXCEPT ![a] = [H!Idle EXCEPT !.op = "exit"]]
      /\ UNCHANGED <<refs, files, next_fd, alive, token_table, token_lock>>
  BY DEF HandlesInv, H!ExitBegin, H!Calls, H!Unlocked, H!Go, H!tokvars
<1> DEFINE c == [H!Idle EXCEPT !.op = "exit"]
<1>1. c \in HCalls /\ c.op = "exit" /\ c.todo = <<>> /\ c.h = NoHandle
  <2>1. H!Idle \in HCalls /\ H!Idle.todo = <<>> /\ H!Idle.h = NoHandle
    BY DEF H!Idle, H!Call, HCalls
  <2> QED
    BY <2>1 DEF HCalls
<1>2. hcall[a].op = "idle" /\ hcall[a].todo = <<>>
  BY <1>0 DEF H!Idle, H!Call
<1>3. hcall' = [hcall EXCEPT ![a] = c]
  BY <1>0
<1> HIDE DEF c
<1>4. hcall'[a] = c /\ \A b \in H!Actors : b # a => hcall'[b] = hcall[b]
  BY <1>0, <1>3 DEF HandleTypes
<1>5. HandleTypes'
  <2>1. hcall' \in [H!Actors -> HCalls]
    BY <1>0, <1>1, <1>3 DEF HandleTypes
  <2> QED
    BY <1>0, <2>1 DEF HandleTypes
<1>6. CallInStep(a)'
  BY <1>0, <1>1, <1>4, RangeFacts DEF CallInStep, Reading, Giving
<1>7. CallsInStep'
  <2>1. ASSUME NEW b \in H!Actors, b # a, hcall'[b] = hcall[b] PROVE Keeps(b)
    <3>1. b # NoHandle
      BY DEF H!HandlesAssumption
    <3> QED
      BY <1>0, <2>1, <3>1 DEF Keeps, H!Toks
  <2> QED
    BY <1>0, <1>3, <1>6, <2>1, CallsKept
<1>8. ExitAlone'
  <2>1. Child \in H!Actors
    BY DEF H!Actors, H!Procs
  <2> QED
    BY <1>0, <1>4, <2>1 DEF ExitAlone
<1>9. TokensDiffer' /\ FdsDiffer'
  BY <1>0 DEF TokensDiffer, FdsDiffer
<1>10. ASSUME NEW h \in Handles PROVE refs'[h] = H!Holders(h)'
  <2>1. /\ Cardinality(H!Callers(h)') = Cardinality(H!Callers(h))
             + One(h \in Range(c.todo)) - One(h \in Range(hcall[a].todo))
        /\ Cardinality(H!Pending(h)') = Cardinality(H!Pending(h))
             + One(c.op = "genref" /\ c.h = h)
             - One(hcall[a].op = "genref" /\ hcall[a].h = h)
    BY <1>0, <1>3, CallersMove DEF One
  <2>2. H!Descs(h)' = H!Descs(h) /\ H!Toks(h)' = H!Toks(h) /\ refs' = refs
    BY <1>0 DEF H!Descs, H!Toks
  <2> QED
    BY <1>0, <1>1, <1>2, <2>1, <2>2, HoldersSum, SameCardinality DEF H!Holders, One
<1> QED
  BY <1>5, <1>7, <1>8, <1>9, <1>10 DEF HandlesInv, HandleCounted

\* ... closes its descriptors one by one ...
LEMMA ReleaseFdStep ==
  ASSUME H!HandlesAssumption, HandlesInv, NEW a \in H!Actors,
         H!_process_exit_release_fd(a)
  PROVE  HandlesInv'
<1>0. /\ HandleTypes /\ CallsInStep /\ ExitAlone /\ TokensDiffer /\ HandleCounted /\ FdsDiffer
      /\ hcall[a].op = "exit" /\ Child \in H!Procs
      /\ UNCHANGED <<next_fd, alive, token_table, token_lock, proc_lock, hcall>>
  BY DEF HandlesInv, H!_process_exit_release_fd, H!tokvars, H!Procs
<1>1. PICK f \in files[Child] : /\ refs' = [refs EXCEPT ![f[2]] = @ - 1]
                                /\ files' = [files EXCEPT ![Child] = @ \ {f}]
  BY DEF H!_process_exit_release_fd, H!unref_file
<1>2. PICK n \in H!Fds, g \in Handles : f = <<n, g>>
  BY <1>0 DEF HandleTypes
<1>3. /\ <<n, g>> \in files[Child] /\ refs' = [refs EXCEPT ![g] = @ - 1]
      /\ files' = [files EXCEPT ![Child] = @ \ {<<n, g>>}]
  BY <1>1, <1>2
<1>4. /\ files' \in [H!Procs -> SUBSET (H!Fds \X Handles)]
      /\ refs' \in [Handles -> Int]
      /\ \A q \in H!Procs : q # Child => files'[q] = files[q]
      /\ FdsDiffer' /\ TokensDiffer'
      /\ \A h \in Handles :
           /\ refs'[h] = refs[h] - One(h = g)
           /\ Cardinality(H!Descs(h)') = Cardinality(H!Descs(h)) - One(h = g)
           /\ H!Toks(h)' = H!Toks(h)
  BY <1>0, <1>3, FdClosed
<1>5. HandleTypes'
  BY <1>0, <1>4 DEF HandleTypes
<1>6. hcall[Child] = H!Idle
  <2>1. proc_lock = a /\ a # NoHandle
    BY <1>0 DEF CallsInStep, CallInStep, H!HandlesAssumption
  <2> QED
    BY <1>0, <2>1 DEF ExitAlone
<1>7. CallsInStep'
  <2>1. ASSUME NEW b \in H!Actors PROVE CallInStep(b)'
    <3>1. b = Child => hcall[b].op \notin Reading
      BY <1>6 DEF H!Idle, H!Call, Reading
    <3>2. Keeps(b)
      BY <1>0, <1>4, <3>1 DEF Keeps, H!Toks
    <3> QED
      BY <1>0, <3>2, CallKept DEF CallsInStep
  <2> QED
    BY <2>1 DEF CallsInStep
<1>8. ExitAlone'
  BY <1>0 DEF ExitAlone
<1>9. ASSUME NEW h \in Handles PROVE refs'[h] = H!Holders(h)'
  <2>1. H!Callers(h)' = H!Callers(h) /\ H!Pending(h)' = H!Pending(h)
    BY <1>0, SameRange DEF H!Callers, H!Pending
  <2> QED
    BY <1>0, <1>4, <2>1, HoldersSum, SameCardinality DEF H!Holders, One
<1> QED
  BY <1>4, <1>5, <1>7, <1>8, <1>9 DEF HandlesInv, HandleCounted

\* ... and leaves no table behind.
LEMMA ExitEndStep ==
  ASSUME H!HandlesAssumption, HandlesInv, NEW a \in H!Actors, H!ExitEnd(a)
  PROVE  HandlesInv'
<1>0. /\ HandleTypes /\ CallsInStep /\ ExitAlone /\ TokensDiffer /\ HandleCounted /\ FdsDiffer
      /\ hcall[a].op = "exit" /\ proc_lock' = NoHandle /\ alive' = alive \ {Child}
      /\ hcall' = [hcall EXCEPT ![a] = H!Idle]
      /\ UNCHANGED <<refs, files, next_fd, token_table, token_lock>>
  BY DEF HandlesInv, H!ExitEnd, H!Go, H!tokvars
<1>1. H!Idle \in HCalls /\ H!Idle.op = "idle" /\ H!Idle.todo = <<>> /\ H!Idle.h = NoHandle
  BY DEF H!Idle, H!Call, HCalls
<1>2. hcall[a].todo = <<>> /\ proc_lock = a
  BY <1>0 DEF CallsInStep, CallInStep, Giving
<1>3. hcall'[a] = H!Idle
  BY <1>0 DEF HandleTypes
<1>4. HandleTypes'
  <2>1. hcall' \in [H!Actors -> HCalls]
    BY <1>0, <1>1 DEF HandleTypes
  <2> QED
    BY <1>0, <2>1 DEF HandleTypes
<1>5. CallInStep(a)'
  BY <1>1, <1>3, RangeFacts DEF CallInStep, Reading, Giving
<1>6. CallsInStep'
  <2>1. ASSUME NEW b \in H!Actors, b # a, hcall'[b] = hcall[b] PROVE Keeps(b)
    BY <1>0, <1>2, <2>1 DEF Keeps, H!Toks
  <2> QED
    BY <1>0, <1>5, <2>1, CallsKept
<1>7. ExitAlone' /\ TokensDiffer' /\ FdsDiffer'
  BY <1>0 DEF ExitAlone, TokensDiffer, FdsDiffer
<1>8. ASSUME NEW h \in Handles PROVE refs'[h] = H!Holders(h)'
  <2>1. /\ Cardinality(H!Callers(h)') = Cardinality(H!Callers(h))
             + One(h \in Range(H!Idle.todo)) - One(h \in Range(hcall[a].todo))
        /\ Cardinality(H!Pending(h)') = Cardinality(H!Pending(h))
             + One(H!Idle.op = "genref" /\ H!Idle.h = h)
             - One(hcall[a].op = "genref" /\ hcall[a].h = h)
    BY <1>0, CallersMove DEF One
  <2>2. H!Descs(h)' = H!Descs(h) /\ H!Toks(h)' = H!Toks(h) /\ refs' = refs
    BY <1>0 DEF H!Descs, H!Toks
  <2> QED
    BY <1>0, <1>1, <1>2, <2>1, <2>2, HoldersSum, SameCardinality DEF H!Holders, One
<1> QED
  BY <1>4, <1>6, <1>7, <1>8 DEF HandlesInv, HandleCounted

\* The invariant is inductive.
LEMMA HandlesNextHolds ==
  ASSUME H!HandlesAssumption, HandlesInv, [H!Next]_(H!vars)
  PROVE  HandlesInv'
<1>1. ASSUME NEW p \in H!Procs, NEW h \in Handles, H!NewHandles(p, <<h>>) PROVE HandlesInv'
  <2>1. <<h>> \in Seq(Handles) /\ Distinct(<<h>>)
    BY RangeFacts
  <2> QED
    BY <1>1, <2>1, NewHandlesStep
<1>2. ASSUME NEW p \in H!Procs, NEW h \in Handles, NEW g \in Handles, H!NewHandles(p, <<h, g>>)
      PROVE  HandlesInv'
  <2>1. Cardinality(Range(<<h, g>>)) = 2 /\ Range(<<h, g>>) = {h, g}
    <3>1. Len(<<h, g>>) = 2
      OBVIOUS
    <3> QED
      BY <1>2, <3>1, RangeFacts, SameCardinality, SameRange DEF H!NewHandles
  <2>2. h # g
    <3>1. Cardinality({h}) = 1
      BY FS_Singleton
    <3> QED
      BY <2>1, <3>1
  <2>3. <<h, g>> \in Seq(Handles) /\ Distinct(<<h, g>>)
    BY <2>2, RangeFacts
  <2> QED
    BY <1>2, <2>3, NewHandlesStep
<1>3. ASSUME NEW p \in H!Procs, H!proc_add_fd(p) \/ H!Added(p) \/ H!Undo(p) PROVE HandlesInv'
  BY <1>3, AddFdStep, AddedStep, UndoStep
<1>4. ASSUME NEW p \in H!Procs, NEW fd \in H!Fds, H!close_sc(p, fd) \/ H!ReadFd(p, fd, "gen", 0)
      PROVE  HandlesInv'
  <2>1. CASE H!close_sc(p, fd)
    BY <2>1, CloseStep
  <2>2. CASE H!ReadFd(p, fd, "gen", 0)
    <3> DEFINE op == "gen"  as == 0
    <3>1. op \in {"gen", "bind"} /\ as \in H!Fds \cup {0} /\ op # "bind" /\ H!ReadFd(p, fd, op, as)
      BY <2>2
    <3> HIDE DEF op, as
    <3> QED
      BY <3>1, ReadFdStep
  <2> QED
    BY <1>4, <2>1, <2>2
<1>5. ASSUME NEW p \in H!Procs, NEW k \in Tokens, H!GenAdd(p, k) \/ H!use_token_sc(p, k) PROVE HandlesInv'
  BY <1>5, GenAddStep, UseTokenStep
<1>6. ASSUME NEW p \in H!Procs, H!GenRef(p) \/ H!BindRef(p) \/ H!proc_add_fd_as(p) PROVE HandlesInv'
  BY <1>6, GenRefStep, BindRefStep, AddFdAsStep
<1>7. ASSUME NEW fd \in H!Fds, NEW as \in H!Fds, H!ReadFd(Parent, fd, "bind", as) PROVE HandlesInv'
  <2> DEFINE op == "bind"
  <2>1. op \in {"gen", "bind"} /\ as \in H!Fds \cup {0} /\ H!ReadFd(Parent, fd, op, as)
        /\ Parent \in H!Procs
    BY <1>7 DEF H!Procs
  <2> HIDE DEF op
  <2> QED
    BY <2>1, ReadFdStep
<1>8. CASE H!Age \/ H!ExpireBegin \/ H!ExpireOne \/ H!ExpireEnd
  BY <1>8, AgeStep, ExpireBeginStep, ExpireOneStep, ExpireEndStep
<1>9. ASSUME NEW a \in H!Actors, H!ExitBegin(a) \/ H!_process_exit_release_fd(a) \/ H!ExitEnd(a)
      PROVE  HandlesInv'
  BY <1>9, ExitBeginStep, ReleaseFdStep, ExitEndStep
<1>10. CASE UNCHANGED H!vars
  <2>1. HandleTypes' /\ ExitAlone' /\ TokensDiffer' /\ FdsDiffer'
    BY <1>10 DEF H!vars, HandlesInv, HandleTypes, ExitAlone, TokensDiffer, FdsDiffer
  <2>2. \A b \in H!Actors : CallInStep(b)' <=> CallInStep(b)
    BY <1>10 DEF H!vars, CallInStep, H!Toks
  <2>3. \A h \in Handles : H!Holders(h)' = H!Holders(h)
    BY <1>10, SameCardinality, SameRange DEF H!vars, H!Holders, H!Descs, H!Toks,
         H!Callers, H!Pending
  <2> QED
    BY <1>10, <2>1, <2>2, <2>3 DEF H!vars, HandlesInv, CallsInStep, HandleCounted
<1>11. CASE \E p \in H!Procs :
         \/ \E h \in Handles : H!NewHandles(p, <<h>>)
         \/ \E h, g \in Handles : H!NewHandles(p, <<h, g>>)
         \/ H!proc_add_fd(p) \/ H!Added(p) \/ H!Undo(p)
         \/ \E fd \in H!Fds : H!close_sc(p, fd) \/ H!ReadFd(p, fd, "gen", 0)
         \/ \E k \in Tokens : H!GenAdd(p, k) \/ H!use_token_sc(p, k)
         \/ H!GenRef(p) \/ H!BindRef(p) \/ H!proc_add_fd_as(p)
  BY <1>1, <1>2, <1>3, <1>4, <1>5, <1>6, <1>11
<1> QED
  BY <1>7, <1>8, <1>9, <1>10, <1>11 DEF H!Next

\* The invariant that the theorem follows from holds in every state that can be
\* reached.
THEOREM HandlesInvHolds ==
  ASSUME H!HandlesAssumption
  PROVE  H!Spec => []HandlesInv
<1>1. H!Init => HandlesInv
  BY HandlesInitHolds
<1>2. HandlesInv /\ [H!Next]_(H!vars) => HandlesInv'
  BY HandlesNextHolds
<1> QED
  BY <1>1, <1>2, PTL DEF H!Spec

\* A handle has as many references as descriptors, tokens and calls hold it, one
\* that a call has read without a reference is not freed under it, and no
\* descriptor is given twice (HandlesExact).
THEOREM HandlesAreExact ==
  ASSUME H!HandlesAssumption
  PROVE  H!Spec => []H!HandlesExact
<1>1. HandlesInv => H!HandlesExact
  BY ExactFollows
<1> QED
  BY <1>1, HandlesInvHolds, PTL

-----------------------------------------------------------------------------
(***************************************************************************)
(* The heap (module SlabAlloc), for any sizes, any blocks and any number   *)
(* of descriptors in a page.                                               *)
(*                                                                         *)
(* The lists of caches and regions hold no element twice, so that each of  *)
(* them is its set of elements, and what is said of a heap is said of      *)
(* these sets: Separate of their blocks, Contents of their objects, and    *)
(* Count of their descriptors.  An allocation is made of steps on the sets *)
(* in which one element comes or goes.                                     *)
(***************************************************************************)
CacheRecs == [block : Blocks, free : Seq(Nat \ {0})]
RegionRecs == [block : Blocks, descriptors : BOOLEAN]
Heaps == [caches : [L!Types -> Seq(CacheRecs)], regions : Seq(RegionRecs),
          spare : Nat, blocks : SUBSET Blocks]

\* The caches of a heap, with their types.
Cs(h) == {x \in L!Types \X CacheRecs : x[2] \in Range(h.caches[x[1]])}
Rs(h) == Range(h.regions)

ListsDiffer(h) == (\A t \in L!Types : Distinct(h.caches[t])) /\ Distinct(h.regions)

\* A block serves as one cache or one region.
Separate(C, R, B) ==
  /\ IsFiniteSet(C) /\ IsFiniteSet(R) /\ IsFiniteSet(B)
  /\ \A x, y \in C : x[2].block = y[2].block => x = y
  /\ \A r, s \in R : r.block = s.block => r = s
  /\ \A x \in C, r \in R : x[2].block # r.block
  /\ B = {x[2].block : x \in C} \cup {r.block : r \in R}
  /\ Cardinality(B) = Cardinality(C) + Cardinality(R)

\* The free objects of a cache are those that are not allocated.
Fits(x, l) ==
  /\ Distinct(x[2].free)
  /\ Range(x[2].free) = {o \in 1 .. PerCache[x[1]] : <<x[2].block, o>> \notin l}
InCache(C, x) == \E c \in C : c[2].block = x[1] /\ x[2] \in 1 .. PerCache[c[1]]
InRegion(R, x) == x[2] = 0 /\ \E r \in R : r.block = x[1] /\ ~r.descriptors
Contents(C, R, l) ==
  /\ \A x \in C : Fits(x, l)
  /\ \A x \in l : InCache(C, x) \/ InRegion(R, x)
  /\ \A r \in R : ~r.descriptors => <<r.block, 0>> \in l

\* Each page of descriptors has brought its descriptors.
Count(n, C, R) ==
  n + Cardinality(C) + Cardinality(R) =
    Initial + PerPage * Cardinality({r \in R : r.descriptors})

\* n descriptors are taken and not in use yet.
Sound(h, l, n) ==
  /\ h \in Heaps /\ l \in SUBSET (Blocks \X Nat) /\ ListsDiffer(h)
  /\ Separate(Cs(h), Rs(h), h.blocks)
  /\ Contents(Cs(h), Rs(h), l)
  /\ Count(h.spare + n, Cs(h), Rs(h))

\* Something lives in every cache.
Busy(C) == \A x \in C : Len(x[2].free) < PerCache[x[1]]

HeapInv == Sound(L!heap, live, 0) /\ Busy(Cs(L!heap))

LEMMA SlabCardinality == \A S : L!Cardinality(S) = Cardinality(S)
BY DEF L!Cardinality, Cardinality

\* A set of numbers has a least one.
LEMMA SlabLeast ==
  ASSUME NEW T \in SUBSET Nat, T # {}
  PROVE  L!Min(T) \in T
<1>1. PICK m \in T : \A k \in T : ~ (<<k, m>> \in OpToRel(<, Nat))
  BY WFMin, NatLessThanWellFounded, Zenon
<1>2. \A k \in T : ~ (k < m)
  BY <1>1, Zenon DEF OpToRel
<1>3. \A k \in T : m <= k
  BY <1>2
<1> QED
  BY <1>3, Zenon DEF L!Min

-----------------------------------------------------------------------------
(***************************************************************************)
(* Lists without repetition.                                               *)
(***************************************************************************)

LEMMA PrependFacts ==
  ASSUME NEW S, NEW s \in Seq(S), NEW x \in S
  PROVE  /\ <<x>> \o s \in Seq(S) /\ Range(<<x>> \o s) = Range(s) \cup {x}
         /\ Len(<<x>> \o s) = Len(s) + 1
         /\ Distinct(s) /\ x \notin Range(s) => Distinct(<<x>> \o s)
<1> DEFINE q == <<x>> \o s
<1>1. PICK n \in Nat : n = Len(s)
  OBVIOUS
<1>2. /\ q \in Seq(S) /\ DOMAIN q = 1 .. n + 1 /\ Len(q) = n + 1 /\ DOMAIN s = 1 .. n
      /\ q[1] = x /\ \A i \in 1 .. n : q[i + 1] = s[i]
  BY <1>1
<1>3. \A j \in 1 .. n + 1 : j = 1 \/ (j - 1 \in 1 .. n /\ q[j] = s[j - 1])
  <2> TAKE j \in 1 .. n + 1
  <2>1. j = 1 \/ (j - 1 \in 1 .. n /\ (j - 1) + 1 = j)
    OBVIOUS
  <2> HIDE DEF q
  <2> QED
    BY <1>2, <2>1
<1> HIDE DEF q
<1>4. Range(q) = Range(s) \cup {x}
  <2>1. ASSUME NEW y \in Range(q) PROVE y \in Range(s) \cup {x}
    <3>1. PICK j \in 1 .. n + 1 : y = q[j]
      BY <1>2 DEF Range
    <3> QED
      BY <1>2, <1>3, <3>1 DEF Range
  <2>2. ASSUME NEW y \in Range(s) PROVE y \in Range(q)
    <3>1. PICK i \in 1 .. n : y = s[i]
      BY <1>2 DEF Range
    <3>2. i + 1 \in DOMAIN q /\ q[i + 1] = y
      BY <1>2, <3>1
    <3> QED
      BY <3>2 DEF Range
  <2>3. x \in Range(q)
    BY <1>2 DEF Range
  <2> QED
    BY <2>1, <2>2, <2>3
<1>5. ASSUME Distinct(s), x \notin Range(s) PROVE Distinct(q)
  <2> SUFFICES ASSUME NEW i \in 1 .. n + 1, NEW j \in 1 .. n + 1, q[i] = q[j] PROVE i = j
    BY <1>2 DEF Distinct
  <2>1. \A k \in 1 .. n : s[k] # x
    BY <1>2, <1>5 DEF Range
  <2>2. i = 1 <=> j = 1
    BY <1>2, <1>3, <2>1
  <2>3. ASSUME i # 1 PROVE i - 1 = j - 1
    <3>1. PICK m \in 1 .. n, k \in 1 .. n : m = i - 1 /\ k = j - 1
      BY <1>3, <2>2, <2>3
    <3>2. s[m] = s[k] /\ m \in DOMAIN s /\ k \in DOMAIN s
      BY <1>2, <1>3, <2>2, <2>3, <3>1
    <3> QED
      BY <1>5, <3>1, <3>2 DEF Distinct
  <2> QED
    BY <2>2, <2>3
<1> QED
  BY <1>1, <1>2, <1>4, <1>5 DEF q

LEMMA FirstGone ==
  ASSUME NEW S, NEW s \in Seq(S), s # <<>>, Distinct(s)
  PROVE  /\ Head(s) \in Range(s) /\ Tail(s) \in Seq(S) /\ Len(Tail(s)) = Len(s) - 1
         /\ Distinct(Tail(s)) /\ Range(Tail(s)) = Range(s) \ {Head(s)}
<1>1. /\ Tail(s) \in Seq(S) /\ Len(Tail(s)) = Len(s) - 1
      /\ \A i \in 1 .. Len(Tail(s)) : Tail(s)[i] = s[i + 1]
      /\ Len(s) \in Nat \ {0} /\ Head(s) = s[1]
  BY HeadTailProperties, EmptySeq
<1>2. PICK n \in Nat : Len(s) = n + 1
  <2>1. Len(s) = (Len(s) - 1) + 1 /\ Len(s) - 1 \in Nat
    BY <1>1
  <2> QED
    BY <2>1
<1>3. PICK q \in Seq(S) : q = Tail(s)
  BY <1>1
<1>4. /\ DOMAIN s = 1 .. n + 1 /\ DOMAIN q = 1 .. n /\ \A i \in 1 .. n : q[i] = s[i + 1]
      /\ \A i \in 1 .. n : i + 1 \in 1 .. n + 1 /\ i + 1 # 1
      /\ \A i \in 1 .. n + 1 : i = 1 \/ (i - 1 \in 1 .. n /\ (i - 1) + 1 = i)
  BY <1>1, <1>2, <1>3
<1>9. ASSUME NEW i \in 1 .. n, NEW j \in 1 .. n + 1, s[i + 1] = s[j] PROVE i + 1 = j
  BY <1>4, <1>9 DEF Distinct
<1>5. Distinct(q)
  <2> SUFFICES ASSUME NEW i \in 1 .. n, NEW j \in 1 .. n, q[i] = q[j] PROVE i = j
    BY <1>4 DEF Distinct
  <2>1. j + 1 \in 1 .. n + 1 /\ s[i + 1] = s[j + 1]
    BY <1>4
  <2> QED
    BY <1>9, <2>1
<1>6. ASSUME NEW y \in Range(q) PROVE y \in Range(s) \ {s[1]}
  <2>1. PICK i \in 1 .. n : y = s[i + 1]
    BY <1>4 DEF Range
  <2>2. y # s[1]
    BY <1>9, <2>1
  <2> QED
    BY <1>4, <2>1, <2>2 DEF Range
<1>7. ASSUME NEW y \in Range(s), y # s[1] PROVE y \in Range(q)
  <2>1. PICK i \in 1 .. n + 1 : y = s[i]
    BY <1>4 DEF Range
  <2>2. i - 1 \in DOMAIN q /\ q[i - 1] = y
    BY <1>4, <1>7, <2>1
  <2> QED
    BY <2>2 DEF Range
<1>8. s[1] \in Range(s)
  BY <1>4 DEF Range
<1> QED
  BY <1>1, <1>3, <1>5, <1>6, <1>7, <1>8

LEMMA SetFacts ==
  ASSUME NEW S, NEW s \in Seq(S), NEW n \in DOMAIN s, NEW x \in S, Distinct(s),
         x \notin Range(s), NEW q \in Seq(S), DOMAIN q = DOMAIN s, q[n] = x,
         \A i \in DOMAIN s \ {n} : q[i] = s[i]
  PROVE  Distinct(q) /\ Range(q) = (Range(s) \ {s[n]}) \cup {x}
BY DEF Range, Distinct

LEMMA RemoveFacts ==
  ASSUME NEW S, NEW s \in Seq(S), NEW n \in DOMAIN s, Distinct(s),
         NEW p, p = L!RemoveAt(s, n)
  PROVE  p \in Seq(S) /\ Distinct(p) /\ Range(p) = Range(s) \ {s[n]}
<1>1. PICK k \in Nat : k = Len(s)
  OBVIOUS
<1>2. DOMAIN s = 1 .. k /\ n \in 1 .. k
  BY <1>1
<1>3. PICK a \in Seq(S), b \in Seq(S) : a = SubSeq(s, 1, n - 1) /\ b = SubSeq(s, n + 1, k)
  <2>1. \A i \in 1 .. n - 1 : i \in 1 .. k
    BY <1>2
  <2>2. \A i \in n + 1 .. k : i \in 1 .. k
    BY <1>2
  <2>3. SubSeq(s, 1, n - 1) \in Seq(S) /\ SubSeq(s, n + 1, k) \in Seq(S)
    BY <1>1, <1>2, <2>1, <2>2, SubSeqProperties
  <2> QED
    BY <2>3
<1>4. /\ Len(a) = n - 1 /\ \A i \in 1 .. n - 1 : a[i] = s[i]
      /\ Len(b) = k - n /\ \A i \in 1 .. k - n : b[i] = s[i + n]
  <2>1. (\A i \in 1 .. n - 1 : s[i] \in S) /\ (\A i \in n + 1 .. k : s[i] \in S)
    BY <1>1, <1>2
  <2>2. /\ Len(a) = IF 1 <= n - 1 THEN (n - 1) - 1 + 1 ELSE 0
        /\ \A i \in 1 .. (n - 1) - 1 + 1 : a[i] = s[1 + i - 1]
    BY <1>2, <1>3, <2>1, SubSeqProperties
  <2>3. /\ Len(b) = IF n + 1 <= k THEN k - (n + 1) + 1 ELSE 0
        /\ \A i \in 1 .. k - (n + 1) + 1 : b[i] = s[n + 1 + i - 1]
    BY <1>2, <1>3, <2>1, SubSeqProperties
  <2>4. n \in Nat /\ 1 <= n /\ n <= k
    BY <1>2
  <2>5. Len(a) = n - 1 /\ (n - 1) - 1 + 1 = n - 1 /\ \A i \in 1 .. n - 1 : 1 + i - 1 = i
    BY <2>2, <2>4
  <2>6. Len(b) = k - n /\ k - (n + 1) + 1 = k - n /\ \A i \in 1 .. k - n : n + 1 + i - 1 = i + n
    BY <2>3, <2>4
  <2>7. \A i \in 1 .. n - 1 : a[i] = s[i]
    BY <2>2, <2>5
  <2>8. \A i \in 1 .. k - n : b[i] = s[i + n]
    BY <2>3, <2>6
  <2> QED
    BY <2>5, <2>6, <2>7, <2>8
<1>5. PICK q \in Seq(S) : q = a \o b
  BY ConcatProperties
<1>6. /\ DOMAIN q = 1 .. k - 1 /\ \A i \in 1 .. n - 1 : q[i] = s[i]
      /\ \A i \in n .. k - 1 : q[i] = s[i + 1]
  <2>1. /\ Len(q) = Len(a) + Len(b)
        /\ \A i \in 1 .. Len(a) + Len(b) : q[i] = IF i <= Len(a) THEN a[i] ELSE b[i - Len(a)]
    BY <1>5, ConcatProperties
  <2>2. Len(a) + Len(b) = k - 1
    BY <1>2, <1>4
  <2>3. DOMAIN q = 1 .. k - 1
    BY <2>1, <2>2
  <2>4. \A i \in 1 .. n - 1 : i \in 1 .. k - 1 /\ i <= Len(a)
    BY <1>2, <1>4
  <2>5. \A i \in n .. k - 1 : /\ i \in 1 .. k - 1 /\ ~(i <= Len(a)) /\ i - Len(a) \in 1 .. k - n
                              /\ (i - Len(a)) + n = i + 1
    BY <1>2, <1>4
  <2>6. \A i \in n .. k - 1 : q[i] = s[i + 1]
    <3> TAKE i \in n .. k - 1
    <3>1. q[i] = b[i - Len(a)]
      BY <2>1, <2>2, <2>5
    <3> QED
      BY <1>4, <2>5, <3>1
  <2> QED
    BY <1>4, <2>1, <2>2, <2>3, <2>4, <2>6
<1>7. q = p
  BY <1>1, <1>3, <1>5 DEF L!RemoveAt
<1>8. Distinct(q)
  <2> SUFFICES ASSUME NEW i \in 1 .. k - 1, NEW j \in 1 .. k - 1, q[i] = q[j] PROVE i = j
    BY <1>6 DEF Distinct
  <2>0. ASSUME NEW y \in 1 .. k - 1
        PROVE  \E m \in 1 .. k : q[y] = s[m] /\ m = IF y < n THEN y ELSE y + 1
    <3>1. CASE y < n
      <4>1. y \in 1 .. n - 1 /\ y \in 1 .. k
        BY <1>2, <3>1
      <4>2. q[y] = s[y]
        BY <1>6, <4>1
      <4> QED
        BY <3>1, <4>1, <4>2
    <3>2. CASE ~(y < n)
      <4>1. y \in n .. k - 1 /\ y + 1 \in 1 .. k
        BY <1>2, <3>2
      <4>2. q[y] = s[y + 1]
        BY <1>6, <4>1
      <4> QED
        BY <3>2, <4>1, <4>2
    <3> QED
      BY <3>1, <3>2
  <2>1. PICK m \in 1 .. k : q[i] = s[m] /\ m = IF i < n THEN i ELSE i + 1
    BY <2>0
  <2>2. PICK o \in 1 .. k : q[j] = s[o] /\ o = IF j < n THEN j ELSE j + 1
    BY <2>0
  <2>3. m = o
    BY <1>2, <2>1, <2>2 DEF Distinct
  <2> QED
    BY <1>2, <2>1, <2>2, <2>3
<1>9. ASSUME NEW y \in Range(q) PROVE y \in Range(s) \ {s[n]}
  <2>1. PICK i \in 1 .. k - 1 : y = q[i]
    BY <1>6 DEF Range
  <2>2. (i \in 1 .. n - 1 /\ i \in 1 .. k /\ i # n) \/ (i \in n .. k - 1 /\ i + 1 \in 1 .. k /\ i + 1 # n)
    BY <1>2, <2>1
  <2> QED
    BY <1>2, <1>6, <2>1, <2>2 DEF Range, Distinct
<1>10. ASSUME NEW y \in Range(s), y # s[n] PROVE y \in Range(q)
  <2>1. PICK i \in 1 .. k : y = s[i] /\ i # n
    BY <1>2, <1>10 DEF Range
  <2>2. (i \in 1 .. n - 1 /\ i \in 1 .. k - 1)
        \/ (i - 1 \in n .. k - 1 /\ i - 1 \in 1 .. k - 1 /\ (i - 1) + 1 = i)
    BY <1>2, <2>1
  <2> QED
    BY <1>6, <2>1, <2>2 DEF Range
<1> QED
  BY <1>7, <1>8, <1>9, <1>10

-----------------------------------------------------------------------------
(***************************************************************************)
(* Blocks that come and go.                                                *)
(***************************************************************************)
CSet == L!Types \X CacheRecs
LSet == Blocks \X Nat

LEMMA CacheComes ==
  ASSUME NEW C \in SUBSET CSet, NEW R \in SUBSET RegionRecs, NEW B, Separate(C, R, B),
         NEW x \in CSet, x[2].block \notin B
  PROVE  /\ Separate(C \cup {x}, R, B \cup {x[2].block})
         /\ x \notin C /\ Cardinality(C) \in Nat
         /\ Cardinality(C \cup {x}) = Cardinality(C) + 1
<1>1. x \notin C
  BY DEF Separate
<1>2. /\ IsFiniteSet(C \cup {x}) /\ Cardinality(C \cup {x}) = Cardinality(C) + 1
      /\ Cardinality(C) \in Nat /\ Cardinality(R) \in Nat
  BY <1>1, FS_AddElement, FS_CardinalityType DEF Separate
<1>3. /\ IsFiniteSet(B \cup {x[2].block})
      /\ Cardinality(B \cup {x[2].block}) = Cardinality(B) + 1
  BY FS_AddElement DEF Separate
<1>4. B \cup {x[2].block} = {y[2].block : y \in C \cup {x}} \cup {r.block : r \in R}
  BY DEF Separate
<1>5. /\ \A y \in C : y[2].block # x[2].block
      /\ \A r \in R : r.block # x[2].block
  BY DEF Separate
<1> QED
  BY <1>1, <1>2, <1>3, <1>4, <1>5 DEF Separate

LEMMA RegionComes ==
  ASSUME NEW C \in SUBSET CSet, NEW R \in SUBSET RegionRecs, NEW B, Separate(C, R, B),
         NEW x \in RegionRecs, x.block \notin B
  PROVE  /\ Separate(C, R \cup {x}, B \cup {x.block})
         /\ x \notin R /\ Cardinality(R) \in Nat
         /\ Cardinality(R \cup {x}) = Cardinality(R) + 1
<1>1. x \notin R
  BY DEF Separate
<1>2. /\ IsFiniteSet(R \cup {x}) /\ Cardinality(R \cup {x}) = Cardinality(R) + 1
      /\ Cardinality(C) \in Nat /\ Cardinality(R) \in Nat
  BY <1>1, FS_AddElement, FS_CardinalityType DEF Separate
<1>3. /\ IsFiniteSet(B \cup {x.block})
      /\ Cardinality(B \cup {x.block}) = Cardinality(B) + 1
  BY FS_AddElement DEF Separate
<1>4. B \cup {x.block} = {y[2].block : y \in C} \cup {r.block : r \in R \cup {x}}
  BY DEF Separate
<1>5. /\ \A y \in C : y[2].block # x.block
      /\ \A r \in R : r.block # x.block
  BY DEF Separate
<1> QED
  BY <1>1, <1>2, <1>3, <1>4, <1>5 DEF Separate

LEMMA CacheGoes ==
  ASSUME NEW C \in SUBSET CSet, NEW R \in SUBSET RegionRecs, NEW B, Separate(C, R, B),
         NEW x \in C
  PROVE  /\ Separate(C \ {x}, R, B \ {x[2].block})
         /\ Cardinality(C) \in Nat /\ Cardinality(C \ {x}) = Cardinality(C) - 1
<1>1. /\ IsFiniteSet(C \ {x}) /\ Cardinality(C \ {x}) = Cardinality(C) - 1
      /\ Cardinality(C) \in Nat /\ Cardinality(R) \in Nat
  BY FS_RemoveElement, FS_CardinalityType DEF Separate
<1>2. x[2].block \in B
  BY DEF Separate
<1>3. /\ IsFiniteSet(B \ {x[2].block})
      /\ Cardinality(B \ {x[2].block}) = Cardinality(B) - 1
  <2>1. IsFiniteSet(B)
    BY DEF Separate
  <2>2. PICK b \in B : b = x[2].block
    BY <1>2
  <2> QED
    BY <2>1, <2>2, FS_RemoveElement
<1>4. /\ \A y \in C \ {x} : y[2].block # x[2].block
      /\ \A r \in R : r.block # x[2].block
  BY DEF Separate
<1>5. B \ {x[2].block} = {y[2].block : y \in C \ {x}} \cup {r.block : r \in R}
  BY <1>4 DEF Separate
<1> QED
  BY <1>1, <1>3, <1>5 DEF Separate

LEMMA RegionGoes ==
  ASSUME NEW C \in SUBSET CSet, NEW R \in SUBSET RegionRecs, NEW B, Separate(C, R, B),
         NEW x \in R
  PROVE  /\ Separate(C, R \ {x}, B \ {x.block})
         /\ Cardinality(R) \in Nat /\ Cardinality(R \ {x}) = Cardinality(R) - 1
<1>1. /\ IsFiniteSet(R \ {x}) /\ Cardinality(R \ {x}) = Cardinality(R) - 1
      /\ Cardinality(C) \in Nat /\ Cardinality(R) \in Nat
  BY FS_RemoveElement, FS_CardinalityType DEF Separate
<1>2. x.block \in B
  BY DEF Separate
<1>3. /\ IsFiniteSet(B \ {x.block})
      /\ Cardinality(B \ {x.block}) = Cardinality(B) - 1
  <2>1. IsFiniteSet(B)
    BY DEF Separate
  <2> QED
    BY <1>2, <2>1, FS_RemoveElement
<1>4. /\ \A r \in R \ {x} : r.block # x.block
      /\ \A y \in C : y[2].block # x.block
  BY DEF Separate
<1>5. B \ {x.block} = {y[2].block : y \in C} \cup {r.block : r \in R \ {x}}
  BY <1>4 DEF Separate
<1> QED
  BY <1>1, <1>3, <1>5 DEF Separate

\* The free objects of a cache change.
LEMMA CacheChanges ==
  ASSUME NEW C \in SUBSET CSet, NEW R \in SUBSET RegionRecs, NEW B \in SUBSET Blocks,
         Separate(C, R, B), NEW x \in C, NEW y \in CSet, y[2].block = x[2].block
  PROVE  /\ Separate((C \ {x}) \cup {y}, R, B)
         /\ Cardinality((C \ {x}) \cup {y}) = Cardinality(C)
<1>1. x[2].block \in B
  BY DEF Separate
<1>2. /\ Separate(C \ {x}, R, B \ {x[2].block})
      /\ Cardinality(C) \in Nat /\ Cardinality(C \ {x}) = Cardinality(C) - 1
  BY CacheGoes
<1>3. /\ Separate((C \ {x}) \cup {y}, R, (B \ {x[2].block}) \cup {y[2].block})
      /\ Cardinality((C \ {x}) \cup {y}) = Cardinality(C \ {x}) + 1
  <2>1. C \ {x} \in SUBSET CSet /\ y[2].block \notin B \ {x[2].block}
    OBVIOUS
  <2>2. PICK D, E : D \in SUBSET CSet /\ D = C \ {x} /\ E = B \ {x[2].block}
    OBVIOUS
  <2>3. Separate(D, R, E) /\ y[2].block \notin E
    BY <1>2, <2>1, <2>2
  <2>4. /\ Separate(D \cup {y}, R, E \cup {y[2].block})
        /\ Cardinality(D \cup {y}) = Cardinality(D) + 1
    BY <2>2, <2>3, CacheComes
  <2> QED
    BY <2>2, <2>4
<1>4. (B \ {x[2].block}) \cup {y[2].block} = B
  BY <1>1
<1>5. Separate((C \ {x}) \cup {y}, R, B)
  BY <1>3, <1>4
<1>6. PICK n \in Nat : n = Cardinality(C)
  BY <1>2
<1> QED
  BY <1>2, <1>3, <1>5, <1>6

-----------------------------------------------------------------------------
(***************************************************************************)
(* Objects that are allocated and freed.                                   *)
(***************************************************************************)

LEMMA PerCacheType ==
  ASSUME L!SlabAssumption, NEW t \in L!Types
  PROVE  PerCache[t] \in Nat \ {0}
BY DEF L!SlabAssumption, L!Types

LEMMA ObjectTaken ==
  ASSUME L!SlabAssumption,
         NEW C \in SUBSET CSet, NEW R \in SUBSET RegionRecs, NEW B, NEW l \in SUBSET LSet,
         Separate(C, R, B), Contents(C, R, l),
         NEW x \in C, NEW y \in CSet, y[1] = x[1], y[2].block = x[2].block,
         NEW o \in Range(x[2].free), Distinct(y[2].free),
         Range(y[2].free) = Range(x[2].free) \ {o}
  PROVE  /\ Contents((C \ {x}) \cup {y}, R, l \cup {<<x[2].block, o>>})
         /\ <<x[2].block, o>> \notin l /\ o \in 1 .. PerCache[x[1]]
<1> DEFINE D == (C \ {x}) \cup {y}
           k == l \cup {<<x[2].block, o>>}
<1>1. o \in 1 .. PerCache[x[1]] /\ <<x[2].block, o>> \notin l
  BY DEF Contents, Fits
<1>2. \A z \in C \ {x} : z[2].block # x[2].block
  BY DEF Separate
<1>3. Fits(y, k)
  BY DEF Contents, Fits
<1>4. \A z \in C \ {x} : Fits(z, k)
  BY <1>2 DEF Contents, Fits
<1>5. \A z \in l : InCache(C, z) \/ InRegion(R, z)
  BY DEF Contents
<1>6. \A z \in k : InCache(C, z) => InCache(D, z)
  BY DEF InCache
<1>7. InCache(D, <<x[2].block, o>>)
  BY <1>1 DEF InCache
<1>8. \A r \in R : ~r.descriptors => <<r.block, 0>> \in k
  BY DEF Contents
<1> QED
  BY <1>1, <1>3, <1>4, <1>5, <1>6, <1>7, <1>8 DEF Contents

LEMMA ObjectGiven ==
  ASSUME L!SlabAssumption,
         NEW C \in SUBSET CSet, NEW R \in SUBSET RegionRecs, NEW B, NEW l \in SUBSET LSet,
         Separate(C, R, B), Contents(C, R, l),
         NEW x \in C, NEW y \in CSet, y[1] = x[1], y[2].block = x[2].block,
         NEW o \in 1 .. PerCache[x[1]], Distinct(y[2].free),
         Range(y[2].free) = Range(x[2].free) \cup {o}
  PROVE  Contents((C \ {x}) \cup {y}, R, l \ {<<x[2].block, o>>})
<1> DEFINE D == (C \ {x}) \cup {y}
           k == l \ {<<x[2].block, o>>}
<1>1. o # 0
  BY PerCacheType
<1>2. \A z \in C \ {x} : z[2].block # x[2].block
  BY DEF Separate
<1>3. Fits(y, k)
  BY DEF Contents, Fits
<1>4. \A z \in C \ {x} : Fits(z, k)
  BY <1>2 DEF Contents, Fits
<1>5. \A z \in l : InCache(C, z) \/ InRegion(R, z)
  BY DEF Contents
<1>6. \A z \in k : InCache(C, z) => InCache(D, z)
  BY DEF InCache
<1>7. \A r \in R : ~r.descriptors => <<r.block, 0>> \in k
  BY <1>1 DEF Contents
<1> QED
  BY <1>3, <1>4, <1>5, <1>6, <1>7 DEF Contents

\* Every object lies in a block.
LEMMA ObjectsInBlocks ==
  ASSUME NEW C \in SUBSET CSet, NEW R \in SUBSET RegionRecs, NEW B, NEW l \in SUBSET LSet,
         Separate(C, R, B), Contents(C, R, l), NEW x \in l
  PROVE  x[1] \in B
BY DEF Separate, Contents, InCache, InRegion

LEMMA CacheNew ==
  ASSUME L!SlabAssumption,
         NEW C \in SUBSET CSet, NEW R \in SUBSET RegionRecs, NEW B, NEW l \in SUBSET LSet,
         Separate(C, R, B), Contents(C, R, l),
         NEW t \in L!Types, NEW b \in Blocks \ B
  PROVE  /\ <<t, L!NewCache(t, b)>> \in CSet
         /\ Contents(C \cup {<<t, L!NewCache(t, b)>>}, R, l)
<1>1. PICK P \in Nat \ {0} : P = PerCache[t]
  BY PerCacheType
<1>2. PICK f : f = [n \in 1 .. P |-> n]
  OBVIOUS
<1>3. f \in Seq(Nat \ {0}) /\ Distinct(f) /\ Range(f) = 1 .. P
  BY <1>2 DEF Distinct, Range
<1>4. PICK x \in CSet : x = <<t, [block |-> b, free |-> f]>>
  BY <1>3 DEF CSet, CacheRecs
<1>5. x = <<t, L!NewCache(t, b)>>
  BY <1>1, <1>2, <1>4 DEF L!NewCache
<1>6. x[1] = t /\ x[2].block = b /\ x[2].free = f
  BY <1>4
<1>7. \A o : <<b, o>> \notin l
  BY ObjectsInBlocks
<1>8. Fits(x, l)
  BY <1>1, <1>3, <1>6, <1>7 DEF Fits
<1>9. \A z \in l : InCache(C, z) => InCache(C \cup {x}, z)
  BY DEF InCache
<1> QED
  BY <1>5, <1>8, <1>9 DEF Contents

LEMMA CacheGone ==
  ASSUME NEW C \in SUBSET CSet, NEW R \in SUBSET RegionRecs, NEW B, NEW l \in SUBSET LSet,
         Separate(C, R, B), Contents(C, R, l),
         NEW x \in C, Range(x[2].free) = 1 .. PerCache[x[1]]
  PROVE  Contents(C \ {x}, R, l)
<1>1. \A o \in 1 .. PerCache[x[1]] : <<x[2].block, o>> \notin l
  BY DEF Contents, Fits
<1>2. ASSUME NEW z \in l, InCache(C, z) PROVE InCache(C \ {x}, z)
  <2>1. PICK c \in C : c[2].block = z[1] /\ z[2] \in 1 .. PerCache[c[1]]
    BY <1>2 DEF InCache
  <2>2. z = <<z[1], z[2]>>
    BY DEF LSet
  <2>3. c # x
    BY <1>1, <2>1, <2>2
  <2> QED
    BY <2>1, <2>3 DEF InCache
<1> QED
  BY <1>2 DEF Contents

LEMMA PageNew ==
  ASSUME NEW C, NEW R, NEW l, Contents(C, R, l), NEW b
  PROVE  Contents(C, R \cup {[block |-> b, descriptors |-> TRUE]}, l)
BY DEF Contents, InRegion

LEMMA BlockNew ==
  ASSUME L!SlabAssumption,
         NEW C \in SUBSET CSet, NEW R \in SUBSET RegionRecs, NEW B, NEW l \in SUBSET LSet,
         Separate(C, R, B), Contents(C, R, l), NEW b \in Blocks \ B
  PROVE  /\ Contents(C, R \cup {[block |-> b, descriptors |-> FALSE]}, l \cup {<<b, 0>>})
         /\ <<b, 0>> \notin l
<1> DEFINE S == R \cup {[block |-> b, descriptors |-> FALSE]}
           k == l \cup {<<b, 0>>}
<1>1. \A x \in C : x[2].block # b
  BY DEF Separate
<1>2. \A x \in C : Fits(x, k)
  BY <1>1 DEF Contents, Fits
<1>3. InRegion(S, <<b, 0>>)
  <2>1. PICK r : r = [block |-> b, descriptors |-> FALSE]
    OBVIOUS
  <2>2. r \in S /\ r.block = b /\ ~r.descriptors
    BY <2>1
  <2> HIDE DEF S
  <2>3. <<b, 0>>[1] = b /\ <<b, 0>>[2] = 0
    OBVIOUS
  <2> QED
    BY <2>2, <2>3 DEF InRegion
<1>4. \A x \in l : InCache(C, x) \/ InRegion(S, x)
  BY DEF Contents, InRegion
<1>5. \A r \in S : ~r.descriptors => <<r.block, 0>> \in k
  BY DEF Contents
<1>6. <<b, 0>> \notin l
  BY ObjectsInBlocks
<1> QED
  BY <1>2, <1>3, <1>4, <1>5, <1>6 DEF Contents

LEMMA BlockGone ==
  ASSUME L!SlabAssumption,
         NEW C \in SUBSET CSet, NEW R \in SUBSET RegionRecs, NEW B, NEW l \in SUBSET LSet,
         Separate(C, R, B), Contents(C, R, l), NEW r \in R, ~r.descriptors
  PROVE  Contents(C, R \ {r}, l \ {<<r.block, 0>>})
<1> DEFINE k == l \ {<<r.block, 0>>}
<1>1. \A x \in C : x[2].block # r.block
  BY DEF Separate
<1>2. \A x \in C : Fits(x, k)
  BY <1>1 DEF Contents, Fits
<1>3. ASSUME NEW x \in k PROVE InCache(C, x) \/ InRegion(R \ {r}, x)
  <2>1. InCache(C, x) \/ InRegion(R, x)
    BY DEF Contents
  <2>2. ASSUME InRegion(R, x) PROVE InRegion(R \ {r}, x)
    <3>1. x = <<x[1], x[2]>>
      BY DEF LSet
    <3> QED
      BY <2>2, <3>1 DEF InRegion
  <2> QED
    BY <2>1, <2>2
<1>4. \A s \in R \ {r} : ~s.descriptors => <<s.block, 0>> \in k
  BY DEF Contents, Separate
<1> QED
  BY <1>2, <1>3, <1>4 DEF Contents

-----------------------------------------------------------------------------
(***************************************************************************)
(* What the functions do to the sets.                                      *)
(***************************************************************************)

\* The list of one type changes.
ListMoves(h, h1, t, q) ==
  /\ \A s \in L!Types : Distinct(h1.caches[s])
  /\ Cs(h) \in SUBSET CSet /\ Cs(h1) \in SUBSET CSet
  /\ \A x \in CSet : /\ x = <<x[1], x[2]>>
                     /\ x[1] # t => (x \in Cs(h1) <=> x \in Cs(h))
                     /\ x[1] = t => /\ x \in Cs(h) <=> x[2] \in Range(h.caches[t])
                                    /\ x \in Cs(h1) <=> x[2] \in Range(q)

LEMMA CachesMove ==
  ASSUME NEW h \in Heaps, ListsDiffer(h), NEW t \in L!Types, NEW q \in Seq(CacheRecs), Distinct(q),
         NEW h1, NEW g \in [L!Types -> Seq(CacheRecs)], h1.caches = g, g[t] = q,
         \A s \in L!Types \ {t} : g[s] = h.caches[s]
  PROVE  ListMoves(h, h1, t, q)
<1>2. h.caches \in [L!Types -> Seq(CacheRecs)]
  BY DEF Heaps
<1>3. \A s \in L!Types : Distinct(g[s])
  BY DEF ListsDiffer
<1>4. /\ Cs(h) \in SUBSET CSet /\ Cs(h1) \in SUBSET CSet
      /\ \A x \in CSet : /\ x \in Cs(h1) <=> x[2] \in Range(g[x[1]])
                         /\ x \in Cs(h) <=> x[2] \in Range(h.caches[x[1]])
                         /\ x[1] \in L!Types
  BY DEF Cs, CSet
<1>5. \A x \in CSet : x = <<x[1], x[2]>>
  BY DEF CSet
<1> QED
  BY <1>2, <1>3, <1>4, <1>5 DEF ListMoves

\* What holds of a list holds of the caches.
LEMMA InList ==
  ASSUME NEW h \in Heaps, NEW t \in L!Types, NEW c
  PROVE  /\ <<t, c>> \in Cs(h) <=> c \in Range(h.caches[t])
         /\ Cs(h) \in SUBSET CSet /\ Rs(h) \in SUBSET RegionRecs
<1>1. Range(h.caches[t]) \subseteq CacheRecs /\ Rs(h) \in SUBSET RegionRecs
  BY DEF Heaps, Range, Rs
<1> QED
  BY <1>1 DEF Cs, CSet

LEMMA SoundFacts ==
  ASSUME NEW h, NEW l, NEW n, Sound(h, l, n)
  PROVE  /\ h \in Heaps /\ l \in SUBSET LSet /\ ListsDiffer(h)
         /\ Cs(h) \in SUBSET CSet /\ Rs(h) \in SUBSET RegionRecs
         /\ h.blocks \in SUBSET Blocks /\ h.spare \in Nat
         /\ Separate(Cs(h), Rs(h), h.blocks) /\ Contents(Cs(h), Rs(h), l)
         /\ Count(h.spare + n, Cs(h), Rs(h))
<1>1. h \in Heaps /\ l \in SUBSET LSet
  BY DEF Sound, LSet
<1>2. Cs(h) \in SUBSET CSet /\ Rs(h) \in SUBSET RegionRecs
  BY <1>1 DEF Heaps, Range, Rs, Cs, CSet
<1> QED
  BY <1>1, <1>2 DEF Sound, Heaps

\* The numbers of caches and regions, and the pages of descriptors.
LEMMA Numbers ==
  ASSUME L!SlabAssumption, NEW C, NEW R, NEW B, Separate(C, R, B)
  PROVE  /\ Cardinality(C) \in Nat /\ Cardinality(R) \in Nat
         /\ IsFiniteSet({r \in R : r.descriptors})
         /\ Cardinality({r \in R : r.descriptors}) \in Nat
         /\ PerPage \in Nat \ {0, 1} /\ Initial \in Nat
<1>1. IsFiniteSet({r \in R : r.descriptors})
  BY FS_Subset DEF Separate
<1> QED
  BY <1>1, FS_CardinalityType DEF Separate, L!SlabAssumption

\* alloc_fun() gives a block that was not in use.
LEMMA ObtainedIs ==
  ASSUME L!SlabAssumption, NEW h \in Heaps, NEW h1 \in L!Obtained(h)
  PROVE  /\ L!NewBlock(h, h1) \in Blocks \ h.blocks
         /\ h1 = [h EXCEPT !.blocks = @ \cup {L!NewBlock(h, h1)}]
<1> DEFINE unused == Blocks \ h.blocks
           b == L!Min(unused)
<1>1. unused # {} /\ h1 = [h EXCEPT !.blocks = @ \cup {b}]
  BY DEF L!Obtained
<1>2. unused \in SUBSET Nat
  BY DEF L!SlabAssumption
<1>3. b \in unused
  BY <1>1, <1>2, SlabLeast
<1>4. h1.blocks = h.blocks \cup {b}
  BY <1>1 DEF Heaps
<1>5. L!NewBlock(h, h1) = b
  BY <1>3, <1>4 DEF L!NewBlock
<1> QED
  BY <1>1, <1>3, <1>5

LEMMA Products == ASSUME NEW p \in Nat, NEW d \in Nat PROVE p * (d + 1) = p * d + p /\ p * d \in Nat
OBVIOUS

LEMMA PageCounts ==
  \A i, p, c, m, e \in Nat : 0 + c + m = i + e => (p - 2) + 1 + c + (m + 1) = i + (e + p)
OBVIOUS

\* take_descriptor() takes one.
LEMMA DescriptorTaken ==
  ASSUME L!SlabAssumption, NEW h, NEW l, Sound(h, l, 0), NEW g \in L!take_descriptor(h)
  PROVE  Sound(g, l, 1) /\ g.caches = h.caches
<1>0. /\ h \in Heaps /\ l \in SUBSET LSet /\ ListsDiffer(h)
      /\ Cs(h) \in SUBSET CSet /\ Rs(h) \in SUBSET RegionRecs
      /\ h.blocks \in SUBSET Blocks /\ h.spare \in Nat
      /\ Separate(Cs(h), Rs(h), h.blocks) /\ Contents(Cs(h), Rs(h), l)
      /\ Count(h.spare, Cs(h), Rs(h))
  <2>1. h.spare \in Nat /\ Count(h.spare + 0, Cs(h), Rs(h))
    BY SoundFacts
  <2> QED
    BY <2>1, SoundFacts
<1>1. CASE h.spare > 0
  <2>1. g = [h EXCEPT !.spare = @ - 1]
    BY <1>1 DEF L!take_descriptor
  <2>2. /\ g.caches = h.caches /\ g.regions = h.regions /\ g.blocks = h.blocks
        /\ g.spare + 1 = h.spare /\ g \in Heaps
    BY <1>0, <1>1, <2>1 DEF Heaps
  <2>3. Cs(g) = Cs(h) /\ Rs(g) = Rs(h) /\ ListsDiffer(g)
    BY <1>0, <2>2 DEF Cs, Rs, ListsDiffer
  <2> QED
    BY <1>0, <2>2, <2>3 DEF Sound, LSet
<1>2. CASE ~(h.spare > 0)
  <2>1. PICK h1 \in L!Obtained(h) :
          g = [h1 EXCEPT !.spare = PerPage - 2,
                         !.regions = <<[block |-> L!NewBlock(h, h1), descriptors |-> TRUE]>> \o @]
    BY <1>2 DEF L!take_descriptor
  <2>2. PICK b \in Blocks \ h.blocks : b = L!NewBlock(h, h1) /\ h1 = [h EXCEPT !.blocks = @ \cup {b}]
    BY <1>0, ObtainedIs
  <2>3. PICK r \in RegionRecs : r = [block |-> b, descriptors |-> TRUE]
    BY DEF RegionRecs
  <2>4. r.block = b /\ r.descriptors
    BY <2>3
  <2>5. PICK q : q = <<r>> \o h.regions
    OBVIOUS
  <2>0. /\ Separate(Cs(h), Rs(h) \cup {r}, h.blocks \cup {b}) /\ r \notin Rs(h)
        /\ Cardinality(Rs(h) \cup {r}) = Cardinality(Rs(h)) + 1
        /\ Contents(Cs(h), Rs(h) \cup {r}, l)
    <3>1. PICK C, R, B : /\ C = Cs(h) /\ R = Rs(h) /\ B = h.blocks
                         /\ C \in SUBSET CSet /\ R \in SUBSET RegionRecs
                         /\ Separate(C, R, B) /\ Contents(C, R, l)
      BY <1>0
    <3>2. r.block \notin B
      BY <2>2, <2>4, <3>1
    <3>3. /\ Separate(C, R \cup {r}, B \cup {r.block}) /\ r \notin R
          /\ Cardinality(R \cup {r}) = Cardinality(R) + 1
      BY <3>1, <3>2, RegionComes
    <3>4. Contents(C, R \cup {[block |-> b, descriptors |-> TRUE]}, l)
      BY <3>1, PageNew
    <3> QED
      BY <2>3, <2>4, <3>1, <3>3, <3>4
  <2>6. h.regions \in Seq(RegionRecs) /\ Distinct(h.regions) /\ r \notin Rs(h)
    BY <1>0, <2>0 DEF Heaps, ListsDiffer
  <2>7. q \in Seq(RegionRecs) /\ Range(q) = Rs(h) \cup {r} /\ Distinct(q)
    BY <2>5, <2>6, PrependFacts DEF Rs
  <2>8. PerPage \in Nat \ {0, 1} /\ PerPage - 2 \in Nat
    BY DEF L!SlabAssumption
  <2>9. /\ g.caches = h.caches /\ g.regions = q /\ g.blocks = h.blocks \cup {b}
        /\ g.spare = PerPage - 2 /\ g \in Heaps
    <3>1. h1.caches = h.caches /\ h1.regions = h.regions /\ h1.blocks = h.blocks \cup {b} /\ h1 \in Heaps
      BY <1>0, <2>2 DEF Heaps
    <3>2. g = [h1 EXCEPT !.spare = PerPage - 2, !.regions = q]
      BY <2>1, <2>2, <2>3, <2>5, <3>1
    <3> QED
      BY <2>7, <2>8, <3>1, <3>2 DEF Heaps
  <2>10. Cs(g) = Cs(h) /\ Rs(g) = Rs(h) \cup {r} /\ ListsDiffer(g)
    BY <1>0, <2>7, <2>9 DEF Cs, Rs, ListsDiffer
  <2>11. /\ Separate(Cs(g), Rs(g), g.blocks)
         /\ Cardinality(Rs(g)) = Cardinality(Rs(h)) + 1
    BY <2>0, <2>9, <2>10
  <2>12. Contents(Cs(g), Rs(g), l)
    BY <2>0, <2>10
  <2>13. Count(g.spare + 1, Cs(g), Rs(g))
    <3>1. PICK D : D = {s \in Rs(h) : s.descriptors}
      OBVIOUS
    <3>2. {s \in Rs(g) : s.descriptors} = D \cup {r} /\ r \notin D
      BY <2>4, <2>6, <2>10, <3>1
    <3>3. PICK c \in Nat, m \in Nat, d \in Nat :
            c = Cardinality(Cs(h)) /\ m = Cardinality(Rs(h)) /\ d = Cardinality(D)
      BY <1>0, <3>1, Numbers
    <3>4. Cardinality(D \cup {r}) = d + 1
      BY <1>0, <3>1, <3>2, <3>3, Numbers, FS_AddElement
    <3>5. 0 + c + m = Initial + PerPage * d
      BY <1>0, <1>2, <3>1, <3>3 DEF Count
    <3>6. PerPage * (d + 1) = PerPage * d + PerPage /\ PerPage * d \in Nat /\ Initial \in Nat
      BY <2>8, <3>3, Products DEF L!SlabAssumption
    <3>7. (PerPage - 2) + 1 + c + (m + 1) = Initial + PerPage * (d + 1)
      <4>1. PICK i \in Nat, p \in Nat, e \in Nat : i = Initial /\ p = PerPage /\ e = PerPage * d
        BY <2>8, <3>6
      <4>2. 0 + c + m = i + e
        BY <3>5, <4>1
      <4>3. (p - 2) + 1 + c + (m + 1) = i + (e + p)
        BY <3>3, <4>1, <4>2, PageCounts
      <4> QED
        BY <3>6, <4>1, <4>3
    <3> QED
      BY <2>9, <2>10, <2>11, <3>2, <3>3, <3>4, <3>7 DEF Count
  <2> QED
    BY <1>0, <2>9, <2>10, <2>11, <2>12, <2>13 DEF Sound, LSet
<1> QED
  BY <1>1, <1>2

-----------------------------------------------------------------------------
(***************************************************************************)
(* Allocation.                                                             *)
(***************************************************************************)

\* A list without repetition is not longer than the numbers it is made of.
LEMMA DistinctFits ==
  ASSUME NEW S, NEW s \in Seq(S), Distinct(s), NEW P \in Nat, Range(s) \subseteq 1 .. P
  PROVE  Len(s) <= P /\ (Len(s) = P => Range(s) = 1 .. P)
<1>1. PICK n \in Nat : n = Len(s)
  OBVIOUS
<1>2. DOMAIN s = 1 .. n /\ s \in [1 .. n -> 1 .. P]
  BY <1>1 DEF Range
<1>3. s \in Injection(1 .. n, 1 .. P)
  BY <1>2 DEF Injection, IsInjective, Distinct
<1>4. IsFiniteSet(1 .. P) /\ Cardinality(1 .. P) = P /\ Cardinality(1 .. n) = n
  BY FS_Interval
<1>5. n <= P /\ (n = P <=> s \in Surjection(1 .. n, 1 .. P))
  BY <1>3, <1>4, FS_Injection
<1>6. s \in Surjection(1 .. n, 1 .. P) => Range(s) = 1 .. P
  BY <1>2 DEF Surjection, Range
<1> QED
  BY <1>1, <1>5, <1>6

LEMMA WithFreeIs ==
  ASSUME NEW h \in Heaps, NEW t \in L!Types
  PROVE  LET n == L!WithFree(h, t)  s == h.caches[t]
         IN  \/ n = 0 /\ \A i \in DOMAIN s : s[i].free = <<>>
             \/ n # 0 /\ n \in DOMAIN s /\ s[n].free # <<>>
<1>1. PICK s \in Seq(CacheRecs) : s = h.caches[t]
  BY DEF Heaps
<1> DEFINE I == {i \in 1 .. Len(s) : s[i].free # <<>>}
<1>2. L!WithFree(h, t) = IF I # {} THEN L!Min(I) ELSE 0
  BY <1>1 DEF L!WithFree, L!SelectInSeq
<1>3. DOMAIN s = 1 .. Len(s) /\ I \in SUBSET Nat /\ 0 \notin I
  BY <1>1
<1>4. I # {} => L!Min(I) \in I
  BY <1>3, SlabLeast
<1> QED
  BY <1>1, <1>2, <1>3, <1>4

LEMMA CacheRecords ==
  ASSUME NEW c \in CacheRecs, NEW f \in Seq(Nat \ {0})
  PROVE  LET d == [c EXCEPT !.free = f]
         IN  d \in CacheRecs /\ d.block = c.block /\ d.free = f
BY DEF CacheRecs

\* A cache has other free objects now.
FreeMoves(h, g, x, y) ==
  /\ x \in Cs(h) /\ x \in CSet /\ y \in CSet
  /\ g \in Heaps /\ ListsDiffer(g)
  /\ g.spare = h.spare /\ g.blocks = h.blocks /\ Rs(g) = Rs(h)
  /\ Cs(g) = (Cs(h) \ {x}) \cup {y}
  /\ Separate(Cs(g), Rs(g), g.blocks)
  /\ Cardinality(Cs(g)) = Cardinality(Cs(h))

LEMMA FreeChanges ==
  ASSUME NEW h, NEW l, NEW k, Sound(h, l, k), NEW t \in L!Types, NEW n \in DOMAIN h.caches[t],
         NEW c1 \in CacheRecs, c1.block = h.caches[t][n].block, c1 # h.caches[t][n],
         NEW g, g = [h EXCEPT !.caches[t][n] = c1]
  PROVE  FreeMoves(h, g, <<t, h.caches[t][n]>>, <<t, c1>>)
<1>0. /\ h \in Heaps /\ ListsDiffer(h)
      /\ Cs(h) \in SUBSET CSet /\ Rs(h) \in SUBSET RegionRecs
      /\ h.blocks \in SUBSET Blocks /\ Separate(Cs(h), Rs(h), h.blocks)
  BY SoundFacts
<1>1. PICK s \in Seq(CacheRecs) : s = h.caches[t]
  BY <1>0 DEF Heaps
<1>2. PICK c \in CacheRecs : c = h.caches[t][n] /\ c = s[n]
  BY <1>1
<1>3. n \in DOMAIN s /\ Distinct(s) /\ c \in Range(s)
  BY <1>0, <1>1, <1>2 DEF ListsDiffer, Range
<1> DEFINE x == <<t, c>>
           y == <<t, c1>>
<1>4. x \in Cs(h) /\ x \in CSet /\ y \in CSet
  BY <1>0, <1>1, <1>2, <1>3, InList DEF CSet
<1>5. x[1] = t /\ y[1] = t /\ x[2] = c /\ y[2] = c1 /\ x # y
  BY <1>2
<1>6. c1 \notin Range(s)
  <2>1. y \notin Cs(h)
    BY <1>2, <1>4, <1>5, <1>0 DEF Separate
  <2> QED
    BY <1>0, <1>1, <2>1, InList
<1>7. PICK q : q = [s EXCEPT ![n] = c1]
  OBVIOUS
<1>8. q \in Seq(CacheRecs) /\ Distinct(q) /\ Range(q) = (Range(s) \ {c}) \cup {c1}
  <2>1. q \in Seq(CacheRecs) /\ Distinct(q) /\ Range(q) = (Range(s) \ {s[n]}) \cup {c1}
    <3>1. /\ q \in Seq(CacheRecs) /\ DOMAIN q = DOMAIN s /\ q[n] = c1
          /\ \A i \in DOMAIN s \ {n} : q[i] = s[i]
      BY <1>3, <1>7
    <3> QED
      BY <1>3, <1>6, <3>1, SetFacts
  <2> QED
    BY <1>2, <1>7, <2>1
<1>9. PICK m : m = [h.caches EXCEPT ![t] = q]
  OBVIOUS
<1>10. /\ g.caches = m /\ g.spare = h.spare /\ g.blocks = h.blocks /\ g.regions = h.regions
       /\ m \in [L!Types -> Seq(CacheRecs)] => g \in Heaps
  BY <1>0, <1>1, <1>7, <1>9 DEF Heaps
<1>11. /\ m \in [L!Types -> Seq(CacheRecs)] /\ \A z \in L!Types : Distinct(m[z])
       /\ Cs(h) \in SUBSET CSet /\ Cs(g) \in SUBSET CSet
       /\ \A z \in CSet : /\ z = <<z[1], z[2]>>
                          /\ z[1] # t => (z \in Cs(g) <=> z \in Cs(h))
                          /\ z[1] = t => /\ z \in Cs(h) <=> z[2] \in Range(s)
                                         /\ z \in Cs(g) <=> z[2] \in Range(q)
  <2> HIDE DEF x, y
  <2>1. /\ m \in [L!Types -> Seq(CacheRecs)] /\ m[t] = q
        /\ \A z \in L!Types \ {t} : m[z] = h.caches[z]
    BY <1>0, <1>8, <1>9 DEF Heaps
  <2>2. h \in Heaps /\ ListsDiffer(h) /\ q \in Seq(CacheRecs) /\ Distinct(q) /\ g.caches = m
    BY <1>0, <1>8, <1>10
  <2>3. ListMoves(h, g, t, q)
    BY <2>1, <2>2, CachesMove
  <2> QED
    BY <1>1, <2>1, <2>2, <2>3 DEF ListMoves
<1>12. Cs(g) = (Cs(h) \ {x}) \cup {y}
  <2>1. \A z \in CSet : z \in Cs(g) <=> z \in (Cs(h) \ {x}) \cup {y}
    BY <1>4, <1>5, <1>8, <1>11
  <2> QED
    BY <1>4, <1>11, <2>1
<1>13. /\ g \in Heaps /\ ListsDiffer(g) /\ Rs(g) = Rs(h)
       /\ Cs(g) = (Cs(h) \ {x}) \cup {y}
  BY <1>0, <1>10, <1>11, <1>12 DEF ListsDiffer, Rs
<1>14. /\ Separate((Cs(h) \ {x}) \cup {y}, Rs(h), h.blocks)
       /\ Cardinality((Cs(h) \ {x}) \cup {y}) = Cardinality(Cs(h))
  <2>1. PICK C, R, B : /\ C = Cs(h) /\ R = Rs(h) /\ B = h.blocks
                       /\ C \in SUBSET CSet /\ R \in SUBSET RegionRecs /\ B \in SUBSET Blocks
                       /\ Separate(C, R, B)
    BY <1>0
  <2>2. PICK x0 \in C, y0 \in CSet : x0 = x /\ y0 = y
    BY <1>4, <2>1
  <2>3. y0[2].block = x0[2].block
    BY <1>2, <1>5, <2>2
  <2>4. /\ Separate((C \ {x0}) \cup {y0}, R, B)
        /\ Cardinality((C \ {x0}) \cup {y0}) = Cardinality(C)
    BY <2>1, <2>3, CacheChanges
  <2> QED
    BY <2>1, <2>2, <2>4
<1> QED
  BY <1>2, <1>4, <1>10, <1>13, <1>14 DEF FreeMoves

\* An object is taken from a cache with a free one.
Takes(h, t, l, r) ==
  /\ r.object \in LSet \ l /\ Sound(r.heap, l \cup {r.object}, 0)
  /\ \E x \in Cs(h), y \in CSet :
       /\ x[1] = t /\ x[2].free # <<>> /\ Cs(r.heap) = (Cs(h) \ {x}) \cup {y}
       /\ Len(y[2].free) < PerCache[y[1]]

LEMMA PopTakes ==
  ASSUME L!SlabAssumption, NEW h, NEW l, Sound(h, l, 0), NEW t \in L!Types,
         L!WithFree(h, t) # 0
  PROVE  Takes(h, t, l, L!Pop(h, t))
<1> DEFINE k == 0
<1>a. PICK r : r = L!Pop(h, t)
  OBVIOUS
<1> HIDE DEF k
<1>0. /\ h \in Heaps /\ l \in SUBSET LSet /\ ListsDiffer(h)
      /\ Cs(h) \in SUBSET CSet /\ Rs(h) \in SUBSET RegionRecs
      /\ h.blocks \in SUBSET Blocks
      /\ Separate(Cs(h), Rs(h), h.blocks) /\ Contents(Cs(h), Rs(h), l)
      /\ Count(h.spare + k, Cs(h), Rs(h))
  BY SoundFacts DEF k
<1>1. PICK n : n = L!WithFree(h, t) /\ n \in DOMAIN h.caches[t] /\ h.caches[t][n].free # <<>>
  BY <1>0, WithFreeIs
<1>2. PICK c \in CacheRecs : c = h.caches[t][n]
  BY <1>0, <1>1 DEF Heaps
<1>3. PICK f, o : f \in Seq(Nat \ {0}) /\ f = c.free /\ o = Head(f) /\ f # <<>>
  BY <1>1, <1>2 DEF CacheRecs
<1>4. PICK c1 \in CacheRecs : c1 = [c EXCEPT !.free = Tail(f)] /\ c1.block = c.block /\ c1.free = Tail(f)
  <2>1. Tail(f) \in Seq(Nat \ {0})
    BY <1>3, HeadTailProperties
  <2> QED
    BY <2>1, CacheRecords
<1>5. r.heap = [h EXCEPT !.caches[t][n] = c1] /\ r.object = <<c.block, o>>
  <2>1. L!Pop(h, t) = L!Result([h EXCEPT !.caches[t][n].free = Tail(@)], <<c.block, Head(c.free)>>)
    BY <1>1, <1>2 DEF L!Pop
  <2>2. [h EXCEPT !.caches[t][n].free = Tail(@)] = [h EXCEPT !.caches[t][n] = c1]
    BY <1>2, <1>3, <1>4
  <2> QED
    BY <1>a, <1>3, <2>1, <2>2 DEF L!Result
<1> DEFINE x == <<t, c>>
           y == <<t, c1>>
           g == r.heap
<1>6. x[1] = t /\ y[1] = t /\ x[2] = c /\ y[2] = c1
  OBVIOUS
<1>7. x \in Cs(h)
  BY <1>0, <1>1, <1>2, InList DEF Range
<1>8. Distinct(f) /\ Range(f) = {p \in 1 .. PerCache[t] : <<c.block, p>> \notin l}
  BY <1>0, <1>3, <1>6, <1>7 DEF Contents, Fits
<1>9. /\ o \in Range(f) /\ Distinct(Tail(f)) /\ Range(Tail(f)) = Range(f) \ {o}
      /\ Len(Tail(f)) = Len(f) - 1
  BY <1>3, <1>8, FirstGone
<1>10. Len(Tail(f)) < PerCache[t]
  <2>1. PICK P \in Nat : P = PerCache[t]
    BY PerCacheType
  <2>2. Range(f) \subseteq 1 .. P
    BY <1>8, <2>1
  <2>3. Len(f) <= P
    BY <1>3, <1>8, <2>2, DistinctFits
  <2>4. PICK e \in Nat : e = Len(f)
    BY <1>3
  <2> QED
    BY <1>9, <2>1, <2>3, <2>4
<1>11. c1 # c
  BY <1>3, <1>4, <1>9
<1>12. /\ x \in Cs(h) /\ x \in CSet /\ y \in CSet
       /\ g \in Heaps /\ ListsDiffer(g)
       /\ g.spare = h.spare /\ g.blocks = h.blocks /\ Rs(g) = Rs(h)
       /\ Cs(g) = (Cs(h) \ {x}) \cup {y}
       /\ Separate(Cs(g), Rs(g), g.blocks)
       /\ Cardinality(Cs(g)) = Cardinality(Cs(h))
  <2>1. /\ n \in DOMAIN h.caches[t] /\ c1.block = h.caches[t][n].block
        /\ c1 # h.caches[t][n] /\ g = [h EXCEPT !.caches[t][n] = c1]
    BY <1>1, <1>2, <1>4, <1>5, <1>11
  <2> HIDE DEF x, y, g
  <2> QED
    <3>1. FreeMoves(h, g, x, y)
      BY <1>2, <2>1, FreeChanges DEF x, y
    <3> QED
      BY <3>1 DEF FreeMoves
<1>13. /\ Contents((Cs(h) \ {x}) \cup {y}, Rs(h), l \cup {<<c.block, o>>})
       /\ <<c.block, o>> \notin l /\ o \in 1 .. PerCache[t]
  <2>1. PICK C, R, B : /\ C = Cs(h) /\ R = Rs(h) /\ B = h.blocks
                       /\ C \in SUBSET CSet /\ R \in SUBSET RegionRecs
                       /\ Separate(C, R, B) /\ Contents(C, R, l)
    BY <1>0
  <2>2. PICK x0 \in C, y0 \in CSet : x0 = x /\ y0 = y
    BY <1>12, <2>1
  <2>3. /\ y0[1] = x0[1] /\ y0[2].block = x0[2].block /\ o \in Range(x0[2].free)
        /\ Distinct(y0[2].free) /\ Range(y0[2].free) = Range(x0[2].free) \ {o}
    BY <1>3, <1>4, <1>6, <1>9, <2>2
  <2>4. /\ Contents((C \ {x0}) \cup {y0}, R, l \cup {<<x0[2].block, o>>})
        /\ <<x0[2].block, o>> \notin l /\ o \in 1 .. PerCache[x0[1]]
    BY <1>0, <2>1, <2>3, ObjectTaken
  <2> QED
    BY <1>6, <2>1, <2>2, <2>4
<1>14. r.object \in LSet
  BY <1>5, <1>13, PerCacheType DEF LSet, CacheRecs
<1>15. Count(g.spare + k, Cs(g), Rs(g))
  BY <1>0, <1>12 DEF Count
<1> HIDE DEF x, y, g
<1>16. Sound(g, l \cup {r.object}, k)
  BY <1>0, <1>5, <1>12, <1>13, <1>14, <1>15 DEF Sound, LSet
<1> QED
  BY <1>a, <1>3, <1>4, <1>5, <1>6, <1>7, <1>10, <1>12, <1>13, <1>14, <1>16 DEF g, k, Takes

\* A cache is made for an object.
LEMMA CacheMade ==
  ASSUME L!SlabAssumption, NEW h, NEW l, Sound(h, l, 1), NEW t \in L!Types,
         NEW g \in L!WithCache(h, t)
  PROVE  Sound(g, l, 0) /\ \E x \in CSet : /\ x[1] = t /\ x[2].free # <<>>
                                          /\ Cs(g) = Cs(h) \cup {x}
<1>0. /\ h \in Heaps /\ l \in SUBSET LSet /\ ListsDiffer(h)
      /\ Cs(h) \in SUBSET CSet /\ Rs(h) \in SUBSET RegionRecs
      /\ h.blocks \in SUBSET Blocks /\ h.spare \in Nat
      /\ Separate(Cs(h), Rs(h), h.blocks) /\ Contents(Cs(h), Rs(h), l)
      /\ Count(h.spare + 1, Cs(h), Rs(h))
  BY SoundFacts
<1>1. PICK h1 \in L!Obtained(h) : g = [h1 EXCEPT !.caches[t] = <<L!NewCache(t, L!NewBlock(h, h1))>> \o @]
  BY DEF L!WithCache
<1>2. PICK b \in Blocks \ h.blocks : b = L!NewBlock(h, h1) /\ h1 = [h EXCEPT !.blocks = @ \cup {b}]
  BY <1>0, ObtainedIs
<1>3. PICK C, R, B : /\ C = Cs(h) /\ R = Rs(h) /\ B = h.blocks
                     /\ C \in SUBSET CSet /\ R \in SUBSET RegionRecs
                     /\ Separate(C, R, B) /\ Contents(C, R, l)
  BY <1>0
<1>4. PICK x : x = <<t, L!NewCache(t, b)>> /\ x \in CSet /\ Contents(C \cup {x}, R, l)
  <2>1. b \in Blocks \ B /\ l \in SUBSET LSet
    BY <1>0, <1>2, <1>3
  <2>2. /\ <<t, L!NewCache(t, b)>> \in CSet
        /\ Contents(C \cup {<<t, L!NewCache(t, b)>>}, R, l)
    BY <1>3, <2>1, CacheNew
  <2> QED
    BY <2>2
<1>5. x[1] = t /\ x[2] = L!NewCache(t, b) /\ x[2].block = b /\ x[2] \in CacheRecs
  BY <1>4 DEF L!NewCache, CSet
<1>6. /\ Separate(C \cup {x}, R, B \cup {x[2].block})
      /\ x \notin C /\ Cardinality(C) \in Nat
      /\ Cardinality(C \cup {x}) = Cardinality(C) + 1
  <2>1. x[2].block \notin B
    BY <1>2, <1>3, <1>5
  <2> QED
    <3>1. /\ C \in SUBSET CSet /\ R \in SUBSET RegionRecs /\ Separate(C, R, B)
          /\ x \in CSet /\ x[2].block \notin B
      BY <1>3, <1>4, <2>1
    <3> QED
      BY <3>1, CacheComes
<1>7. PICK s \in Seq(CacheRecs) : s = h.caches[t]
  BY <1>0 DEF Heaps
<1>8. x[2] \notin Range(s) /\ Distinct(s)
  <2>1. <<t, x[2]>> = x
    BY <1>4, <1>5
  <2> QED
    BY <1>0, <1>3, <1>6, <1>7, <2>1, InList DEF ListsDiffer
<1>9. PICK q : q = <<x[2]>> \o s
  OBVIOUS
<1>10. q \in Seq(CacheRecs) /\ Distinct(q) /\ Range(q) = Range(s) \cup {x[2]}
  BY <1>5, <1>8, <1>9, PrependFacts
<1>11. PICK m : m = [h.caches EXCEPT ![t] = q]
  OBVIOUS
<1>12. /\ m \in [L!Types -> Seq(CacheRecs)] /\ m[t] = q
       /\ \A z \in L!Types \ {t} : m[z] = h.caches[z]
  BY <1>0, <1>10, <1>11 DEF Heaps
<1>13. /\ g.caches = m /\ g.spare = h.spare /\ g.blocks = B \cup {b} /\ g.regions = h.regions
       /\ g \in Heaps
  <2>1. /\ h1.caches = h.caches /\ h1.regions = h.regions /\ h1.blocks = B \cup {b}
        /\ h1.spare = h.spare /\ h1 \in Heaps
    BY <1>0, <1>2, <1>3 DEF Heaps
  <2>2. g = [h1 EXCEPT !.caches[t] = q]
    BY <1>1, <1>2, <1>5, <1>7, <1>9, <2>1
  <2>3. g = [h1 EXCEPT !.caches = m]
    BY <1>11, <2>1, <2>2
  <2> QED
    BY <1>12, <2>1, <2>3 DEF Heaps
<1>14. ListMoves(h, g, t, q)
  BY <1>0, <1>10, <1>12, <1>13, CachesMove
<1>15. Cs(g) = C \cup {x}
  <2>1. \A z \in CSet : z[1] = t => (z[2] = x[2] <=> z = x)
    BY <1>4, <1>5, <1>14 DEF ListMoves
  <2>2. \A z \in CSet : z \in Cs(g) <=> z \in C \cup {x}
    BY <1>3, <1>5, <1>7, <1>10, <1>14, <2>1 DEF ListMoves
  <2> QED
    BY <1>3, <1>4, <1>14, <2>2 DEF ListMoves
<1>16. ListsDiffer(g) /\ Rs(g) = R
  BY <1>0, <1>3, <1>13, <1>14 DEF ListMoves, ListsDiffer, Rs
<1>17. Count(g.spare + 0, Cs(g), Rs(g))
  <2>1. PICK c \in Nat, k \in Nat : c = Cardinality(C) /\ k = Cardinality(R)
    BY <1>0, <1>3, Numbers
  <2>2. h.spare + 0 + (c + 1) + k = h.spare + 1 + c + k
    BY <1>0
  <2> QED
    BY <1>0, <1>3, <1>6, <1>13, <1>15, <1>16, <2>1, <2>2 DEF Count
<1>19. x[2].free # <<>>
  <2>1. PICK P \in Nat \ {0} : P = PerCache[t]
    BY PerCacheType
  <2>2. x[2].free = [n \in 1 .. P |-> n]
    BY <1>5, <2>1 DEF L!NewCache
  <2>3. 1 \in DOMAIN x[2].free /\ DOMAIN <<>> = {}
    BY <2>2
  <2> QED
    BY <2>3
<1>18. Sound(g, l, 0)
  BY <1>0, <1>4, <1>5, <1>6, <1>13, <1>15, <1>16, <1>17 DEF Sound, LSet
<1> QED
  BY <1>3, <1>4, <1>5, <1>15, <1>18, <1>19

\* A block is allocated whole.
LEMMA BlockMade ==
  ASSUME L!SlabAssumption, NEW h, NEW l, Sound(h, l, 1), NEW r \in L!WithBlock(h)
  PROVE  /\ r.object \in LSet \ l /\ Sound(r.heap, l \cup {r.object}, 0)
         /\ Cs(r.heap) = Cs(h)
<1>0. /\ h \in Heaps /\ l \in SUBSET LSet /\ ListsDiffer(h)
      /\ Cs(h) \in SUBSET CSet /\ Rs(h) \in SUBSET RegionRecs
      /\ h.blocks \in SUBSET Blocks /\ h.spare \in Nat
      /\ Separate(Cs(h), Rs(h), h.blocks) /\ Contents(Cs(h), Rs(h), l)
      /\ Count(h.spare + 1, Cs(h), Rs(h))
  BY SoundFacts
<1>1. PICK h1 \in L!Obtained(h) :
        r = L!Result([h1 EXCEPT !.regions = <<[block |-> L!NewBlock(h, h1), descriptors |-> FALSE]>> \o @],
                     <<L!NewBlock(h, h1), L!Whole>>)
  BY DEF L!WithBlock
<1>2. PICK b \in Blocks \ h.blocks : b = L!NewBlock(h, h1) /\ h1 = [h EXCEPT !.blocks = @ \cup {b}]
  BY <1>0, ObtainedIs
<1>3. PICK C, R, B : /\ C = Cs(h) /\ R = Rs(h) /\ B = h.blocks
                     /\ C \in SUBSET CSet /\ R \in SUBSET RegionRecs
                     /\ Separate(C, R, B) /\ Contents(C, R, l)
  BY <1>0
<1>4. PICK x \in RegionRecs : x = [block |-> b, descriptors |-> FALSE]
  BY DEF RegionRecs
<1>5. x.block = b /\ ~x.descriptors
  BY <1>4
<1>6. /\ Separate(C, R \cup {x}, B \cup {x.block})
      /\ x \notin R /\ Cardinality(R) \in Nat
      /\ Cardinality(R \cup {x}) = Cardinality(R) + 1
  <2>1. x.block \notin B
    BY <1>2, <1>3, <1>5
  <2> QED
    <3>1. /\ C \in SUBSET CSet /\ R \in SUBSET RegionRecs /\ Separate(C, R, B)
          /\ x \in RegionRecs
      BY <1>3, <1>4
    <3> QED
      BY <2>1, <3>1, RegionComes
<1>7. Contents(C, R \cup {x}, l \cup {<<b, 0>>}) /\ <<b, 0>> \notin l
  BY <1>0, <1>2, <1>3, <1>4, BlockNew
<1>8. PICK q : q = <<x>> \o h.regions
  OBVIOUS
<1>9. q \in Seq(RegionRecs) /\ Range(q) = R \cup {x} /\ Distinct(q)
  <2>1. h.regions \in Seq(RegionRecs) /\ Distinct(h.regions) /\ x \notin Range(h.regions)
        /\ R = Range(h.regions)
    BY <1>0, <1>3, <1>6 DEF Heaps, ListsDiffer, Rs
  <2> QED
    BY <1>8, <2>1, PrependFacts
<1>10. PICK g : g = r.heap
  OBVIOUS
<1>11. /\ g.caches = h.caches /\ g.spare = h.spare /\ g.blocks = B \cup {b} /\ g.regions = q
       /\ g \in Heaps /\ r.object = <<b, 0>>
  <2>1. /\ h1.caches = h.caches /\ h1.regions = h.regions /\ h1.blocks = B \cup {b}
        /\ h1.spare = h.spare /\ h1 \in Heaps
    BY <1>0, <1>2, <1>3 DEF Heaps
  <2>2. g = [h1 EXCEPT !.regions = q] /\ r.object = <<b, 0>>
    BY <1>1, <1>2, <1>4, <1>8, <1>10, <2>1 DEF L!Result, L!Whole
  <2> QED
    BY <1>9, <2>1, <2>2 DEF Heaps
<1>12. Cs(g) = C /\ Rs(g) = R \cup {x} /\ ListsDiffer(g)
  BY <1>0, <1>3, <1>9, <1>11 DEF Cs, Rs, ListsDiffer
<1>13. Count(g.spare + 0, Cs(g), Rs(g))
  <2>1. {s \in R \cup {x} : s.descriptors} = {s \in R : s.descriptors}
    BY <1>5
  <2>2. PICK c \in Nat, k \in Nat : c = Cardinality(C) /\ k = Cardinality(R)
    BY <1>0, <1>3, Numbers
  <2>3. h.spare + 0 + c + (k + 1) = h.spare + 1 + c + k
    BY <1>0
  <2> QED
    BY <1>0, <1>3, <1>6, <1>11, <1>12, <2>1, <2>2, <2>3 DEF Count
<1>14. <<b, 0>> \in LSet
  BY <1>2 DEF LSet
<1>15. Sound(g, l \cup {<<b, 0>>}, 0)
  BY <1>0, <1>5, <1>6, <1>7, <1>11, <1>12, <1>13, <1>14 DEF Sound, LSet
<1> QED
  BY <1>3, <1>7, <1>10, <1>11, <1>12, <1>14, <1>15

\* There is no block: the descriptor is given back.
LEMMA FailedKeeps ==
  ASSUME NEW h, NEW l, Sound(h, l, 1)
  PROVE  Sound(L!Failed(h), l, 0) /\ Cs(L!Failed(h)) = Cs(h)
<1>0. /\ h \in Heaps /\ l \in SUBSET LSet /\ ListsDiffer(h) /\ h.spare \in Nat
      /\ Separate(Cs(h), Rs(h), h.blocks) /\ Contents(Cs(h), Rs(h), l)
      /\ Count(h.spare + 1, Cs(h), Rs(h))
  BY SoundFacts
<1>1. PICK g : g = L!Failed(h)
  OBVIOUS
<1>2. /\ g.caches = h.caches /\ g.regions = h.regions /\ g.blocks = h.blocks
      /\ g.spare + 0 = h.spare + 1 /\ g \in Heaps
  BY <1>0, <1>1 DEF L!Failed, Heaps
<1>3. Cs(g) = Cs(h) /\ Rs(g) = Rs(h) /\ ListsDiffer(g)
  BY <1>0, <1>2 DEF Cs, Rs, ListsDiffer
<1> QED
  BY <1>0, <1>1, <1>2, <1>3 DEF Sound, LSet

\* slab_alloc() finds an object that was not allocated, or none.
LEMMA AllocKeeps ==
  ASSUME L!SlabAssumption, NEW h, NEW l, Sound(h, l, 0), Busy(Cs(h)),
         NEW t \in L!Types \cup {L!Whole}, NEW r \in L!slab_alloc(h, t)
  PROVE  /\ Busy(Cs(r.heap))
         /\ \/ r.object = L!Nothing /\ Sound(r.heap, l, 0)
            \/ r.object \in LSet \ l /\ Sound(r.heap, l \cup {r.object}, 0)
<1>0. h \in Heaps /\ Cs(h) \in SUBSET CSet
  BY SoundFacts
<1>1. CASE t # L!Whole /\ L!WithFree(h, t) # 0
  <2>1. t \in L!Types /\ r = L!Pop(h, t)
    BY <1>1 DEF L!slab_alloc
  <2>2. Takes(h, t, l, r)
    BY <1>1, <2>1, PopTakes
  <2>3. r.object \in LSet \ l /\ Sound(r.heap, l \cup {r.object}, 0)
    BY <2>2 DEF Takes
  <2>4. PICK x \in Cs(h), y \in CSet :
              /\ Cs(r.heap) = (Cs(h) \ {x}) \cup {y}
              /\ Len(y[2].free) < PerCache[y[1]]
    BY <2>2 DEF Takes
  <2>5. Busy(Cs(r.heap))
    BY <2>4 DEF Busy
  <2> QED
    BY <2>3, <2>5
<1>2. CASE ~(t # L!Whole /\ L!WithFree(h, t) # 0)
  <2>1. \/ h.spare = 0 /\ r = L!Result(h, L!Nothing)
        \/ \E h1 \in L!take_descriptor(h) :
             \/ r = L!Result(L!Failed(h1), L!Nothing)
             \/ t = L!Whole /\ r \in L!WithBlock(h1)
             \/ t # L!Whole /\ \E h2 \in L!WithCache(h1, t) : r = L!Pop(h2, t)
    BY <1>2 DEF L!slab_alloc
  <2>2. CASE r = L!Result(h, L!Nothing)
    BY <2>2 DEF L!Result
  <2>3. ASSUME NEW h1 \in L!take_descriptor(h)
        PROVE  /\ Sound(h1, l, 1) /\ Cs(h1) = Cs(h)
               /\ h1.caches = h.caches
    BY <2>3, DescriptorTaken DEF Cs
  <2>4. ASSUME NEW h1 \in L!take_descriptor(h), r = L!Result(L!Failed(h1), L!Nothing)
        PROVE  Busy(Cs(r.heap)) /\ r.object = L!Nothing /\ Sound(r.heap, l, 0)
    BY <2>3, <2>4, FailedKeeps DEF L!Result
  <2>5. ASSUME NEW h1 \in L!take_descriptor(h), r \in L!WithBlock(h1)
        PROVE  Busy(Cs(r.heap)) /\ r.object \in LSet \ l /\ Sound(r.heap, l \cup {r.object}, 0)
    BY <2>3, <2>5, BlockMade
  <2>6. ASSUME NEW h1 \in L!take_descriptor(h), t # L!Whole, NEW h2 \in L!WithCache(h1, t),
               r = L!Pop(h2, t)
        PROVE  Busy(Cs(r.heap)) /\ r.object \in LSet \ l /\ Sound(r.heap, l \cup {r.object}, 0)
    <3>1. t \in L!Types
      BY <2>6
    <3>2. Sound(h1, l, 1) /\ Cs(h1) = Cs(h)
      BY <2>3
    <3>3. Sound(h2, l, 0)
      BY <3>1, <3>2, CacheMade
    <3>4. PICK x \in CSet : x[1] = t /\ x[2].free # <<>> /\ Cs(h2) = Cs(h) \cup {x}
      BY <3>1, <3>2, CacheMade
    <3>5. h2 \in Heaps
      BY <3>3, SoundFacts
    <3>6. \A z \in Cs(h) : z[1] = t => z[2].free = <<>>
      BY <1>0, <1>2, <2>6, <3>1, WithFreeIs DEF Cs, Range
    <3>7. L!WithFree(h2, t) # 0
      <4>2. x[2] \in Range(h2.caches[t])
        BY <3>4 DEF Cs
      <4> QED
        BY <3>1, <3>5, <3>4, <4>2, WithFreeIs DEF Range
    <3>11. Takes(h2, t, l, r)
      BY <2>6, <3>1, <3>3, <3>7, PopTakes
    <3>8. PICK u \in Cs(h2), y \in CSet :
              /\ u[1] = t /\ u[2].free # <<>> /\ Cs(r.heap) = (Cs(h2) \ {u}) \cup {y}
              /\ Len(y[2].free) < PerCache[y[1]]
      BY <3>11 DEF Takes
    <3>9. u = x
      BY <3>4, <3>6, <3>8
    <3>10. Busy(Cs(r.heap))
      BY <3>4, <3>8, <3>9 DEF Busy
    <3> QED
      BY <3>10, <3>11 DEF Takes
  <2> QED
    BY <2>1, <2>2, <2>4, <2>5, <2>6 DEF L!Result
<1> QED
  BY <1>1, <1>2

\* The last object of a cache is freed: the cache goes.
LEMMA CacheEmptied ==
  ASSUME NEW C \in SUBSET CSet, NEW R \in SUBSET RegionRecs, NEW B, NEW l \in SUBSET LSet,
         Separate(C, R, B), Contents(C, R, l), NEW x \in C, NEW o,
         Range(x[2].free) \cup {o} = 1 .. PerCache[x[1]]
  PROVE  Contents(C \ {x}, R, l \ {<<x[2].block, o>>})
<1> DEFINE k == l \ {<<x[2].block, o>>}
<1>1. ASSUME NEW z \in C \ {x} PROVE Fits(z, k)
  <2>1. z[2].block # x[2].block
    BY <1>1 DEF Separate
  <2>2. \A p : <<z[2].block, p>> \notin k <=> <<z[2].block, p>> \notin l
    BY <2>1
  <2>3. Fits(z, l)
    BY <1>1 DEF Contents
  <2> HIDE DEF k
  <2> QED
    BY <2>2, <2>3 DEF Fits
<1>2. ASSUME NEW z \in k, InCache(C, z) PROVE InCache(C \ {x}, z)
  <2>1. PICK c \in C : c[2].block = z[1] /\ z[2] \in 1 .. PerCache[c[1]]
    BY <1>2 DEF InCache
  <2>2. z \in l /\ z = <<z[1], z[2]>> /\ z # <<x[2].block, o>>
    BY DEF LSet
  <2>3. c # x
    <3>1. SUFFICES ASSUME c = x PROVE FALSE
      OBVIOUS
    <3>2. Range(x[2].free) = {p \in 1 .. PerCache[x[1]] : <<x[2].block, p>> \notin l}
      BY DEF Contents, Fits
    <3>3. z = <<x[2].block, z[2]>> /\ z[2] \notin Range(x[2].free)
      BY <2>1, <2>2, <3>1, <3>2
    <3> QED
      BY <2>1, <2>2, <3>1, <3>3
  <2> QED
    BY <2>1, <2>3 DEF InCache
<1>3. ASSUME NEW r \in R, ~r.descriptors PROVE <<r.block, 0>> \in k
  BY <1>3 DEF Contents, Separate
<1>4. \A z \in k : InCache(C, z) \/ InRegion(R, z)
  BY DEF Contents
<1> QED
  BY <1>1, <1>2, <1>3, <1>4 DEF Contents

\* Where a live object lies.
LEMMA LiveInCache ==
  ASSUME NEW C \in SUBSET CSet, NEW R \in SUBSET RegionRecs, NEW B, NEW l \in SUBSET LSet,
         Separate(C, R, B), Contents(C, R, l), NEW z \in C, NEW x \in l, x[1] = z[2].block
  PROVE  /\ x[2] \in 1 .. PerCache[z[1]] /\ x = <<z[2].block, x[2]>>
         /\ x[2] \notin Range(z[2].free)
<1>1. x = <<x[1], x[2]>>
  BY DEF LSet
<1>2. ~InRegion(R, x)
  BY DEF InRegion, Separate
<1>3. PICK c \in C : c[2].block = x[1] /\ x[2] \in 1 .. PerCache[c[1]]
  BY <1>2 DEF Contents, InCache
<1>4. c = z
  BY <1>3 DEF Separate
<1>5. Range(z[2].free) = {p \in 1 .. PerCache[z[1]] : <<z[2].block, p>> \notin l}
  BY DEF Contents, Fits
<1> QED
  BY <1>1, <1>3, <1>4, <1>5

LEMMA LiveInRegion ==
  ASSUME NEW C \in SUBSET CSet, NEW R \in SUBSET RegionRecs, NEW B, NEW l \in SUBSET LSet,
         Separate(C, R, B), Contents(C, R, l), NEW x \in l, \A z \in C : z[2].block # x[1]
  PROVE  \E r \in R : r.block = x[1] /\ ~r.descriptors /\ x = <<r.block, 0>>
<1>1. x = <<x[1], x[2]>>
  BY DEF LSet
<1>2. ~InCache(C, x)
  BY DEF InCache
<1> QED
  BY <1>1, <1>2 DEF Contents, InRegion

HeapKept(g, l) == Sound(g, l, 0) /\ Busy(Cs(g))

\* An object comes back to the stack of free ones.
GivenBack(f, f1, o, P) ==
  /\ f1 \in Seq(Nat \ {0}) /\ Distinct(f1) /\ Range(f1) = Range(f) \cup {o}
  /\ Len(f1) \in Nat /\ f1 # f
  /\ Len(f1) <= P /\ (Len(f1) = P => Range(f1) = 1 .. P)

LEMMA ObjectBack ==
  ASSUME NEW f \in Seq(Nat \ {0}), Distinct(f), NEW P \in Nat, Range(f) \in SUBSET (1 .. P),
         NEW o \in 1 .. P, o \notin Range(f), NEW f1, f1 = <<o>> \o f
  PROVE  GivenBack(f, f1, o, P)
<1>1. PICK S : S = Nat \ {0} /\ f \in Seq(S) /\ o \in S
  OBVIOUS
<1>2. /\ f1 \in Seq(S) /\ Range(f1) = Range(f) \cup {o} /\ Len(f1) = Len(f) + 1
      /\ Distinct(f1)
  BY <1>1, PrependFacts
<1>3. Range(f1) \subseteq 1 .. P
  BY <1>2
<1>4. Len(f1) <= P /\ (Len(f1) = P => Range(f1) = 1 .. P)
  BY <1>2, <1>3, DistinctFits
<1>5. PICK e \in Nat : e = Len(f)
  OBVIOUS
<1> QED
  BY <1>1, <1>2, <1>4, <1>5 DEF GivenBack

LEMMA OneLess == \A d, e, k \in Nat : d + 1 + (e - 1) + k = d + 0 + e + k
OBVIOUS

LEMMA OneLessLast == \A d, e, k \in Nat : d + 1 + e + (k - 1) = d + 0 + e + k
OBVIOUS

\* slab_free() of an object of a cache.
LEMMA FreeObjectKeeps ==
  ASSUME L!SlabAssumption, NEW h, NEW l, Sound(h, l, 0), Busy(Cs(h)), NEW t \in L!Types,
         NEW n \in DOMAIN h.caches[t], NEW x \in l, x[1] = h.caches[t][n].block
  PROVE  HeapKept(L!FreeObject(h, t, n, x[2]), l \ {x})
<1>0. /\ h \in Heaps /\ l \in SUBSET LSet /\ ListsDiffer(h)
      /\ Cs(h) \in SUBSET CSet /\ Rs(h) \in SUBSET RegionRecs
      /\ h.blocks \in SUBSET Blocks /\ h.spare \in Nat
      /\ Separate(Cs(h), Rs(h), h.blocks) /\ Contents(Cs(h), Rs(h), l)
      /\ Count(h.spare + 0, Cs(h), Rs(h))
  BY SoundFacts
<1>1. PICK C, R, B : /\ C = Cs(h) /\ R = Rs(h) /\ B = h.blocks
                     /\ C \in SUBSET CSet /\ R \in SUBSET RegionRecs
                     /\ Separate(C, R, B) /\ Contents(C, R, l)
  BY <1>0
<1>2. PICK s \in Seq(CacheRecs) : s = h.caches[t] /\ Distinct(s) /\ n \in DOMAIN s
  BY <1>0 DEF Heaps, ListsDiffer
<1>3. PICK c \in CacheRecs : c = s[n] /\ c = h.caches[t][n] /\ x[1] = c.block
  BY <1>2
<1>4. PICK z \in C : z = <<t, c>> /\ z[1] = t /\ z[2] = c
  BY <1>0, <1>1, <1>2, <1>3, InList DEF Range
<1>5. PICK o : /\ o = x[2] /\ o \in 1 .. PerCache[t] /\ x = <<c.block, o>>
               /\ o \notin Range(c.free)
  BY <1>0, <1>1, <1>3, <1>4, LiveInCache
<1>6. PICK P \in Nat \ {0} : P = PerCache[t]
  BY PerCacheType
<1>7. PICK f \in Seq(Nat \ {0}) : f = c.free
  BY DEF CacheRecs
<1>8. Distinct(f) /\ Range(f) = {p \in 1 .. P : <<c.block, p>> \notin l}
  BY <1>1, <1>4, <1>6, <1>7 DEF Contents, Fits
<1>9. PICK f1 : f1 = <<o>> \o f
  OBVIOUS
<1>10. /\ f1 \in Seq(Nat \ {0}) /\ Distinct(f1) /\ Range(f1) = Range(f) \cup {o}
       /\ Len(f1) \in Nat /\ f1 # f /\ Len(f1) <= P /\ (Len(f1) = P => Range(f1) = 1 .. P)
  <2>1. Range(f) \in SUBSET (1 .. P) /\ o \in 1 .. P /\ o \notin Range(f) /\ P \in Nat
    BY <1>5, <1>6, <1>7, <1>8
  <2>2. f \in Seq(Nat \ {0}) /\ Distinct(f)
    BY <1>7, <1>8
  <2> QED
    <3>1. GivenBack(f, f1, o, P)
      BY <1>9, <2>1, <2>2, ObjectBack
    <3> QED
      BY <3>1 DEF GivenBack
<1>12. PICK c1 \in CacheRecs : c1 = [c EXCEPT !.free = f1] /\ c1.block = c.block /\ c1.free = f1
  <2>1. f1 \in Seq(Nat \ {0})
    BY <1>10
  <2> QED
    BY <1>3, <2>1, CacheRecords
<1>13. c1 # c
  BY <1>7, <1>10, <1>12
<1>14. [h.caches[t][n] EXCEPT !.free = <<o>> \o @] = c1
  BY <1>3, <1>7, <1>9, <1>12
<1>15. PICK g : g = L!FreeObject(h, t, n, o)
  OBVIOUS
<1>16. CASE Len(f1) # P
  <2>1. g = [h EXCEPT !.caches[t][n] = c1]
    BY <1>6, <1>12, <1>14, <1>15, <1>16 DEF L!FreeObject, L!Emptied
  <2>0. PICK y : y = <<t, c1>>
    OBVIOUS
  <2>2. y = <<t, c1>> /\ y[1] = t /\ y[2] = c1
    BY <2>0
  <2>3. /\ z \in Cs(h) /\ z \in CSet /\ y \in CSet
        /\ g \in Heaps /\ ListsDiffer(g)
        /\ g.spare = h.spare /\ g.blocks = h.blocks /\ Rs(g) = Rs(h)
        /\ Cs(g) = (Cs(h) \ {z}) \cup {y}
        /\ Separate(Cs(g), Rs(g), g.blocks)
        /\ Cardinality(Cs(g)) = Cardinality(Cs(h))
    <3>1. c1.block = h.caches[t][n].block /\ c1 # h.caches[t][n]
      BY <1>3, <1>12, <1>13
    <3>2. z = <<t, h.caches[t][n]>> /\ c1 \in CacheRecs
      BY <1>3, <1>4, <1>12
    <3>3. FreeMoves(h, g, z, y)
      BY <2>0, <2>1, <3>1, <3>2, FreeChanges
    <3> QED
      BY <3>3 DEF FreeMoves
  <2>4. Contents((C \ {z}) \cup {y}, R, l \ {x})
    <3>1. /\ y[1] = z[1] /\ y[2].block = z[2].block /\ o \in 1 .. PerCache[z[1]]
          /\ Distinct(y[2].free) /\ Range(y[2].free) = Range(z[2].free) \cup {o}
      BY <1>4, <1>5, <1>7, <1>10, <1>12, <2>2
    <3>2. Contents((C \ {z}) \cup {y}, R, l \ {<<z[2].block, o>>})
      BY <1>0, <1>1, <2>3, <3>1, ObjectGiven
    <3> QED
      BY <1>4, <1>5, <3>2
  <2>5. Count(g.spare + 0, Cs(g), Rs(g))
    BY <1>0, <2>3 DEF Count
  <2>6. Len(y[2].free) < PerCache[y[1]]
    <3>1. PICK e \in Nat : e = Len(f1)
      BY <1>10
    <3>2. e < P
      BY <1>6, <1>10, <1>16, <3>1
    <3>3. Len(y[2].free) = e /\ PerCache[y[1]] = P
      BY <1>6, <1>12, <2>2, <3>1
    <3> QED
      BY <3>2, <3>3
  <2>7. Busy(Cs(g))
    BY <2>3, <2>6 DEF Busy
  <2>8. Sound(g, l \ {x}, 0)
    BY <1>0, <1>1, <2>3, <2>4, <2>5 DEF Sound, LSet
  <2> QED
    BY <1>5, <1>15, <2>7, <2>8 DEF HeapKept
<1>17. CASE Len(f1) = P
  <2>1. PICK p : p = L!RemoveAt(s, n)
    OBVIOUS
  <2>2. p \in Seq(CacheRecs) /\ Distinct(p) /\ Range(p) = Range(s) \ {c}
    BY <1>2, <1>3, <2>1, RemoveFacts
  <2>3. PICK m : m = [h.caches EXCEPT ![t] = p]
    OBVIOUS
  <2>4. /\ m \in [L!Types -> Seq(CacheRecs)] /\ m[t] = p
        /\ \A u \in L!Types \ {t} : m[u] = h.caches[u]
    BY <1>0, <2>2, <2>3 DEF Heaps
  <2>5. /\ g.caches = m /\ g.spare + 0 = h.spare + 1 /\ g.blocks = B \ {c.block}
        /\ g.regions = h.regions /\ g \in Heaps
    <3>1. g = [h EXCEPT !.caches[t] = L!RemoveAt(@, n), !.spare = @ + 1, !.blocks = @ \ {c1.block}]
      BY <1>6, <1>12, <1>14, <1>15, <1>17 DEF L!FreeObject, L!Emptied
    <3>2. g = [h EXCEPT !.caches = m, !.spare = @ + 1, !.blocks = @ \ {c.block}]
      BY <1>0, <1>2, <1>12, <2>1, <2>3, <3>1 DEF Heaps
    <3> QED
      <4>1. g.caches = m /\ g.spare = h.spare + 1 /\ g.blocks = B \ {c.block} /\ g.regions = h.regions
        BY <1>0, <1>1, <3>2 DEF Heaps
      <4>2. g = [caches |-> m, regions |-> h.regions, spare |-> h.spare + 1, blocks |-> B \ {c.block}]
        BY <1>0, <1>1, <3>2 DEF Heaps
      <4>3. B \ {c.block} \in SUBSET Blocks /\ h.regions \in Seq(RegionRecs)
            /\ h.spare + 1 \in Nat /\ h.spare + 1 + 0 = h.spare + 1
        BY <1>0, <1>1 DEF Heaps
      <4>4. g \in Heaps
        BY <2>4, <4>2, <4>3 DEF Heaps
      <4> QED
        BY <4>1, <4>3, <4>4
  <2>6. ListMoves(h, g, t, p)
    BY <1>0, <2>2, <2>4, <2>5, CachesMove
  <2>7. Cs(g) = C \ {z}
    <3>1. \A u \in CSet : u[1] = t => (u[2] = c <=> u = z)
      BY <1>4, <2>6 DEF ListMoves
    <3>2. \A u \in CSet : u \in Cs(g) <=> u \in C \ {z}
      BY <1>1, <1>2, <1>4, <2>2, <2>6, <3>1 DEF ListMoves
    <3> QED
      BY <1>1, <2>6, <3>2 DEF ListMoves
  <2>8. ListsDiffer(g) /\ Rs(g) = R
    BY <1>0, <1>1, <2>5, <2>6 DEF ListMoves, ListsDiffer, Rs
  <2>9. /\ Separate(C \ {z}, R, B \ {c.block})
        /\ Cardinality(C) \in Nat /\ Cardinality(C \ {z}) = Cardinality(C) - 1
    BY <1>1, <1>4, CacheGoes
  <2>10. Contents(C \ {z}, R, l \ {x})
    <3>1. Range(z[2].free) \cup {o} = 1 .. PerCache[z[1]]
      BY <1>4, <1>6, <1>7, <1>10, <1>17
    <3>2. Contents(C \ {z}, R, l \ {<<z[2].block, o>>})
      BY <1>0, <1>1, <3>1, CacheEmptied
    <3> QED
      BY <1>4, <1>5, <3>2
  <2>11. Count(g.spare + 0, Cs(g), Rs(g))
    <3>1. PICK e \in Nat, k \in Nat : e = Cardinality(C) /\ k = Cardinality(R)
      BY <1>0, <1>1, Numbers
    <3>2. PICK d \in Nat : d = h.spare
      BY <1>0
    <3>3. d + 1 + (e - 1) + k = d + 0 + e + k
      BY <3>1, <3>2, OneLess
    <3> QED
      BY <1>0, <1>1, <2>5, <2>7, <2>8, <2>9, <3>1, <3>2, <3>3 DEF Count
  <2>12. Busy(Cs(g))
    BY <1>1, <2>7 DEF Busy
  <2>13. Sound(g, l \ {x}, 0)
    BY <1>0, <1>1, <2>5, <2>7, <2>8, <2>9, <2>10, <2>11 DEF Sound, LSet
  <2> QED
    BY <1>5, <1>15, <2>12, <2>13 DEF HeapKept
<1> QED
  BY <1>16, <1>17

\* slab_free() of a block of its own.
LEMMA FreeWholeKeeps ==
  ASSUME L!SlabAssumption, NEW h, NEW l, Sound(h, l, 0), Busy(Cs(h)), NEW x \in l,
         \A z \in Cs(h) : z[2].block # x[1]
  PROVE  HeapKept(L!FreeWhole(h, x[1]), l \ {x})
<1>0. /\ h \in Heaps /\ l \in SUBSET LSet /\ ListsDiffer(h)
      /\ Cs(h) \in SUBSET CSet /\ Rs(h) \in SUBSET RegionRecs
      /\ h.blocks \in SUBSET Blocks /\ h.spare \in Nat
      /\ Separate(Cs(h), Rs(h), h.blocks) /\ Contents(Cs(h), Rs(h), l)
      /\ Count(h.spare + 0, Cs(h), Rs(h))
  BY SoundFacts
<1>1. PICK C, R, B : /\ C = Cs(h) /\ R = Rs(h) /\ B = h.blocks
                     /\ C \in SUBSET CSet /\ R \in SUBSET RegionRecs
                     /\ Separate(C, R, B) /\ Contents(C, R, l)
  BY <1>0
<1>2. PICK r \in R : r.block = x[1] /\ ~r.descriptors /\ x = <<r.block, 0>>
  BY <1>0, <1>1, LiveInRegion
<1>3. PICK s \in Seq(RegionRecs) : s = h.regions /\ Distinct(s) /\ R = Range(s)
  BY <1>0, <1>1 DEF Heaps, ListsDiffer, Rs
<1>4. PICK n : n = L!SelectInSeq(s, LAMBDA u : u.block = x[1])
  OBVIOUS
<1>5. n \in DOMAIN s /\ s[n] = r
  <2> DEFINE I == {i \in 1 .. Len(s) : s[i].block = x[1]}
  <2>1. n = IF I # {} THEN L!Min(I) ELSE 0
    BY <1>4 DEF L!SelectInSeq
  <2>2. DOMAIN s = 1 .. Len(s) /\ I \in SUBSET Nat
    BY <1>3
  <2>3. I # {}
    BY <1>2, <1>3, <2>2 DEF Range
  <2>4. n \in I
    BY <2>1, <2>2, <2>3, SlabLeast
  <2>5. s[n] \in R /\ s[n].block = r.block
    BY <1>2, <1>3, <2>2, <2>4 DEF Range
  <2> QED
    BY <1>1, <1>2, <2>2, <2>4, <2>5 DEF Separate
<1>6. PICK p : p = L!RemoveAt(s, n)
  OBVIOUS
<1>7. p \in Seq(RegionRecs) /\ Distinct(p) /\ Range(p) = R \ {r}
  BY <1>3, <1>5, <1>6, RemoveFacts
<1>8. PICK g : g = L!FreeWhole(h, x[1])
  OBVIOUS
<1>9. /\ g.caches = h.caches /\ g.spare + 0 = h.spare + 1 /\ g.blocks = B \ {r.block}
      /\ g.regions = p /\ g \in Heaps
  <2>1. g = [h EXCEPT !.regions = L!RemoveAt(@, L!SelectInSeq(@, LAMBDA u : u.block = x[1])),
                      !.spare = @ + 1, !.blocks = @ \ {x[1]}]
    BY <1>8 DEF L!FreeWhole
  <2>2. L!RemoveAt(h.regions, L!SelectInSeq(h.regions, LAMBDA u : u.block = x[1])) = p
    BY <1>3, <1>4, <1>6
  <2>3. g = [h EXCEPT !.regions = p, !.spare = @ + 1, !.blocks = @ \ {x[1]}]
    BY <2>1, <2>2
  <2>4. h = [caches |-> h.caches, regions |-> h.regions, spare |-> h.spare, blocks |-> h.blocks]
        /\ h.caches \in [L!Types -> Seq(CacheRecs)]
    BY <1>0 DEF Heaps
  <2>5. g = [caches |-> h.caches, regions |-> p, spare |-> h.spare + 1, blocks |-> B \ {r.block}]
    BY <1>1, <1>2, <2>3, <2>4
  <2>6. B \ {r.block} \in SUBSET Blocks /\ h.spare + 1 \in Nat /\ h.spare + 1 + 0 = h.spare + 1
    BY <1>0, <1>1
  <2>7. g \in Heaps
    BY <1>7, <2>4, <2>5, <2>6 DEF Heaps
  <2> QED
    BY <2>5, <2>6, <2>7
<1>10. Cs(g) = C /\ Rs(g) = R \ {r} /\ ListsDiffer(g)
  BY <1>0, <1>1, <1>7, <1>9 DEF Cs, Rs, ListsDiffer
<1>11. /\ Separate(C, R \ {r}, B \ {r.block})
       /\ Cardinality(R) \in Nat /\ Cardinality(R \ {r}) = Cardinality(R) - 1
  BY <1>1, RegionGoes
<1>12. Contents(C, R \ {r}, l \ {x})
  <2>1. Contents(C, R \ {r}, l \ {<<r.block, 0>>})
    BY <1>0, <1>1, <1>2, BlockGone
  <2> QED
    BY <1>2, <2>1
<1>13. Count(g.spare + 0, Cs(g), Rs(g))
  <2>1. PICK c \in Nat, k \in Nat : c = Cardinality(C) /\ k = Cardinality(R)
    BY <1>0, <1>1, Numbers
  <2>2. PICK d \in Nat : d = h.spare
    BY <1>0
  <2>3. d + 1 + c + (k - 1) = d + 0 + c + k
    BY <2>1, <2>2, OneLessLast
  <2>4. {u \in R \ {r} : u.descriptors} = {u \in R : u.descriptors}
    BY <1>2
  <2> QED
    BY <1>0, <1>1, <1>9, <1>10, <1>11, <2>1, <2>2, <2>3, <2>4 DEF Count
<1>14. Busy(Cs(g))
  BY <1>1, <1>10
<1>15. Sound(g, l \ {x}, 0)
  BY <1>0, <1>1, <1>9, <1>10, <1>11, <1>12, <1>13 DEF Sound, LSet
<1> QED
  BY <1>8, <1>14, <1>15 DEF HeapKept

\* The caches of a heap are found at their places in the lists.
LEMMA CachePlaces ==
  ASSUME NEW h \in Heaps
  PROVE  /\ \A t \in L!Types : \A n \in DOMAIN h.caches[t] :
              <<t, n>> \in L!CachesOf(h) /\ <<t, h.caches[t][n]>> \in Cs(h)
         /\ \A y \in L!CachesOf(h) : y[1] \in L!Types /\ y[2] \in DOMAIN h.caches[y[1]]
                                     /\ y = <<y[1], y[2]>>
         /\ \A z \in Cs(h) : \E n \in DOMAIN h.caches[z[1]] :
              z[1] \in L!Types /\ z[2] = h.caches[z[1]][n] /\ <<z[1], n>> \in L!CachesOf(h)
<1>1. ASSUME NEW t \in L!Types, NEW n \in DOMAIN h.caches[t]
      PROVE  <<t, n>> \in L!CachesOf(h) /\ <<t, h.caches[t][n]>> \in Cs(h)
  <2>1. h.caches[t][n] \in Range(h.caches[t])
    BY DEF Range
  <2> QED
    BY <2>1, InList DEF L!CachesOf
<1>2. ASSUME NEW y \in L!CachesOf(h)
      PROVE  y[1] \in L!Types /\ y[2] \in DOMAIN h.caches[y[1]] /\ y = <<y[1], y[2]>>
  BY DEF L!CachesOf
<1>3. ASSUME NEW z \in Cs(h)
      PROVE  \E n \in DOMAIN h.caches[z[1]] :
               z[1] \in L!Types /\ z[2] = h.caches[z[1]][n] /\ <<z[1], n>> \in L!CachesOf(h)
  <2>1. z[1] \in L!Types /\ z[2] \in Range(h.caches[z[1]])
    BY DEF Cs
  <2>2. PICK n \in DOMAIN h.caches[z[1]] : z[2] = h.caches[z[1]][n]
    BY <2>1 DEF Range
  <2> QED
    BY <1>1, <2>1, <2>2
<1> QED
  BY <1>1, <1>2, <1>3

\* slab_free() of a live object.
LEMMA FreedKeeps ==
  ASSUME L!SlabAssumption, NEW h, NEW l, Sound(h, l, 0), Busy(Cs(h)), NEW x \in l
  PROVE  HeapKept(L!Freed(h, x), l \ {x})
<1>0. h \in Heaps
  BY SoundFacts
<1>1. PICK in : in = {y \in L!CachesOf(h) : h.caches[y[1]][y[2]].block = x[1]}
  OBVIOUS
<1>2. CASE in = {}
  <2>1. L!Freed(h, x) = L!FreeWhole(h, x[1])
    BY <1>1, <1>2 DEF L!Freed
  <2>2. ASSUME NEW z \in Cs(h) PROVE z[2].block # x[1]
    <3>1. PICK n : z[2] = h.caches[z[1]][n] /\ <<z[1], n>> \in L!CachesOf(h)
      BY <1>0, CachePlaces
    <3>2. <<z[1], n>> \notin in
      BY <1>2
    <3> QED
      BY <1>1, <3>1, <3>2
  <2> QED
    BY <2>1, <2>2, FreeWholeKeeps
<1>3. CASE in # {}
  <2>1. PICK y : y = (CHOOSE z \in in : TRUE)
    OBVIOUS
  <2>2. y \in in
    BY <1>3, <2>1
  <2>3. L!Freed(h, x) = L!FreeObject(h, y[1], y[2], x[2])
    BY <1>1, <1>3, <2>1 DEF L!Freed
  <2>4. PICK t, n : t = y[1] /\ n = y[2] /\ t \in L!Types /\ n \in DOMAIN h.caches[t]
    BY <1>0, <1>1, <2>2, CachePlaces
  <2>5. x[1] = h.caches[t][n].block
    BY <1>1, <2>2, <2>4
  <2>6. HeapKept(L!FreeObject(h, t, n, x[2]), l \ {x})
    BY <2>4, <2>5, FreeObjectKeeps
  <2> QED
    BY <2>3, <2>4, <2>6
<1> QED
  BY <1>2, <1>3

\* The state is the heap and what is live.
LEMMA HeapIs ==
  ASSUME NEW h \in Heaps, L!Becomes(h)
  PROVE  L!heap' = h
BY DEF L!Becomes, L!heap, Heaps

LEMMA KeptInv ==
  ASSUME NEW h, NEW k, HeapKept(h, k), L!Becomes(h), live' = k
  PROVE  HeapInv'
<1>1. h \in Heaps
  BY SoundFacts DEF HeapKept
<1>2. L!heap' = h
  BY <1>1, HeapIs
<1>3. HeapInv' <=> HeapKept(L!heap', live')
  BY DEF HeapInv, HeapKept, Sound, Busy, Cs, Rs
<1> QED
  BY <1>2, <1>3

LEMMA NothingIsNoObject == L!Nothing \notin LSet
<1>1. SUFFICES ASSUME NEW o \in LSet PROVE o # L!Nothing
  OBVIOUS
<1>2. PICK b, n : o = <<b, n>>
  BY DEF LSet
<1> QED
  BY <1>2 DEF L!Nothing

\* slab_alloc(): what was found is live.
LEMMA HeapAllocInv ==
  ASSUME L!SlabAssumption, HeapInv, NEW t \in L!Types \cup {L!Whole}, L!Alloc(t)
  PROVE  HeapInv'
<1>1. PICK h, l : h = L!heap /\ l = live /\ Sound(h, l, 0) /\ Busy(Cs(h))
  BY DEF HeapInv
<1>2. PICK r \in L!slab_alloc(h, t) : L!Becomes(r.heap) /\ live' = l \cup ({r.object} \ {L!Nothing})
  BY <1>1 DEF L!Alloc
<1>3. /\ Busy(Cs(r.heap))
      /\ \/ r.object = L!Nothing /\ Sound(r.heap, l, 0)
         \/ r.object \in LSet \ l /\ Sound(r.heap, l \cup {r.object}, 0)
  BY <1>1, AllocKeeps
<1>4. CASE r.object = L!Nothing /\ Sound(r.heap, l, 0)
  <2>1. live' = l
    BY <1>2, <1>4
  <2>2. HeapKept(r.heap, l)
    BY <1>3, <1>4 DEF HeapKept
  <2> QED
    BY <1>2, <2>1, <2>2, KeptInv
<1>5. CASE r.object \in LSet \ l /\ Sound(r.heap, l \cup {r.object}, 0)
  <2>1. r.object # L!Nothing
    BY <1>5, NothingIsNoObject
  <2>2. live' = l \cup {r.object}
    BY <1>2, <2>1
  <2>3. HeapKept(r.heap, l \cup {r.object})
    BY <1>3, <1>5 DEF HeapKept
  <2> QED
    BY <1>2, <2>2, <2>3, KeptInv
<1> QED
  BY <1>3, <1>4, <1>5

LEMMA HeapFreeInv ==
  ASSUME L!SlabAssumption, HeapInv, NEW x \in live, L!slab_free(x)
  PROVE  HeapInv'
<1>1. PICK h, l : h = L!heap /\ l = live /\ Sound(h, l, 0) /\ Busy(Cs(h))
  BY DEF HeapInv
<1>2. PICK z \in l : z = x
  BY <1>1
<1>3. PICK g : g = L!Freed(h, z) /\ L!Becomes(g) /\ live' = l \ {z}
  BY <1>1, <1>2 DEF L!slab_free
<1>4. HeapKept(g, l \ {z})
  BY <1>1, <1>3, FreedKeeps
<1> QED
  BY <1>3, <1>4, KeptInv

\* slab_realloc(): the new object comes before the old one goes.
LEMMA HeapReallocInv ==
  ASSUME L!SlabAssumption, HeapInv, NEW x \in live, NEW t \in L!Types \cup {L!Whole},
         L!slab_realloc(x, t)
  PROVE  HeapInv'
<1>1. PICK h, l : h = L!heap /\ l = live /\ Sound(h, l, 0) /\ Busy(Cs(h))
  BY DEF HeapInv
<1>2. PICK z \in l : z = x
  BY <1>1
<1>3. PICK r \in L!slab_alloc(h, t) :
        /\ L!Becomes(IF r.object = L!Nothing THEN r.heap ELSE L!Freed(r.heap, z))
        /\ live' = IF r.object = L!Nothing THEN l ELSE (l \ {z}) \cup {r.object}
  BY <1>1, <1>2 DEF L!slab_realloc
<1>4. /\ Busy(Cs(r.heap))
      /\ \/ r.object = L!Nothing /\ Sound(r.heap, l, 0)
         \/ r.object \in LSet \ l /\ Sound(r.heap, l \cup {r.object}, 0)
  BY <1>1, AllocKeeps
<1>5. CASE r.object = L!Nothing /\ Sound(r.heap, l, 0)
  <2>1. live' = l /\ L!Becomes(r.heap)
    BY <1>3, <1>5
  <2>2. HeapKept(r.heap, l)
    BY <1>4, <1>5 DEF HeapKept
  <2> QED
    BY <2>1, <2>2, KeptInv
<1>6. CASE r.object \in LSet \ l /\ Sound(r.heap, l \cup {r.object}, 0)
  <2>1. r.object # L!Nothing
    BY <1>6, NothingIsNoObject
  <2>2. live' = (l \ {z}) \cup {r.object} /\ L!Becomes(L!Freed(r.heap, z))
    BY <1>3, <2>1
  <2>3. PICK k : k = l \cup {r.object} /\ Sound(r.heap, k, 0) /\ z \in k
    BY <1>6
  <2>4. HeapKept(L!Freed(r.heap, z), k \ {z})
    BY <1>4, <2>3, FreedKeeps
  <2>5. k \ {z} = (l \ {z}) \cup {r.object}
    BY <1>6, <2>3
  <2> QED
    BY <2>2, <2>4, <2>5, KeptInv
<1> QED
  BY <1>4, <1>5, <1>6

\* The empty heap.
LEMMA HeapInit ==
  ASSUME L!SlabAssumption, L!Init
  PROVE  HeapInv
<1>1. PICK h, l : h = L!heap /\ l = live
  OBVIOUS
<1>2. /\ h.caches = [t \in L!Types |-> <<>>] /\ h.regions = <<>> /\ h.spare = Initial
      /\ h.blocks = {} /\ l = {}
  BY <1>1 DEF L!Init, L!heap
<1>3. h \in Heaps
  <2>1. [t \in L!Types |-> <<>>] \in [L!Types -> Seq(CacheRecs)] /\ <<>> \in Seq(RegionRecs)
    OBVIOUS
  <2>2. h = [caches |-> [t \in L!Types |-> <<>>], regions |-> <<>>, spare |-> Initial, blocks |-> {}]
    BY <1>1 DEF L!Init, L!heap
  <2> QED
    BY <2>1, <2>2 DEF Heaps, L!SlabAssumption
<1>4. Range(<<>>) = {} /\ Distinct(<<>>)
  BY DEF Range, Distinct
<1>5. Cs(h) = {} /\ Rs(h) = {} /\ ListsDiffer(h)
  <2>1. \A t \in L!Types : h.caches[t] = <<>>
    BY <1>2
  <2>2. Cs(h) = {}
    BY <1>4, <2>1 DEF Cs
  <2> QED
    BY <1>2, <1>4, <2>1, <2>2 DEF Rs, ListsDiffer
<1>6. IsFiniteSet({}) /\ Cardinality({}) = 0
  BY FS_EmptySet
<1>7. Separate({}, {}, {}) /\ Contents({}, {}, {}) /\ Busy({})
  <2>1. Separate({}, {}, {})
    BY <1>6 DEF Separate
  <2> QED
    BY <2>1 DEF Contents, Busy
<1>8. Count(Initial + 0, {}, {})
  <2>1. {r \in {} : r.descriptors} = {}
    OBVIOUS
  <2>2. PICK i \in Nat, p \in Nat : i = Initial /\ p = PerPage
    BY DEF L!SlabAssumption
  <2>3. i + 0 + 0 + 0 = i + p * 0
    BY <2>2
  <2> QED
    BY <1>6, <2>1, <2>2, <2>3 DEF Count
<1>9. Sound(h, l, 0) /\ Busy(Cs(h))
  BY <1>2, <1>3, <1>5, <1>7, <1>8 DEF Sound
<1> QED
  BY <1>1, <1>9 DEF HeapInv

\* Two sets that correspond one to one have as many elements.
LEMMA SameNumber ==
  ASSUME NEW S, NEW T, IsFiniteSet(T), NEW F \in [S -> T],
         \A x, y \in S : F[x] = F[y] => x = y, \A z \in T : \E x \in S : F[x] = z
  PROVE  Cardinality(S) = Cardinality(T)
<1>1. F \in Injection(S, T)
  BY DEF Injection, IsInjective
<1>2. F \in Surjection(S, T)
  BY DEF Surjection, Range
<1> QED
  BY <1>1, <1>2, FS_Injection

\* There is one place for each cache and each region.
LEMMA PlacesCounted ==
  ASSUME NEW h, NEW l, NEW k, Sound(h, l, k)
  PROVE  /\ Cardinality(L!CachesOf(h)) = Cardinality(Cs(h))
         /\ Len(h.regions) = Cardinality(Rs(h))
<1>0. /\ h \in Heaps /\ ListsDiffer(h) /\ IsFiniteSet(Cs(h)) /\ IsFiniteSet(Rs(h))
  BY SoundFacts DEF Separate
<1>1. PICK A, C : A = L!CachesOf(h) /\ C = Cs(h)
  OBVIOUS
<1>2. PICK F : F = [y \in A |-> <<y[1], h.caches[y[1]][y[2]]>>]
  OBVIOUS
<1>3. ASSUME NEW y \in A
      PROVE  /\ y[1] \in L!Types /\ y[2] \in DOMAIN h.caches[y[1]] /\ y = <<y[1], y[2]>>
             /\ F[y] = <<y[1], h.caches[y[1]][y[2]]>> /\ F[y] \in C
             /\ F[y][1] = y[1] /\ F[y][2] = h.caches[y[1]][y[2]]
  BY <1>0, <1>1, <1>2, CachePlaces
<1>4. F \in [A -> C]
  BY <1>2, <1>3
<1>5. ASSUME NEW x \in A, NEW y \in A, F[x] = F[y] PROVE x = y
  <2>1. x[1] = y[1] /\ h.caches[x[1]][x[2]] = h.caches[x[1]][y[2]]
    BY <1>3, <1>5
  <2>2. x[2] = y[2]
    BY <1>0, <1>3, <2>1 DEF ListsDiffer, Distinct
  <2> QED
    BY <1>3, <2>1, <2>2
<1>6. ASSUME NEW z \in C PROVE \E y \in A : F[y] = z
  <2>1. PICK n : z[2] = h.caches[z[1]][n] /\ <<z[1], n>> \in A
    BY <1>0, <1>1, CachePlaces
  <2>2. z = <<z[1], z[2]>>
    BY <1>1 DEF Cs
  <2>3. F[<<z[1], n>>] = <<z[1], h.caches[z[1]][n]>>
    BY <1>2, <2>1
  <2> QED
    BY <2>1, <2>2, <2>3
<1>7. Cardinality(A) = Cardinality(C)
  BY <1>0, <1>1, <1>4, <1>5, <1>6, SameNumber
<1>8. PICK s \in Seq(RegionRecs), N \in Nat : s = h.regions /\ N = Len(s) /\ Distinct(s)
  BY <1>0 DEF Heaps, ListsDiffer
<1>9. PICK T : T = Range(s) /\ T = Rs(h)
  BY <1>8 DEF Rs
<1>10. /\ s \in [1 .. N -> T] /\ \A i, j \in 1 .. N : s[i] = s[j] => i = j
       /\ \A r \in T : \E i \in 1 .. N : s[i] = r
  BY <1>8, <1>9 DEF Range, Distinct
<1>11. Cardinality(1 .. N) = Cardinality(T)
  BY <1>0, <1>9, <1>10, SameNumber
<1>12. Cardinality(1 .. N) = N
  <2>1. 1 \in Int /\ N \in Int
    OBVIOUS
  <2>2. Cardinality(1 .. N) = IF 1 > N THEN 0 ELSE N - 1 + 1
    BY <2>1, FS_Interval
  <2> QED
    BY <2>2
<1> QED
  BY <1>1, <1>7, <1>8, <1>9, <1>11, <1>12

LEMMA HeapMeans ==
  ASSUME L!SlabAssumption, HeapInv
  PROVE  L!HeapExact /\ L!DescriptorsExact
<1>1. PICK h, l : h = L!heap /\ l = live /\ Sound(h, l, 0) /\ Busy(Cs(h))
  BY DEF HeapInv
<1>2. /\ h.caches = caches /\ h.regions = regions /\ h.spare = spare /\ h.blocks = blocks
      /\ L!AllCaches = L!CachesOf(h)
  BY <1>1 DEF L!heap, L!AllCaches
<1>3. PICK C, R, B : /\ C = Cs(h) /\ R = Rs(h) /\ B = blocks
                     /\ C \in SUBSET CSet /\ R \in SUBSET RegionRecs
                     /\ Separate(C, R, B) /\ Contents(C, R, l) /\ Count(spare + 0, C, R)
                     /\ l \in SUBSET LSet /\ h \in Heaps /\ spare \in Nat
  BY <1>1, <1>2, SoundFacts
<1>4. PICK A : A = L!AllCaches
  OBVIOUS
<1>5. ASSUME NEW y \in A
      PROVE  \E z \in C : z[1] = y[1] /\ z[2] = L!CacheAt(y)
  BY <1>2, <1>3, <1>4, CachePlaces DEF L!CacheAt
<1>6. ASSUME NEW z \in C
      PROVE  \E y \in A : z[1] = y[1] /\ z[2] = L!CacheAt(y)
  <2>1. PICK n : z[2] = h.caches[z[1]][n] /\ <<z[1], n>> \in A
    BY <1>2, <1>3, <1>4, CachePlaces
  <2>2. <<z[1], n>>[1] = z[1] /\ L!CacheAt(<<z[1], n>>) = z[2]
    BY <1>2, <2>1 DEF L!CacheAt
  <2> QED
    BY <2>1, <2>2
<1>7. L!Cardinality(A) = Cardinality(C) /\ Len(regions) = Cardinality(R)
      /\ L!Cardinality(B) = Cardinality(B)
  BY <1>1, <1>2, <1>3, <1>4, PlacesCounted, SlabCardinality
<1>8. R = {regions[n] : n \in DOMAIN regions} /\ L!ToSet(regions) = R
  BY <1>2, <1>3 DEF Rs, Range, L!ToSet
<1>9. ASSUME NEW y \in A
      PROVE  /\ L!IsInjective(L!CacheAt(y).free)
             /\ L!ToSet(L!CacheAt(y).free) =
                  {o \in 1 .. PerCache[y[1]] : <<L!CacheAt(y).block, o>> \notin live}
  <2>1. PICK z \in C : z[1] = y[1] /\ z[2] = L!CacheAt(y)
    BY <1>5
  <2>2. Distinct(z[2].free) /\ Range(z[2].free) = {o \in 1 .. PerCache[z[1]] : <<z[2].block, o>> \notin l}
    BY <1>3 DEF Contents, Fits
  <2> QED
    BY <1>1, <2>1, <2>2 DEF L!IsInjective, L!ToSet, Distinct, Range
<1>10. blocks = {L!CacheAt(y).block : y \in A} \cup {regions[n].block : n \in DOMAIN regions}
  <2>1. B = {x[2].block : x \in C} \cup {r.block : r \in R}
    BY <1>3 DEF Separate
  <2>2. {x[2].block : x \in C} = {L!CacheAt(y).block : y \in A}
    BY <1>5, <1>6
  <2>3. {r.block : r \in R} = {regions[n].block : n \in DOMAIN regions}
    BY <1>8
  <2> QED
    BY <1>3, <2>1, <2>2, <2>3
<1>11. L!Cardinality(blocks) = L!Cardinality(A) + Len(regions)
  BY <1>3, <1>7 DEF Separate
<1>12. {b \in blocks : <<b, L!Whole>> \in live} =
         {r.block : r \in {s \in L!ToSet(regions) : ~s.descriptors}}
  <2>1. ASSUME NEW b \in B, <<b, 0>> \in l PROVE \E r \in R : r.block = b /\ ~r.descriptors
    <3>1. PICK x \in l : x = <<b, 0>>
      BY <2>1
    <3>2. ASSUME InCache(C, x) PROVE FALSE
      <4>1. PICK c \in C : 0 \in 1 .. PerCache[c[1]]
        BY <3>1, <3>2 DEF InCache
      <4>2. PICK P \in Nat \ {0} : P = PerCache[c[1]]
        BY <1>3, PerCacheType DEF CSet
      <4> QED
        BY <4>1, <4>2
    <3>3. InRegion(R, x)
      BY <1>3, <3>2 DEF Contents
    <3> QED
      BY <3>1, <3>3 DEF InRegion
  <2>2. ASSUME NEW r \in R, ~r.descriptors PROVE r.block \in B /\ <<r.block, 0>> \in l
    BY <1>3, <2>2 DEF Separate, Contents
  <2> QED
    BY <1>1, <1>3, <1>8, <2>1, <2>2 DEF L!Whole
<1>13. L!HeapExact
  BY <1>4, <1>9, <1>10, <1>11, <1>12 DEF L!HeapExact
<1>14. spare + L!Cardinality(A) + Len(regions) =
         Initial + PerPage * L!Cardinality({r \in L!ToSet(regions) : r.descriptors})
  <2>1. spare + 0 = spare
    BY <1>3
  <2> QED
    BY <1>3, <1>7, <1>8, <2>1, SlabCardinality DEF Count
<1>15. ASSUME NEW y \in A PROVE Len(L!CacheAt(y).free) < PerCache[y[1]]
  BY <1>1, <1>3, <1>5 DEF Busy
<1> QED
  BY <1>4, <1>13, <1>14, <1>15 DEF L!DescriptorsExact

\* Whatever is allocated and freed, in whatever order, and wherever memory runs
\* out, an object is in use once or free once, each block that was obtained
\* serves as one cache or one region, and no descriptor is lost (slab_alloc(),
\* slab_free() and slab_realloc()).
THEOREM HeapIsExact ==
  ASSUME L!SlabAssumption
  PROVE  L!Init /\ [][L!Next]_(L!vars) => [](L!HeapExact /\ L!DescriptorsExact)
<1>1. L!Init => HeapInv
  BY HeapInit
<1>2. HeapInv /\ [L!Next]_(L!vars) => HeapInv'
  <2> SUFFICES ASSUME HeapInv, [L!Next]_(L!vars) PROVE HeapInv'
    OBVIOUS
  <2>1. ASSUME NEW t \in L!Types \cup {L!Whole}, L!Alloc(t) PROVE HeapInv'
    BY <2>1, HeapAllocInv
  <2>2. ASSUME NEW t \in L!Types \cup {L!Whole}, NEW x \in live, L!slab_realloc(x, t)
        PROVE  HeapInv'
    BY <2>2, HeapReallocInv
  <2>3. ASSUME NEW x \in live, L!slab_free(x) PROVE HeapInv'
    BY <2>3, HeapFreeInv
  <2>4. ASSUME UNCHANGED L!vars PROVE HeapInv'
    BY <2>4 DEF L!vars, HeapInv, L!heap, Sound, Busy, Cs, Rs
  <2> QED
    BY <2>1, <2>2, <2>3, <2>4 DEF L!Next
<1>3. HeapInv => L!HeapExact /\ L!DescriptorsExact
  BY HeapMeans
<1> QED
  BY <1>1, <1>2, <1>3, PTL

-----------------------------------------------------------------------------
(***************************************************************************)
(* The contents of a file (module FilePager), for any writers, size of     *)
(* pages, requests and sizes of files on discs.                            *)
(*                                                                         *)
(* FileExact speaks of a file up to its size.  When a writer makes it      *)
(* larger, what is behind the old end becomes part of it: the invariant    *)
(* says of every byte of every page that it is the text's, or zero behind  *)
(* the text; and that no page lies behind the end, so that a truncation    *)
(* releases them all.                                                      *)
(***************************************************************************)
Bytes == FileWriters \cup Nat
FileCalls == [at : {"user", "resize", "rw"}, request : FileRequests \cup {<<0, 0>>},
              write : BOOLEAN]

FileTypes ==
  /\ fp_kind \in {"ram", "disc"}
  /\ fp_size \in 0 .. File!MaxSize
  /\ fp_pages \in [File!PageNos -> [File!Units -> Bytes] \cup {NoPage}]
  /\ fp_text \in Seq(Bytes)
  /\ fp_th \in [FileWriters -> FileCalls]

\* Only files in memory are written; a call under way has its request.
WritersInStep ==
  \A w \in FileWriters :
    /\ fp_th[w].at # "user" => fp_th[w].request \in FileRequests
    /\ fp_th[w].at = "resize" \/ fp_th[w].write => fp_kind = "ram"

\* The number of the byte i of the page k, what the page ps[k] shows of it, and
\* what the text t has there.
ByteNo(k, i) == k * UnitsPerPage + i
Shown(ps, k, i) == IF ps[k] = NoPage THEN 0 ELSE ps[k][i]
TextAt(t, n) == IF n < Len(t) THEN t[n + 1] ELSE 0

TextInPages ==
  fp_kind = "ram" /\ ~fp_shrunk =>
    /\ Len(fp_text) <= fp_size
    /\ \A k \in File!PageNos, i \in File!Units :
         Shown(fp_pages, k, i) = TextAt(fp_text, ByteNo(k, i))
PagesWithin ==
  fp_kind = "ram" =>
    \A k \in File!PageNos : fp_pages[k] # NoPage => ByteNo(k, 0) < fp_size
DiscInPages ==
  fp_kind = "disc" =>
    \A k \in File!PageNos, i \in File!Units :
      fp_pages[k] # NoPage =>
        fp_pages[k][i] = IF ByteNo(k, i) < fp_size THEN ByteNo(k, i) + 1 ELSE 0

FileInv == FileTypes /\ WritersInStep /\ TextInPages /\ PagesWithin /\ DiscInPages

\* A finite set of numbers that is not empty has a greatest one.
LEMMA GreatestNumber ==
  ASSUME NEW A \in SUBSET Nat, IsFiniteSet(A), A # {}
  PROVE  \E m \in A : \A n \in A : n <= m
<1> DEFINE Bad == {T \in SUBSET A : T # {} /\ ~ \E m \in T : \A n \in T : n <= m}
<1> SUFFICES ASSUME Bad # {} PROVE FALSE
  OBVIOUS
<1>1. \A T \in SUBSET A : T \in FiniteSubsetsOf(A)
  BY FS_Subset DEF FiniteSubsetsOf
<1>2. PICK T \in Bad : \A U \in Bad : ~(<<U, T>> \in StrictSubsetOrdering(A))
  <2>1. Bad \subseteq FiniteSubsetsOf(A)
    BY <1>1
  <2> QED
    BY <2>1, WFMin, FS_StrictSubsetOrderingWellFounded, Zenon
<1>3. PICK x \in T : x \in Nat
  OBVIOUS
<1>4. T \ {x} \notin Bad
  BY <1>2 DEF StrictSubsetOrdering
<1> QED
  BY <1>2, <1>3, <1>4

LEMMA DivIs ==
  ASSUME NEW p \in Nat \ {0}, NEW a \in Int
  PROVE  a \div p \in Int /\ a % p \in 0 .. p - 1 /\ a = p * (a \div p) + (a % p)
OBVIOUS

LEMMA DivBounds ==
  ASSUME NEW p \in Nat \ {0}, NEW a \in Int, NEW k \in Int
  PROVE  (k <= a \div p <=> k * p <= a)
<1>1. PICK d \in Int, m \in 0 .. p - 1 : d = a \div p /\ a = p * d + m
  BY DivIs
<1>2. ASSUME k <= d PROVE k * p <= a
  BY <1>1, <1>2
<1>3. ASSUME d + 1 <= k PROVE a < k * p
  BY <1>1, <1>3
<1> QED
  BY <1>1, <1>2, <1>3

\* The library's operator in FilePager is the one the theorems are about.
LEMMA SameFinite == \A A : File!IsFiniteSet(A) <=> IsFiniteSet(A)
BY DEF File!IsFiniteSet, IsFiniteSet

LEMMA FileConstants ==
  ASSUME File!FilePagerAssumption
  PROVE  /\ UnitsPerPage \in Nat \ {0} /\ FileRequests \subseteq Nat \X Nat
         /\ NoPage \notin [File!Units -> Bytes] /\ File!Units = 0 .. UnitsPerPage - 1
         /\ \A r \in FileRequests : r[1] \in Nat /\ r[2] \in Nat /\ File!End(r) = r[1] + r[2]
BY DEF File!FilePagerAssumption, File!Units, File!End, Bytes

\* No request and no file reaches beyond MaxSize, and PageNos are its pages.
LEMMA MaxSizeIs ==
  ASSUME File!FilePagerAssumption
  PROVE  /\ File!MaxSize \in Nat
         /\ \A r \in FileRequests : File!End(r) <= File!MaxSize
         /\ \A n \in DiscSizes : n <= File!MaxSize
<1> DEFINE Ends == {File!End(r) : r \in FileRequests}
           f == [r \in FileRequests |-> File!End(r)]
<1>1. IsFiniteSet(FileRequests) /\ IsFiniteSet(DiscSizes) /\ DiscSizes \subseteq Nat
  BY SameFinite DEF File!FilePagerAssumption
<1>2. IsFiniteSet(Ends)
  <2>1. f \in Surjection(FileRequests, Ends)
    BY DEF Surjection
  <2> QED
    BY <1>1, <2>1, FS_Surjection
<1>3. IsFiniteSet(Ends \cup DiscSizes)
  BY <1>1, <1>2, FS_Union
<1>4. Ends \cup DiscSizes \subseteq Nat /\ Ends \cup DiscSizes # {}
  <2>1. \A r \in FileRequests : File!End(r) \in Nat
    BY FileConstants
  <2>2. FileRequests # {}
    BY DEF File!FilePagerAssumption
  <2> QED
    BY <1>1, <2>1, <2>2
<1>5. \E m \in Ends \cup DiscSizes : \A n \in Ends \cup DiscSizes : m >= n
  <2>1. PICK m \in Ends \cup DiscSizes : \A n \in Ends \cup DiscSizes : n <= m
    BY <1>3, <1>4, GreatestNumber
  <2>2. \A n \in Ends \cup DiscSizes : m >= n
    BY <1>4, <2>1
  <2> QED
    BY <2>2
<1>6. /\ File!MaxSize \in Ends \cup DiscSizes
      /\ \A n \in Ends \cup DiscSizes : File!MaxSize >= n
  BY <1>5 DEF File!MaxSize, File!Max
<1> QED
  BY <1>4, <1>6

LEMMA PagesAre ==
  ASSUME File!FilePagerAssumption
  PROVE  /\ \A k \in File!PageNos : k \in Nat
         /\ \A n \in 0 .. File!MaxSize - 1 :
              /\ n \div UnitsPerPage \in File!PageNos /\ n % UnitsPerPage \in File!Units
              /\ ByteNo(n \div UnitsPerPage, n % UnitsPerPage) = n
<1>1. PICK m \in Nat : m = File!MaxSize
  BY MaxSizeIs
<1>2. PICK p \in Nat \ {0} : p = UnitsPerPage
  BY FileConstants
<1>3. (m - 1) \div p \in Int
  BY <1>1, <1>2, DivIs
<1>4. File!PageNos = 0 .. ((m - 1) \div p)
  BY <1>1, <1>2 DEF File!PageNos
<1>5. ASSUME NEW n \in 0 .. m - 1
      PROVE  n \div p \in File!PageNos /\ n % p \in 0 .. p - 1 /\ (n \div p) * p + (n % p) = n
  <2>1. PICK d \in Int, u \in 0 .. p - 1 : d = n \div p /\ u = n % p /\ n = p * d + u
    BY DivIs
  <2>2. d <= n \div p /\ 0 <= n \div p
    <3>1. 0 * p <= n
      BY <1>2
    <3> QED
      BY <2>1, <3>1, DivBounds
  <2>3. d * p <= n
    BY <2>1, <2>2, DivBounds
  <2>4. d * p <= m - 1
    BY <2>1, <2>3
  <2>5. d <= (m - 1) \div p
    BY <2>1, <2>4, DivBounds
  <2>6. d \in File!PageNos
    BY <1>3, <1>4, <2>1, <2>2, <2>5
  <2>7. d * p + u = n
    BY <2>1
  <2> QED
    BY <2>1, <2>6, <2>7
<1>6. \A k \in File!PageNos : k \in Nat
  BY <1>3, <1>4
<1>7. ASSUME NEW n \in 0 .. File!MaxSize - 1
      PROVE  /\ n \div UnitsPerPage \in File!PageNos /\ n % UnitsPerPage \in File!Units
             /\ ByteNo(n \div UnitsPerPage, n % UnitsPerPage) = n
  <2>1. n \in 0 .. m - 1
    BY <1>1
  <2>2. File!Units = 0 .. p - 1 /\ UnitsPerPage = p
    BY <1>2, FileConstants
  <2>3. ByteNo(n \div p, n % p) = (n \div p) * p + (n % p)
    BY <2>2, Zenon DEF ByteNo
  <2> QED
    BY <1>5, <2>1, <2>2, <2>3, Zenon
<1> QED
  BY <1>6, <1>7, Zenon

LEMMA FileInit == ASSUME File!FilePagerAssumption, File!Init PROVE FileInv
<1>1. fp_kind \in {"ram", "disc"} /\ fp_size \in 0 .. File!MaxSize
  <2>1. fp_size = 0 \/ fp_size \in DiscSizes
    BY DEF File!Init
  <2> QED
    BY <2>1, MaxSizeIs DEF File!Init, File!FilePagerAssumption
<1>2. fp_pages = [k \in File!PageNos |-> NoPage] /\ fp_text = <<>>
  BY DEF File!Init
<1>3. \A w \in FileWriters : fp_th[w] = File!Idle
  BY DEF File!Init
<1>4. FileTypes
  BY <1>1, <1>2 DEF FileTypes, FileCalls, File!Init, File!Idle
<1>5. WritersInStep
  BY <1>3 DEF WritersInStep, File!Idle
<1>6. TextInPages
  <2>1. \A k \in File!PageNos, i \in File!Units : ByteNo(k, i) \in Nat
    BY FileConstants, PagesAre DEF ByteNo
  <2> QED
    BY <1>1, <1>2, <2>1 DEF TextInPages, Shown, TextAt
<1> QED
  BY <1>2, <1>4, <1>5, <1>6 DEF FileInv, PagesWithin, DiscInPages

\* Where a byte lies: on the page of its quotient.
LEMMA ByteIs ==
  ASSUME File!FilePagerAssumption, NEW k \in File!PageNos, NEW i \in File!Units, NEW a \in Nat
  PROVE  /\ ByteNo(k, i) \in Nat /\ ByteNo(k, 0) \in Nat /\ ByteNo(k, 0) <= ByteNo(k, i)
         /\ a <= ByteNo(k, i) => a \div UnitsPerPage <= k
         /\ ByteNo(k, i) <= a => k <= a \div UnitsPerPage
         /\ k <= a \div UnitsPerPage => ByteNo(k, 0) <= a
<1>1. PICK p \in Nat \ {0} : p = UnitsPerPage
  BY FileConstants
<1>2. k \in Nat /\ i \in 0 .. p - 1
  BY <1>1, PagesAre, FileConstants
<1>3. PICK b \in Nat : b = k * p
  BY <1>1, <1>2
<1>4. ByteNo(k, i) = b + i /\ ByteNo(k, 0) = b
  BY <1>1, <1>2, <1>3 DEF ByteNo
<1>5. k <= a \div p <=> b <= a
  BY <1>2, <1>3, DivBounds
<1>6. PICK d \in Int : d = a \div p
  BY DivIs
<1>7. k + 1 <= d <=> b + p <= a
  <2>1. (k + 1) * p = b + p
    BY <1>2, <1>3
  <2> QED
    BY <1>2, <1>6, <2>1, DivBounds
<1> QED
  BY <1>1, <1>2, <1>4, <1>5, <1>6, <1>7

\* What page_in() leaves: a page that was there, or a new one.
LEMMA PagedIn ==
  ASSUME File!FilePagerAssumption, FileInv, NEW ks, NEW failing, NEW k \in File!PageNos
  PROVE  /\ File!PageIn(ks, failing) \in [File!PageNos -> [File!Units -> Bytes] \cup {NoPage}]
         /\ File!PageIn(ks, failing)[k] # fp_pages[k] =>
              k \in ks /\ fp_pages[k] = NoPage /\ File!PageIn(ks, failing)[k] = File!Content(k)
<1>1. ASSUME NEW j \in File!PageNos PROVE File!Content(j) \in [File!Units -> Bytes]
  <2>1. CASE fp_kind = "ram"
    BY <2>1 DEF File!Content, File!Zero, Bytes
  <2>2. CASE fp_kind # "ram"
    <3>1. ASSUME NEW i \in File!Units
          PROVE  (IF i < File!ExpectLen(j) THEN j * UnitsPerPage + i + 1 ELSE File!Padding) \in Bytes
      <4>1. j * UnitsPerPage + i \in Nat
        BY ByteIs DEF ByteNo
      <4> QED
        BY <4>1 DEF File!Padding, Bytes
    <3> QED
      BY <2>2, <3>1 DEF File!Content, File!Loaded
  <2> QED
    BY <2>1, <2>2
<1> QED
  BY <1>1 DEF File!PageIn, FileInv, FileTypes

\* A page of a disc's file that page_in() leaves is as it is on the disc.
LEMMA PageFromDisc ==
  ASSUME File!FilePagerAssumption, FileInv, fp_kind = "disc", NEW ks, NEW failing,
         NEW k \in File!PageNos, NEW i \in File!Units,
         File!PageIn(ks, failing)[k] # NoPage
  PROVE  File!PageIn(ks, failing)[k][i] = IF ByteNo(k, i) < fp_size THEN ByteNo(k, i) + 1 ELSE 0
<1>1. CASE File!PageIn(ks, failing)[k] = fp_pages[k]
  BY <1>1 DEF FileInv, DiscInPages
<1>2. CASE File!PageIn(ks, failing)[k] # fp_pages[k]
  <2>1. File!PageIn(ks, failing)[k] = File!Loaded(k)
    BY <1>2, PagedIn DEF File!Content
  <2>2. File!Loaded(k)[i] = IF i < File!ExpectLen(k) THEN ByteNo(k, i) + 1 ELSE 0
    BY DEF File!Loaded, File!Padding, ByteNo
  <2>3. i < File!ExpectLen(k) <=> ByteNo(k, i) < fp_size
    <3>1. PICK p \in Nat \ {0} : p = UnitsPerPage
      BY FileConstants
    <3>2. k \in Nat /\ i \in 0 .. p - 1 /\ fp_size \in Nat
      BY <3>1, PagesAre, FileConstants, MaxSizeIs DEF FileInv, FileTypes
    <3>3. PICK b \in Nat : b = k * p
      BY <3>1, <3>2
    <3>4. (k + 1) * p = b + p
      BY <3>1, <3>2, <3>3
    <3>5. ByteNo(k, i) = b + i
      BY <3>1, <3>3 DEF ByteNo
    <3>6. File!ExpectLen(k) = IF b + p > fp_size THEN fp_size - b ELSE p
      BY <3>1, <3>3, <3>4 DEF File!ExpectLen
    <3> QED
      BY <3>1, <3>2, <3>3, <3>5, <3>6
  <2> QED
    BY <2>1, <2>2, <2>3
<1> QED
  BY <1>1, <1>2

\* A page fault on a file of a disc enters a page as it is on the disc.
LEMMA FileFaultKeeps ==
  ASSUME File!FilePagerAssumption, FileInv, File!pager_get_frame PROVE FileInv'
<1>1. PICK n \in File!PageNos, failing \in {{}, File!PageNos} :
        fp_kind = "disc" /\ fp_pages' = File!PageIn({n}, failing)
  BY DEF File!pager_get_frame
<1>2. UNCHANGED <<fp_kind, fp_size, fp_text, fp_th, fp_shrunk>>
  BY DEF File!pager_get_frame
<1>3. FileTypes'
  BY <1>1, <1>2, PagedIn DEF FileInv, FileTypes
<1>4. ASSUME NEW k \in File!PageNos, NEW i \in File!Units, fp_pages'[k] # NoPage
      PROVE  fp_pages'[k][i] = IF ByteNo(k, i) < fp_size THEN ByteNo(k, i) + 1 ELSE 0
  BY <1>1, <1>4, PageFromDisc
<1> QED
  BY <1>1, <1>2, <1>3, <1>4
    DEF FileInv, WritersInStep, TextInPages, PagesWithin, DiscInPages

\* pager_resize(): no page is left behind the new end, and none before it goes.
LEMMA Resized ==
  ASSUME File!FilePagerAssumption, FileInv, NEW n \in 0 .. File!MaxSize, File!pager_resize(n),
         fp_kind = "ram"
  PROVE  /\ fp_pages' \in [File!PageNos -> [File!Units -> Bytes] \cup {NoPage}]
         /\ fp_size' = n
         /\ \A k \in File!PageNos :
              /\ fp_pages'[k] \in {fp_pages[k], NoPage}
              /\ fp_pages'[k] # NoPage => ByteNo(k, 0) < n
              /\ fp_size <= n => fp_pages'[k] = fp_pages[k]
<1>1. PICK p \in Nat \ {0} : p = UnitsPerPage
  BY FileConstants
<1>2. PICK m \in Int : m = File!PagesOf(n) /\ \A k \in Int : k <= m <=> k * p <= n + p - 1
  <2>1. PICK a \in Int : a = n + p - 1
    BY <1>1, MaxSizeIs
  <2>2. PICK q \in Int : q = a \div p
    BY DivIs
  <2>3. File!PagesOf(n) = q
    BY <1>1, <2>1, <2>2 DEF File!PagesOf
  <2>4. \A k \in Int : k <= q <=> k * p <= a
    BY <2>2, DivBounds
  <2> QED
    BY <2>1, <2>3, <2>4
<1>3. fp_size \in Nat /\ n \in Nat
  BY MaxSizeIs DEF FileInv, FileTypes
<1>4. ASSUME NEW k \in File!PageNos PROVE k \in Nat /\ (k >= m <=> n <= ByteNo(k, 0))
  <2>1. k \in Nat
    BY PagesAre
  <2>2. PICK b \in Nat : b = k * p
    BY <1>1, <2>1
  <2>3. (k + 1) * p = b + p
    BY <2>1, <2>2
  <2>4. k + 1 <= m <=> b + p <= n + p - 1
    BY <1>2, <2>1, <2>3
  <2>5. ByteNo(k, 0) = b
    BY <1>1, <2>1, <2>2 DEF ByteNo
  <2> QED
    BY <1>2, <1>3, <2>1, <2>2, <2>4, <2>5
<1>5. ASSUME NEW k \in File!PageNos, fp_pages[k] # NoPage PROVE ByteNo(k, 0) < fp_size
  BY <1>5 DEF FileInv, PagesWithin
<1>6. CASE m * p < fp_size
  <2>1. fp_pages' = [k \in File!PageNos |-> IF k >= m THEN NoPage ELSE fp_pages[k]]
    BY <1>1, <1>2, <1>6 DEF File!pager_resize, File!Released
  <2>2. n <= m * p
    <3>1. PICK c \in Int : c = m * p
      BY <1>1, <1>2
    <3>2. (m + 1) * p = c + p
      BY <1>1, <1>2, <3>1
    <3>3. ~(m + 1 <= m)
      BY <1>2
    <3>4. ~(c + p <= n + p - 1)
      BY <1>2, <3>2, <3>3
    <3> QED
      BY <1>1, <1>3, <3>1, <3>4
  <2>3. n < fp_size
    BY <1>1, <1>2, <1>3, <1>6, <2>2
  <2>4. fp_pages' \in [File!PageNos -> [File!Units -> Bytes] \cup {NoPage}]
    BY <2>1 DEF FileInv, FileTypes
  <2>5. ASSUME NEW k \in File!PageNos, fp_pages'[k] # NoPage PROVE ByteNo(k, 0) < n
    <3>1. ~(k >= m)
      BY <2>1, <2>5
    <3>2. ByteNo(k, 0) \in Nat
      BY <1>1, <1>4 DEF ByteNo
    <3> QED
      BY <1>3, <1>4, <3>1, <3>2
  <2>6. ~(fp_size <= n)
    BY <1>3, <2>3
  <2>7. \A k \in File!PageNos : fp_pages'[k] \in {fp_pages[k], NoPage}
    BY <2>1
  <2> QED
    BY <2>4, <2>5, <2>6, <2>7 DEF File!pager_resize
<1>7. CASE ~(m * p < fp_size)
  <2>1. fp_pages' = fp_pages
    BY <1>1, <1>2, <1>7 DEF File!pager_resize
  <2>2. ASSUME NEW k \in File!PageNos, fp_pages'[k] # NoPage PROVE ByteNo(k, 0) < n
    <3>1. PICK b \in Nat, c \in Int : b = ByteNo(k, 0) /\ c = m * p /\ b = k * p
      BY <1>1, <1>2, <1>4 DEF ByteNo
    <3>2. b < c
      BY <1>3, <1>5, <1>7, <2>1, <2>2, <3>1
    <3>3. ~(m <= k)
      <4>1. m <= k => m * p <= k * p
        BY <1>1, <1>2, <1>4
      <4> QED
        BY <3>1, <3>2, <4>1
    <3> QED
      BY <1>2, <1>3, <1>4, <3>1, <3>3
  <2> QED
    BY <2>1, <2>2 DEF File!pager_resize, FileInv, FileTypes
<1> QED
  BY <1>6, <1>7

\* nullfs_f_open() with FM_TRUNC: of a file in memory, no page is left.
LEMMA FileTruncated ==
  ASSUME File!FilePagerAssumption, FileInv, File!truncate PROVE FileInv'
<1>1. fp_kind = "ram" /\ fp_text' = <<>> /\ fp_size' = 0
  BY DEF File!truncate, File!pager_resize
<1>2. UNCHANGED <<fp_kind, fp_th>>
  BY DEF File!truncate
<1>3. 0 \in 0 .. File!MaxSize
  BY MaxSizeIs
<1>4. /\ fp_pages' \in [File!PageNos -> [File!Units -> Bytes] \cup {NoPage}]
      /\ \A k \in File!PageNos : fp_pages'[k] # NoPage => ByteNo(k, 0) < 0
  BY <1>1, <1>3, Resized DEF File!truncate
<1>5. \A k \in File!PageNos, i \in File!Units : ByteNo(k, i) \in Nat /\ ByteNo(k, 0) \in Nat
  BY ByteIs
<1>6. \A k \in File!PageNos : fp_pages'[k] = NoPage
  <2> SUFFICES ASSUME NEW k \in File!PageNos PROVE fp_pages'[k] = NoPage
    OBVIOUS
  <2>1. 0 \in File!Units
    BY FileConstants
  <2>2. ByteNo(k, 0) \in Nat
    BY <1>5, <2>1
  <2> QED
    BY <1>4, <2>2
<1>7. FileTypes'
  BY <1>1, <1>2, <1>3, <1>4 DEF FileInv, FileTypes
<1>8. TextInPages'
  BY <1>1, <1>5, <1>6 DEF TextInPages, Shown, TextAt
<1> QED
  BY <1>1, <1>2, <1>6, <1>7, <1>8 DEF FileInv, WritersInStep, PagesWithin, DiscInPages

\* A call begins: fs_write_to_pager() and fs_read_from_pager().
LEMMA FileCallBegins ==
  ASSUME File!FilePagerAssumption, FileInv, NEW w \in FileWriters,
         File!write(w) \/ File!read(w)
  PROVE  FileInv'
<1>1. PICK r \in FileRequests, at \in {"resize", "rw"}, b \in BOOLEAN :
        /\ fp_th' = [fp_th EXCEPT ![w] = [at |-> at, request |-> r, write |-> b]]
        /\ at = "resize" \/ b => fp_kind = "ram"
  BY DEF File!write, File!read
<1>2. UNCHANGED <<fp_kind, fp_size, fp_pages, fp_text, fp_shrunk>>
  BY DEF File!write, File!read
<1>3. fp_th \in [FileWriters -> FileCalls]
  BY DEF FileInv, FileTypes
<1>4. [at |-> at, request |-> r, write |-> b] \in FileCalls
  BY DEF FileCalls
<1>5. FileTypes'
  BY <1>1, <1>2, <1>3, <1>4 DEF FileInv, FileTypes
<1>6. WritersInStep'
  BY <1>1, <1>2, <1>3 DEF FileInv, WritersInStep
<1> QED
  BY <1>2, <1>5, <1>6 DEF FileInv, TextInPages, PagesWithin, DiscInPages

\* A call ends that changes no more than pages and text.
LEMMA FileCallEnds ==
  ASSUME FileInv, NEW w \in FileWriters, fp_th' = [fp_th EXCEPT ![w] = File!Idle],
         fp_kind' = fp_kind
  PROVE  fp_th' \in [FileWriters -> FileCalls] /\ WritersInStep'
<1>1. File!Idle \in FileCalls /\ File!Idle.at = "user" /\ File!Idle.write = FALSE
  BY DEF File!Idle, FileCalls
<1>2. fp_th \in [FileWriters -> FileCalls]
  BY DEF FileInv, FileTypes
<1>3. \A v \in FileWriters : fp_th'[v] = IF v = w THEN File!Idle ELSE fp_th[v]
  BY <1>2
<1> QED
  BY <1>1, <1>2, <1>3 DEF FileInv, WritersInStep

\* fs_write_to_pager() makes the file larger, or smaller if another did before.
LEMMA FileResizes ==
  ASSUME File!FilePagerAssumption, FileInv, NEW w \in FileWriters, File!Resize(w)
  PROVE  FileInv'
<1>1. PICK r \in FileRequests : r = fp_th[w].request
  BY DEF FileInv, WritersInStep, File!Resize, File!At
<1>2. PICK n \in 0 .. File!MaxSize : n = File!End(r)
  <2>1. File!End(r) \in Nat /\ File!End(r) <= File!MaxSize
    BY FileConstants, MaxSizeIs
  <2> QED
    BY <2>1, MaxSizeIs
<1>3. fp_kind = "ram" /\ File!pager_resize(n) /\ UNCHANGED <<fp_kind, fp_text>>
  BY <1>1, <1>2 DEF FileInv, WritersInStep, File!Resize, File!At
<1>4. fp_shrunk' = (fp_shrunk \/ n < fp_size) /\ fp_th' = [fp_th EXCEPT ![w].at = "rw"]
  BY <1>1, <1>2 DEF File!Resize
<1>5. /\ fp_pages' \in [File!PageNos -> [File!Units -> Bytes] \cup {NoPage}]
      /\ fp_size' = n
      /\ \A k \in File!PageNos :
           /\ fp_pages'[k] # NoPage => ByteNo(k, 0) < n
           /\ fp_size <= n => fp_pages'[k] = fp_pages[k]
  BY <1>3, Resized
<1>6. fp_th \in [FileWriters -> FileCalls]
  BY DEF FileInv, FileTypes
<1>7. fp_th' \in [FileWriters -> FileCalls]
  BY <1>4, <1>6 DEF FileCalls
<1>8. FileTypes'
  BY <1>3, <1>5, <1>7 DEF FileInv, FileTypes
<1>9. WritersInStep'
  BY <1>1, <1>3, <1>4, <1>6 DEF FileInv, WritersInStep, FileCalls
<1>10. TextInPages'
  <2> SUFFICES ASSUME ~ fp_shrunk' PROVE TextInPages'
    BY DEF TextInPages
  <2>1. PICK s \in Nat, m \in Nat : s = fp_size /\ m = n
    BY MaxSizeIs DEF FileInv, FileTypes
  <2>2. ~ fp_shrunk /\ s <= m
    <3>1. ~ (fp_shrunk \/ n < fp_size)
      BY <1>4, Zenon
    <3> QED
      BY <2>1, <3>1
  <2>3. /\ Len(fp_text) <= s
        /\ \A k \in File!PageNos, i \in File!Units :
             Shown(fp_pages, k, i) = TextAt(fp_text, ByteNo(k, i))
    BY <1>3, <2>1, <2>2 DEF FileInv, TextInPages
  <2>4. Len(fp_text) \in Nat
    BY DEF FileInv, FileTypes
  <2>5. Len(fp_text) <= m
    BY <2>1, <2>2, <2>3, <2>4
  <2> QED
    BY <1>3, <1>5, <2>1, <2>2, <2>3, <2>5 DEF TextInPages, Shown
<1> QED
  BY <1>3, <1>5, <1>8, <1>9, <1>10 DEF FileInv, PagesWithin, DiscInPages

\* An offset past the end: nothing but the lock changes.
LEMMA FilePastEnd ==
  ASSUME FileInv, NEW w \in FileWriters, File!RwPast(w) PROVE FileInv'
<1>1. /\ fp_th' = [fp_th EXCEPT ![w] = File!Idle]
      /\ UNCHANGED <<fp_kind, fp_size, fp_pages, fp_text, fp_shrunk>>
  BY DEF File!RwPast
<1>2. fp_th' \in [FileWriters -> FileCalls] /\ WritersInStep'
  BY <1>1, FileCallEnds
<1> QED
  BY <1>1, <1>2 DEF FileInv, FileTypes, TextInPages, PagesWithin, DiscInPages

\* The bytes of a call that begins within the file, on the pages it touches.
LEMMA CallsBytes ==
  ASSUME File!FilePagerAssumption, FileInv, NEW r \in FileRequests, r[1] < fp_size
  PROVE  /\ File!Cut(r) \in Nat /\ File!Cut(r) <= fp_size
         /\ \A k \in File!PageNos, i \in File!Units :
              /\ k \in File!Touched(r) => ByteNo(k, 0) < fp_size
              /\ ByteNo(k, i) \in r[1] .. File!Cut(r) - 1 => k \in File!Touched(r)
<1>1. PICK s \in Nat : s = fp_size
  BY MaxSizeIs DEF FileInv, FileTypes
<1>2. PICK a \in Nat, e \in Nat : a = r[1] /\ e = File!End(r)
  BY FileConstants
<1>3. PICK c \in Nat : c = File!Cut(r) /\ c <= s
  BY <1>1, <1>2 DEF File!Cut
<1>4. PICK p \in Nat \ {0} : p = UnitsPerPage
  BY FileConstants
<1>5. PICK d \in Int, f \in Int : d = a \div p /\ f = (c - 1) \div p
  BY DivIs
<1>6. File!Touched(r) = d .. f
  BY <1>2, <1>3, <1>4, <1>5 DEF File!Touched
<1>7. ASSUME NEW k \in File!PageNos, k \in File!Touched(r) PROVE ByteNo(k, 0) < fp_size
  <2>1. k \in Nat /\ k <= f
    BY <1>6, <1>7, PagesAre
  <2>2. PICK b \in Nat : b = k * p
    BY <1>4, <2>1
  <2>3. b <= c - 1
    BY <1>3, <1>5, <2>1, <2>2, DivBounds
  <2>4. ByteNo(k, 0) = b
    BY <1>4, <2>1, <2>2 DEF ByteNo
  <2> QED
    BY <1>1, <1>3, <2>3, <2>4
<1>8. ASSUME NEW k \in File!PageNos, NEW i \in File!Units, ByteNo(k, i) \in a .. c - 1
      PROVE  k \in File!Touched(r)
  <2>1. PICK n \in Nat : n = ByteNo(k, i)
    BY ByteIs
  <2>2. a <= n /\ n <= c - 1 /\ c - 1 \in Nat
    BY <1>2, <1>3, <1>8, <2>1
  <2>3. a \div UnitsPerPage <= k /\ k <= (c - 1) \div UnitsPerPage
    BY <2>1, <2>2, ByteIs
  <2>4. k \in Nat
    BY PagesAre
  <2> QED
    BY <1>4, <1>5, <1>6, <2>3, <2>4
<1> QED
  BY <1>1, <1>2, <1>3, <1>7, <1>8

\* What page_in() enters of a file in memory shows no more than before.
LEMMA PagedInShows ==
  ASSUME File!FilePagerAssumption, FileInv, fp_kind = "ram", NEW ks, NEW failing,
         NEW k \in File!PageNos, NEW i \in File!Units
  PROVE  Shown(File!PageIn(ks, failing), k, i) = Shown(fp_pages, k, i)
<1>1. CASE File!PageIn(ks, failing)[k] = fp_pages[k]
  BY <1>1 DEF Shown
<1>2. CASE File!PageIn(ks, failing)[k] # fp_pages[k]
  <2>1. fp_pages[k] = NoPage /\ File!PageIn(ks, failing)[k] = File!Zero
    BY <1>2, PagedIn DEF File!Content
  <2> QED
    BY <2>1 DEF Shown, File!Zero
<1> QED
  BY <1>1, <1>2

\* What is shown of a file that a call has written, and its text with that.
LEMMA WrittenShows ==
  ASSUME File!FilePagerAssumption, FileInv, fp_kind = "ram",
         NEW w \in FileWriters, NEW r \in FileRequests, r[1] < fp_size,
         NEW ps \in [File!PageNos -> [File!Units -> Bytes] \cup {NoPage}],
         \A k \in File!Touched(r) : ps[k] # NoPage,
         NEW k \in File!PageNos, NEW i \in File!Units
  PROVE  Shown(File!Written(ps, r, w), k, i)
           = IF ByteNo(k, i) \in r[1] .. File!Cut(r) - 1 THEN w ELSE Shown(ps, k, i)
<1> DEFINE new == [j \in File!Units |->
             IF k * UnitsPerPage + j \in r[1] .. File!Cut(r) - 1 THEN w ELSE ps[k][j]]
<1>1. CASE k \in File!Touched(r)
  <2>1. File!Written(ps, r, w)[k] = new /\ ps[k] # NoPage
    BY <1>1 DEF File!Written
  <2>2. ps[k] \in [File!Units -> Bytes]
    BY <2>1
  <2>3. new \in [File!Units -> Bytes]
    BY <2>2 DEF Bytes
  <2>4. new # NoPage
    BY <2>3, FileConstants
  <2>5. new[i] = IF ByteNo(k, i) \in r[1] .. File!Cut(r) - 1 THEN w ELSE ps[k][i]
    BY DEF ByteNo
  <2> HIDE DEF new
  <2> QED
    BY <2>1, <2>4, <2>5 DEF Shown
<1>2. CASE k \notin File!Touched(r)
  <2>1. File!Written(ps, r, w)[k] = ps[k]
    BY <1>2 DEF File!Written
  <2>2. ByteNo(k, i) \notin r[1] .. File!Cut(r) - 1
    BY <1>2, CallsBytes
  <2> QED
    BY <2>1, <2>2 DEF Shown
<1> QED
  BY <1>1, <1>2

LEMMA WrittenTypes ==
  ASSUME File!FilePagerAssumption, FileInv, NEW w \in FileWriters, NEW r \in FileRequests,
         NEW ps \in [File!PageNos -> [File!Units -> Bytes] \cup {NoPage}],
         \A k \in File!Touched(r) : ps[k] # NoPage
  PROVE  /\ File!Written(ps, r, w) \in [File!PageNos -> [File!Units -> Bytes] \cup {NoPage}]
         /\ \A k \in File!PageNos :
              File!Written(ps, r, w)[k] # NoPage => ps[k] # NoPage
<1>1. ASSUME NEW k \in File!PageNos, k \in File!Touched(r)
      PROVE  [j \in File!Units |->
                IF k * UnitsPerPage + j \in r[1] .. File!Cut(r) - 1 THEN w ELSE ps[k][j]]
               \in [File!Units -> Bytes]
  BY <1>1 DEF Bytes
<1> QED
  BY <1>1 DEF File!Written

LEMMA TextExtended ==
  ASSUME File!FilePagerAssumption, FileInv, NEW w \in FileWriters, NEW r \in FileRequests,
         r[1] < fp_size
  PROVE  /\ File!Extended(r, w) \in Seq(Bytes)
         /\ Len(fp_text) <= fp_size => Len(File!Extended(r, w)) <= fp_size
         /\ \A n \in Nat : TextAt(File!Extended(r, w), n)
              = IF n \in r[1] .. File!Cut(r) - 1 THEN w ELSE TextAt(fp_text, n)
<1>1. PICK s \in Nat : s = fp_size
  BY MaxSizeIs DEF FileInv, FileTypes
<1>2. PICK a \in Nat, c \in Nat : a = r[1] /\ c = File!Cut(r) /\ c <= s
  BY <1>1, FileConstants, CallsBytes
<1>3. PICK l \in Nat : l = Len(fp_text)
  BY DEF FileInv, FileTypes
<1>4. PICK m \in {l, c} : l <= m /\ c <= m
  OBVIOUS
<1>5. m = File!Max({Len(fp_text), File!Cut(r)})
  <2>1. \A x \in {l, c} : (\A y \in {l, c} : x >= y) => x = m
    BY <1>4
  <2>2. \A y \in {l, c} : m >= y
    BY <1>4
  <2> QED
    BY <1>2, <1>3, <2>1, <2>2 DEF File!Max
<1>6. m \in Nat /\ (l <= s => m <= s)
  BY <1>2, <1>3
<1> DEFINE new == [i \in 1 .. m |-> IF i - 1 \in a .. c - 1 THEN w
                                     ELSE IF i <= l THEN fp_text[i] ELSE 0]
<1>7. File!Extended(r, w) = new
  BY <1>2, <1>3, <1>5, Zenon DEF File!Extended
<1>8. \A i \in 1 .. l : fp_text[i] \in Bytes
  BY <1>3 DEF FileInv, FileTypes
<1>9. new \in Seq(Bytes) /\ Len(new) = m
  <2>1. \A i \in 1 .. m : (IF i - 1 \in a .. c - 1 THEN w
                            ELSE IF i <= l THEN fp_text[i] ELSE 0) \in Bytes
    BY <1>6, <1>8 DEF Bytes
  <2>2. new \in [1 .. m -> Bytes]
    BY <2>1
  <2> QED
    BY <1>6, <2>2
<1>10. ASSUME NEW n \in Nat
       PROVE  TextAt(new, n) = IF n \in a .. c - 1 THEN w ELSE TextAt(fp_text, n)
  <2>1. CASE n < m
    <3>1. n + 1 \in 1 .. m /\ (n + 1) - 1 = n
      BY <1>6, <2>1
    <3>2. new[n + 1] = IF n \in a .. c - 1 THEN w ELSE IF n + 1 <= l THEN fp_text[n + 1] ELSE 0
      BY <3>1
    <3>3. n + 1 <= l <=> n < l
      OBVIOUS
    <3> HIDE DEF new
    <3> QED
      BY <1>3, <1>9, <2>1, <3>2, <3>3 DEF TextAt
  <2>2. CASE ~(n < m)
    <3>1. ~(n < l) /\ n \notin a .. c - 1
      BY <1>4, <1>6, <2>2
    <3> HIDE DEF new
    <3> QED
      BY <1>3, <1>9, <2>2, <3>1 DEF TextAt
  <2> QED
    BY <2>1, <2>2
<1> HIDE DEF new
<1> QED
  BY <1>1, <1>2, <1>3, <1>6, <1>7, <1>9, <1>10

\* pager_do_rw(): a call reads, writes the whole of its request within the file,
\* or has only entered pages.
LEMMA FileReadsWrites ==
  ASSUME File!FilePagerAssumption, FileInv, NEW w \in FileWriters, File!pager_do_rw(w)
  PROVE  FileInv'
<1>1. PICK r \in FileRequests : r = fp_th[w].request
  BY DEF FileInv, WritersInStep, File!pager_do_rw, File!At
<1>2. PICK failing, ps :
        /\ ps = File!PageIn(File!Touched(r), failing)
        /\ \/ /\ \A k \in File!Touched(r) : ps[k] # NoPage
              /\ fp_th[w].write
              /\ fp_pages' = File!Written(ps, r, w) /\ fp_text' = File!Extended(r, w)
           \/ fp_pages' = ps /\ fp_text' = fp_text
  BY <1>1, Zenon DEF File!pager_do_rw
<1>3. /\ r[1] < fp_size /\ fp_th' = [fp_th EXCEPT ![w] = File!Idle]
      /\ UNCHANGED <<fp_kind, fp_size, fp_shrunk>>
  BY <1>1 DEF File!pager_do_rw
<1>4. fp_th' \in [FileWriters -> FileCalls] /\ WritersInStep'
  BY <1>3, FileCallEnds
<1>5. ps \in [File!PageNos -> [File!Units -> Bytes] \cup {NoPage}]
  <2>1. CASE File!PageNos # {}
    BY <1>2, <2>1, PagedIn
  <2>2. CASE File!PageNos = {}
    BY <1>2, <2>2 DEF File!PageIn
  <2> QED
    BY <2>1, <2>2
<1>6. \A k \in File!PageNos : ps[k] # NoPage => fp_pages[k] # NoPage \/ k \in File!Touched(r)
  BY <1>2, PagedIn
<1>7. fp_kind = "ram" => \A k \in File!PageNos : ps[k] # NoPage => ByteNo(k, 0) < fp_size
  <2>1. 0 \in File!Units
    BY FileConstants
  <2> QED
    BY <1>3, <1>6, <2>1, CallsBytes DEF FileInv, PagesWithin
<1>8. CASE fp_pages' = ps /\ fp_text' = fp_text
  <2>1. FileTypes'
    BY <1>3, <1>4, <1>5, <1>8 DEF FileInv, FileTypes
  <2>2. TextInPages'
    BY <1>2, <1>3, <1>8, PagedInShows DEF FileInv, TextInPages, Shown
  <2>3. PagesWithin'
    BY <1>3, <1>7, <1>8 DEF PagesWithin
  <2>4. DiscInPages'
    BY <1>2, <1>3, <1>8, PageFromDisc DEF DiscInPages, ByteNo
  <2> QED
    BY <1>4, <2>1, <2>2, <2>3, <2>4 DEF FileInv
<1>9. CASE /\ \A k \in File!Touched(r) : ps[k] # NoPage
           /\ fp_th[w].write
           /\ fp_pages' = File!Written(ps, r, w) /\ fp_text' = File!Extended(r, w)
  <2>1. fp_kind = "ram"
    BY <1>9 DEF FileInv, WritersInStep
  <2>2. /\ fp_pages' \in [File!PageNos -> [File!Units -> Bytes] \cup {NoPage}]
        /\ \A k \in File!PageNos : fp_pages'[k] # NoPage => ps[k] # NoPage
    BY <1>5, <1>9, WrittenTypes
  <2>3. PagesWithin'
    BY <1>3, <1>7, <2>1, <2>2 DEF PagesWithin, ByteNo
  <2>4. DiscInPages'
    BY <1>3, <2>1 DEF DiscInPages
  <2>5. fp_text' \in Seq(Bytes)
    BY <1>3, <1>9, TextExtended
  <2>6. TextInPages'
    <3> SUFFICES ASSUME ~ fp_shrunk PROVE TextInPages'
      BY <1>3 DEF TextInPages
    <3>1. Len(fp_text) <= fp_size
      BY <2>1 DEF FileInv, TextInPages
    <3>2. Len(fp_text') <= fp_size
      BY <1>3, <1>9, <3>1, TextExtended
    <3>3. ASSUME NEW k \in File!PageNos, NEW i \in File!Units
          PROVE  Shown(fp_pages', k, i) = TextAt(fp_text', ByteNo(k, i))
      <4>1. Shown(ps, k, i) = TextAt(fp_text, ByteNo(k, i))
        BY <1>2, <2>1, PagedInShows DEF FileInv, TextInPages
      <4>2. Shown(fp_pages', k, i)
              = IF ByteNo(k, i) \in r[1] .. File!Cut(r) - 1 THEN w ELSE Shown(ps, k, i)
        BY <1>3, <1>5, <1>9, <2>1, WrittenShows
      <4>3. ByteNo(k, i) \in Nat
        BY ByteIs
      <4>4. TextAt(fp_text', ByteNo(k, i))
              = IF ByteNo(k, i) \in r[1] .. File!Cut(r) - 1 THEN w
                ELSE TextAt(fp_text, ByteNo(k, i))
        BY <1>3, <1>9, <4>3, TextExtended
      <4> QED
        BY <4>1, <4>2, <4>4
    <3> QED
      BY <1>3, <2>1, <3>2, <3>3 DEF TextInPages, Shown, TextAt, ByteNo
  <2>7. FileTypes'
    BY <1>3, <1>4, <2>2, <2>5 DEF FileInv, FileTypes
  <2> QED
    BY <1>4, <2>3, <2>4, <2>6, <2>7 DEF FileInv
<1> QED
  BY <1>2, <1>8, <1>9

\* What the invariant says of the bytes within the size is what FileExact says.
LEMMA FileMeans ==
  ASSUME File!FilePagerAssumption, FileInv PROVE File!FileExact
<1>1. fp_size \in Nat /\ fp_size <= File!MaxSize
  BY MaxSizeIs DEF FileInv, FileTypes
<1>2. ASSUME fp_kind = "ram", ~ fp_shrunk, NEW n \in 0 .. fp_size - 1
      PROVE  File!Unit(n) = IF n < Len(fp_text) THEN fp_text[n + 1] ELSE 0
  <2>1. n \in 0 .. File!MaxSize - 1
    BY <1>1, <1>2, MaxSizeIs
  <2>2. PICK k \in File!PageNos, i \in File!Units :
          k = n \div UnitsPerPage /\ i = n % UnitsPerPage /\ ByteNo(k, i) = n
    BY <2>1, PagesAre
  <2>3. Shown(fp_pages, k, i) = TextAt(fp_text, n)
    BY <1>2, <2>2 DEF FileInv, TextInPages
  <2>4. File!Unit(n) = Shown(fp_pages, k, i)
    BY <2>2 DEF File!Unit, Shown
  <2> QED
    BY <2>3, <2>4 DEF TextAt
<1>3. fp_kind = "ram" /\ ~ fp_shrunk => Len(fp_text) <= fp_size
  BY DEF FileInv, TextInPages
<1>4. fp_kind = "disc" => \A k \in File!PageNos, i \in File!Units :
        fp_pages[k] # NoPage =>
          fp_pages[k][i] = IF k * UnitsPerPage + i < fp_size THEN k * UnitsPerPage + i + 1 ELSE 0
  BY DEF FileInv, DiscInPages, ByteNo
<1> QED
  BY <1>2, <1>3, <1>4 DEF File!FileExact

\* A file in memory holds what writes have put there and zeros, whatever calls,
\* truncations, failures and page faults come in whatever order, and a page of a
\* file on a disc its bytes and zeros (pager.c).
THEOREM FilesHoldText ==
  ASSUME File!FilePagerAssumption
  PROVE  File!Init /\ [][File!Next]_(File!vars) => []File!FileExact
<1>1. File!Init => FileInv
  BY FileInit
<1>2. FileInv /\ [File!Next]_(File!vars) => FileInv'
  <2> SUFFICES ASSUME FileInv, [File!Next]_(File!vars) PROVE FileInv'
    OBVIOUS
  <2>1. CASE UNCHANGED File!vars
    BY <2>1 DEF File!vars, FileInv, FileTypes, WritersInStep, TextInPages, PagesWithin,
                DiscInPages, Shown, TextAt
  <2>2. CASE File!truncate
    BY <2>2, FileTruncated
  <2>3. CASE File!pager_get_frame
    BY <2>3, FileFaultKeeps
  <2>4. ASSUME NEW w \in FileWriters,
               \/ File!write(w) \/ File!Resize(w) \/ File!read(w)
               \/ File!RwPast(w) \/ File!pager_do_rw(w)
        PROVE  FileInv'
    BY <2>4, FileCallBegins, FileResizes, FilePastEnd, FileReadsWrites
  <2> QED
    BY <2>1, <2>2, <2>3, <2>4 DEF File!Next
<1>3. FileInv => File!FileExact
  BY FileMeans
<1> QED
  BY <1>1, <1>2, <1>3, PTL

-----------------------------------------------------------------------------
\* The parts of module Objects stay apart.
LEMMA ObjectsApart ==
  ASSUME NEW d, [ObjectsNext]_<<which, object_vars>>
  PROVE  (which = d => which' = d) /\ (which # d => which' # d)
BY DEF ObjectsNext

(***************************************************************************)
(* The references and the files of module Objects, when a behaviour        *)
(* exercises them: each handle has as many references as there are         *)
(* descriptors, tokens and calls that hold it (vfs.c, process.c, ipc.c),   *)
(* and a file holds what was written to it (pager.c), for any handles,     *)
(* tokens, descriptors, writers, pages and requests.                       *)
(***************************************************************************)
THEOREM ReferencesAreExact == ObjectsSpec => []HandlesExact
<1>1. ObjectsSpec => [](which = "handles" => H!HandlesExact)
  <2>1. ObjectsInit /\ which = "handles" => H!Init
    BY DEF ObjectsInit
  <2>2. which = "handles" /\ [ObjectsNext]_<<which, object_vars>> => [H!Next]_(H!vars)
    BY DEF ObjectsNext, object_vars, handle_vars, H!vars
  <2>3. which = "handles" /\ [ObjectsNext]_<<which, object_vars>> => (which = "handles")'
    BY ObjectsApart
  <2>4. ~ (which = "handles") /\ [ObjectsNext]_<<which, object_vars>> => ~ (which = "handles")'
    BY ObjectsApart
  <2>5. H!Init /\ [][H!Next]_(H!vars) => []H!HandlesExact
    BY HandlesAreExact, ObjectsAssumption DEF H!Spec
  <2> QED
    BY <2>1, <2>2, <2>3, <2>4, <2>5, PTL DEF ObjectsSpec
<1>2. ObjectsSpec => [](which = "pager" => File!FileExact)
  <2>1. ObjectsInit /\ which = "pager" => File!Init
    BY DEF ObjectsInit
  <2>2. which = "pager" /\ [ObjectsNext]_<<which, object_vars>> => [File!Next]_(File!vars)
    BY DEF ObjectsNext, object_vars, file_vars, File!vars
  <2>3. which = "pager" /\ [ObjectsNext]_<<which, object_vars>> => (which = "pager")'
    BY ObjectsApart
  <2>4. ~ (which = "pager") /\ [ObjectsNext]_<<which, object_vars>> => ~ (which = "pager")'
    BY ObjectsApart
  <2>5. File!Init /\ [][File!Next]_(File!vars) => []File!FileExact
    BY FilesHoldText, ObjectsAssumption
  <2> QED
    BY <2>1, <2>2, <2>3, <2>4, <2>5, PTL DEF ObjectsSpec
<1> QED
  BY <1>1, <1>2, PTL DEF HandlesExact

(***************************************************************************)
(* The heap of module Objects, when a behaviour exercises it: nothing is   *)
(* handed out twice, no block and no descriptor is lost (slab_alloc.c),    *)
(* for any sizes, blocks and descriptors in a page.                        *)
(***************************************************************************)
THEOREM KernelHeapIsExact == ObjectsSpec => []HeapExact
<1>1. which = "slab" /\ [ObjectsNext]_<<which, object_vars>> => (which = "slab")'
  BY ObjectsApart
<1>2. ~ (which = "slab") /\ [ObjectsNext]_<<which, object_vars>> => ~ (which = "slab")'
  BY ObjectsApart
<1>3. ObjectsInit /\ which = "slab" => L!Init
  BY DEF ObjectsInit
<1>4. which = "slab" /\ [ObjectsNext]_<<which, object_vars>> => [L!Next]_(L!vars)
  BY DEF ObjectsNext, object_vars, heap_vars, L!vars
<1>5. L!Init /\ [][L!Next]_(L!vars) => [](L!HeapExact /\ L!DescriptorsExact)
  BY HeapIsExact, ObjectsAssumption
<1> QED
  BY <1>1, <1>2, <1>3, <1>4, <1>5, PTL DEF ObjectsSpec, HeapExact
=============================================================================
