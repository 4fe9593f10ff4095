--------------------------- MODULE UserMemoryProofs ---------------------------
(***************************************************************************)
(* Proofs about module UserMemory, for any processes, frames, slots and    *)
(* any size of the shared object.  The second part is about the page       *)
(* directories below it, PageDirs, the third about the allocator of the    *)
(* kernel's address space, RegionAlloc.                                    *)
(*                                                                         *)
(* Every property of the run rests on one inductive invariant.  That a     *)
(* mapping is never stale needs that regions are disjoint (so that the     *)
(* search finds the one a page lies in), that a fault under way keeps the  *)
(* region it found and the frame it was given, and that a pager is deleted *)
(* only when the counts say that no region reaches it.  That a copy never  *)
(* leaves with the object's lock needs that the test of the buffer made    *)
(* before the lock is still true while it is held.                         *)
(***************************************************************************)
EXTENDS UserMemory, KernelSpace, FiniteSetTheorems, SequenceTheorems, WellFoundedInduction, TLAPS

\* The page x lies in the region r.
InRegion(x, r) == r.addr <= x /\ x < r.addr + r.size

\* The frame that the pager of region r has for the page x.
FrameAt(r, x) == pages[r.pager][x - r.addr + r.offset]

\* Regions lie in the slots of their process, each in a slot of its own;
\* the one that munmap_inner() is busy with has left the index.
RegionsPlaced ==
  \A p \in Procs :
    /\ \A r \in RegionsOf(p) :
         /\ <<r.addr, r.size>> \in Slots[p]
         /\ r.pager # ShmPager => r.pager = <<p, r.addr>> /\ r.offset = 0
    /\ \A r, s \in RegionsOf(p) : r.addr = s.addr => r = s
    /\ th[p].region \notin regions[p]

\* What a thread in the kernel has tested is still true.
ThreadInStep(p) ==
  /\ th[p].region # NoRegion <=> th[p].at = "rm_map"
  /\ th[p].exiting => th[p].at \in {"user", "rm_map"}
  /\ th[p].at \in {"lock", "copy"} => th[p].rw
  /\ th[p].rw =>
       /\ th[p].at \in {"lock", "copy", "fault", "map"}
       /\ p \in fds
       /\ \E r \in regions[p] : InRegion(th[p].page, r) /\ (~th[p].write => r.write)
  /\ th[p].at = "fault" => \E r \in regions[p] : InRegion(th[p].page, r)
  /\ th[p].at = "map" =>
       /\ th[p].frame # NoFrame
       /\ \E r \in regions[p] :
            InRegion(th[p].page, r) /\ FrameAt(r, th[p].page) = th[p].frame
  /\ th[p].at # "panic"
ThreadsInStep == \A p \in Procs : ThreadInStep(p)

\* An entry that is present belongs to a region, and agrees with it.
EntryAgrees(p, x) ==
  entry[p][x] # Absent =>
    /\ entry[p][x].frame # NoFrame
    /\ \E r \in regions[p] :
         /\ InRegion(x, r)
         /\ FrameAt(r, x) = entry[p][x].frame
         /\ entry[p][x].rw = r.write
EntriesAgree == \A p \in Procs, x \in Pages : EntryAgrees(p, x)

\* The lock is held during a copy, and otherwise only by the early return.
LockHeld ==
  /\ \A p \in Procs : th[p].rw /\ ~At(p, "lock") => lock = p /\ ~kept
  /\ lock # NoProc /\ ~kept => th[lock].rw /\ ~At(lock, "lock")
  /\ kept => lock # NoProc

\* Every frame is in one place, and no frame is in two.
FramesOnce ==
  /\ free \cap lost = {}
  /\ \A p \in Procs : table[p] # NoFrame =>
       /\ table[p] \notin free \cup lost
       /\ \A q \in Procs : table[q] = table[p] => q = p
       /\ \A g \in Pagers, o \in PageOffsets : pages[g][o] # table[p]
  /\ \A g \in Pagers, o \in PageOffsets : pages[g][o] # NoFrame =>
       /\ pages[g][o] \notin free \cup lost
       /\ \A h \in Pagers, n \in PageOffsets : pages[h][n] = pages[g][o] => h = g /\ n = o
  /\ \A f \in Frames :
       \/ f \in free \cup lost
       \/ \E p \in Procs : table[p] = f
       \/ \E g \in Pagers, o \in PageOffsets : pages[g][o] = f

\* A pager's maps are the regions that use it, and the references to the
\* object are the descriptors and the regions.
MapsCounted ==
  /\ \A g \in Pagers, p \in Procs, a \in Pages :
       <<p, a>> \in maps[g] <=> \E r \in RegionsOf(p) : r.addr = a /\ r.pager = g
  /\ IsFiniteSet(fds) /\ IsFiniteSet(maps[ShmPager])
  /\ refs = Cardinality(fds) + Cardinality(maps[ShmPager])

IInv ==
  /\ TypeOK
  /\ RegionsPlaced
  /\ ThreadsInStep
  /\ EntriesAgree
  /\ LockHeld
  /\ FramesOnce
  /\ MapsCounted

-----------------------------------------------------------------------------
(***************************************************************************)
(* Slots, regions and the search for a region.                             *)
(***************************************************************************)

\* What a slot covers are pages, and a pager has room for what it can map.
LEMMA SlotFacts ==
  ASSUME NEW p \in Procs, NEW s \in Slots[p]
  PROVE  /\ s \in AllSlots /\ s = <<s[1], s[2]>>
         /\ s[1] \in Nat /\ s[2] \in Nat /\ s[2] > 0
         /\ \A x \in s[1] .. (s[1] + s[2] - 1) : x \in Pages
         /\ s[1] \in Pages
         /\ \A o \in Offsets \cup {0}, i \in 0 .. (s[2] - 1) : i + o \in PageOffsets
<1>1. s \in Nat \X (Nat \ {0})
  BY SlotsDisjoint
<1>2. s \in AllSlots
  BY DEF AllSlots
<1>3. ASSUME NEW x \in s[1] .. (s[1] + s[2] - 1)
      PROVE  x \in Pages
  BY <1>2, <1>3 DEF Pages
<1>4. ASSUME NEW o \in Offsets \cup {0}, NEW i \in 0 .. (s[2] - 1)
      PROVE  i + o \in PageOffsets
  <2>1. o \in Nat
    BY MemoryAssumption
  <2>2. i + o \in o .. (o + s[2] - 1)
    BY <1>1, <2>1
  <2>3. i + o \in UNION {n .. (n + s[2] - 1) : n \in Offsets \cup {0}}
    BY <2>2
  <2> QED
    BY <1>2, <2>3 DEF PageOffsets
<1>5. s[1] \in s[1] .. (s[1] + s[2] - 1)
  BY <1>1
<1> QED
  BY <1>1, <1>2, <1>3, <1>4, <1>5

\* Pages are natural numbers.
LEMMA PagesAreNat == Pages \subseteq Nat
<1>1. ASSUME NEW p \in Procs, NEW s \in Slots[p], NEW x \in s[1] .. (s[1] + s[2] - 1)
      PROVE  x \in Nat
  BY SlotFacts
<1> QED
  BY <1>1 DEF Pages, AllSlots

\* Two slots of a process that share a page are the same.
LEMMA SlotsApart ==
  ASSUME NEW p \in Procs, NEW s \in Slots[p], NEW t \in Slots[p], NEW x \in Nat,
         s[1] <= x, x < s[1] + s[2], t[1] <= x, x < t[1] + t[2]
  PROVE  s = t
<1>1. /\ s[1] \in Nat /\ s[2] \in Nat
      /\ t[1] \in Nat /\ t[2] \in Nat
  BY SlotFacts
<1>2. s # t => s[1] + s[2] <= t[1] \/ t[1] + t[2] <= s[1]
  BY SlotsDisjoint
<1> QED
  BY <1>1, <1>2

\* A region's fields, and the pages and offsets it spans.
LEMMA RegionFacts ==
  ASSUME TypeOK, RegionsPlaced, NEW p \in Procs, NEW r \in RegionsOf(p)
  PROVE  /\ r \in Regions /\ r # NoRegion
         /\ r.addr \in Nat /\ r.size \in Nat /\ r.size > 0 /\ r.addr \in Pages
         /\ r.offset \in Nat /\ r.pager \in Pagers /\ r.write \in BOOLEAN
         /\ InRegion(r.addr, r)
         /\ \A x \in Nat : InRegion(x, r) =>
              x \in Pages /\ x - r.addr + r.offset \in PageOffsets
<1>1. r \in Regions
  BY DEF TypeOK, Threads, RegionsOf
<1>2. r.pager \in Pagers /\ r.write \in BOOLEAN /\ r.offset \in Offsets \cup {0}
  BY <1>1 DEF Regions
<1>3. <<r.addr, r.size>> \in Slots[p]
  BY DEF RegionsPlaced
<1>4. /\ r.addr \in Nat /\ r.size \in Nat /\ r.size > 0
      /\ \A x \in r.addr .. (r.addr + r.size - 1) : x \in Pages
      /\ r.addr \in Pages
      /\ \A o \in Offsets \cup {0}, i \in 0 .. (r.size - 1) : i + o \in PageOffsets
  BY <1>3, SlotFacts
<1>5. r.offset \in Nat
  <2>1. Offsets \cup {0} \subseteq Nat
    BY MemoryAssumption
  <2> QED
    BY <1>2, <2>1
<1>6. ASSUME NEW x \in Nat, InRegion(x, r)
      PROVE  x \in Pages /\ x - r.addr + r.offset \in PageOffsets
  <2>1. /\ x \in r.addr .. (r.addr + r.size - 1)
        /\ x - r.addr \in 0 .. (r.size - 1)
    BY <1>4, <1>6 DEF InRegion
  <2> QED
    BY <1>2, <1>4, <2>1
<1> QED
  BY <1>1, <1>2, <1>4, <1>5, <1>6, NoRegionAssumption DEF InRegion

\* Regions of a process that share a page are the same.
LEMMA RegionsApart ==
  ASSUME TypeOK, RegionsPlaced, NEW p \in Procs, NEW x \in Nat,
         NEW r \in RegionsOf(p), NEW s \in RegionsOf(p), InRegion(x, r), InRegion(x, s)
  PROVE  r = s
<1>1. <<r.addr, r.size>> \in Slots[p] /\ <<s.addr, s.size>> \in Slots[p]
  BY DEF RegionsPlaced
<1>2. <<r.addr, r.size>> = <<s.addr, s.size>>
  BY <1>1, SlotsApart DEF InRegion
<1> QED
  BY <1>2 DEF RegionsPlaced

\* find_user_region() finds the region that a page lies in ...
LEMMA RegionIsFound ==
  ASSUME TypeOK, RegionsPlaced, NEW p \in Procs, NEW x \in Nat,
         NEW r \in regions[p], InRegion(x, r)
  PROVE  find_user_region(p, x) = r
<1> DEFINE below == {b \in regions[p] : b.addr <= x}
           highest(b) == \A c \in below : c.addr <= b.addr
<1>1. regions[p] \subseteq RegionsOf(p)
  BY DEF RegionsOf
<1>2. r \in below
  BY DEF InRegion
<1>3. ASSUME NEW c \in below
      PROVE  c.addr <= r.addr
  <2>1. /\ c.addr \in Nat /\ r.addr \in Nat /\ InRegion(c.addr, c)
    BY <1>1, RegionFacts
  <2>2. SUFFICES ASSUME r.addr < c.addr PROVE FALSE
    BY <2>1
  <2>3. InRegion(c.addr, r)
    <3>1. r.size \in Nat /\ c.addr <= x /\ x < r.addr + r.size
      BY <1>1, RegionFacts DEF InRegion
    <3> QED
      BY <2>1, <2>2, <3>1 DEF InRegion
  <2>4. c = r
    BY <1>1, <2>1, <2>3, RegionsApart
  <2> QED
    BY <2>1, <2>2, <2>4
<1>4. ASSUME NEW b \in below, highest(b)
      PROVE  b = r
  <2>1. b.addr <= r.addr /\ r.addr <= b.addr /\ b.addr \in Nat /\ r.addr \in Nat
    BY <1>1, <1>2, <1>3, <1>4, RegionFacts
  <2> QED
    BY <1>1, <2>1 DEF RegionsPlaced
<1>5. (CHOOSE b \in below : highest(b)) = r
  BY <1>2, <1>3, <1>4
<1>6. ~ (x >= r.addr + r.size)
  BY <1>1, RegionFacts DEF InRegion
<1> QED
  BY <1>2, <1>5, <1>6 DEF find_user_region

\* ... and nothing else.
LEMMA FoundIsRegion ==
  ASSUME TypeOK, RegionsPlaced, NEW p \in Procs, NEW x \in Nat,
         find_user_region(p, x) # NoRegion
  PROVE  /\ find_user_region(p, x) \in regions[p]
         /\ InRegion(x, find_user_region(p, x))
<1> DEFINE below == {b \in regions[p] : b.addr <= x}
           highest(b) == \A c \in below : c.addr <= b.addr
           r == CHOOSE b \in below : highest(b)
           depths == {x - b.addr : b \in below}
           Less == OpToRel(<, Nat)
<1>0. find_user_region(p, x) = IF below = {} \/ x >= r.addr + r.size THEN NoRegion ELSE r
  BY DEF find_user_region
<1>1. below # {} /\ ~ (x >= r.addr + r.size) /\ find_user_region(p, x) = r
  BY <1>0
<1>2. \A b \in below : b.addr \in Nat /\ b.size \in Nat /\ b.addr <= x
  BY RegionFacts DEF RegionsOf
<1>3. depths \subseteq Nat /\ depths # {}
  BY <1>1, <1>2
<1>4. \A i, j \in Nat : j < i => <<j, i>> \in Less
  BY DEF OpToRel
<1>5. IsWellFoundedOn(Less, Nat)
  BY NatLessThanWellFounded
<1>6. PICK d \in depths : \A e \in depths : ~ (<<e, d>> \in Less)
  <2> HIDE DEF depths, Less
  <2> QED
    BY <1>3, <1>5, WFMin
<1>7. PICK b \in below : d = x - b.addr
  BY <1>6
<1>8. ASSUME NEW c \in below
      PROVE  c.addr <= b.addr
  <2>1. x - c.addr \in depths /\ x - c.addr \in Nat
    BY <1>2
  <2>2. ~ (x - c.addr < d)
    <3> HIDE DEF Less
    <3> QED
      BY <1>3, <1>4, <1>6, <2>1
  <2> QED
    BY <1>2, <1>7, <2>2
<1>9. r \in below
  BY <1>7, <1>8
<1>10. r \in regions[p] /\ r.addr <= x /\ r.addr \in Nat /\ r.size \in Nat
  BY <1>2, <1>9
<1>11. x < r.addr + r.size
  <2> HIDE DEF r
  <2> QED
    BY <1>1, <1>10
<1> QED
  BY <1>1, <1>10, <1>11 DEF InRegion

\* The size of a private pager is that of its slot.
LEMMA SizeFacts ==
  ASSUME NEW p \in Procs, NEW s \in Slots[p]
  PROVE  /\ <<p, s[1]>> \in Pagers /\ <<p, s[1]>> # ShmPager
         /\ SizeOf(<<p, s[1]>>) = s[2]
<1>1. <<p, s[1]>> \in Pagers
  BY DEF Pagers
<1>2. <<p, s[1]>> # ShmPager
  BY MemoryAssumption DEF ShmPager
<1>3. ASSUME NEW t \in Slots[p], t[1] = s[1]
      PROVE  t = s
  <2>1. /\ s[1] \in Nat /\ s[2] \in Nat /\ s[2] > 0
        /\ t[1] \in Nat /\ t[2] \in Nat /\ t[2] > 0
    BY SlotFacts
  <2> QED
    BY <1>3, <2>1, SlotsApart
<1>4. (CHOOSE t \in Slots[p] : t[1] = s[1]) = s
  BY <1>3
<1> QED
  BY <1>1, <1>2, <1>4 DEF SizeOf

\* The pages delete_pager() releases are pages of a pager.
LEMMA SizeFits ==
  ASSUME NEW g \in Pagers
  PROVE  0 .. (SizeOf(g) - 1) \subseteq PageOffsets
<1>1. CASE g = ShmPager
  BY <1>1 DEF SizeOf, PageOffsets
<1>2. CASE g # ShmPager
  <2>1. PICK p \in Procs : \E s \in Slots[p] : g = <<p, s[1]>>
    BY <1>2 DEF Pagers
  <2>0. PICK s \in Slots[p] : g = <<p, s[1]>>
    BY <2>1
  <2>2. SizeOf(g) = s[2]
    BY <2>0, SizeFacts
  <2>3. \A i \in 0 .. (s[2] - 1) : i + 0 \in PageOffsets
    BY SlotFacts
  <2>4. s[2] \in Nat
    BY SlotFacts
  <2> QED
    BY <2>2, <2>3, <2>4
<1> QED
  BY <1>1, <1>2

-----------------------------------------------------------------------------
(***************************************************************************)
(* What the invariant says of the properties.                              *)
(***************************************************************************)

\* A frame that is in one place, and in no two, has one owner.
LEMMA OnceIsOneOwner ==
  ASSUME TypeOK, FramesOnce
  PROVE  OneOwner
<1> SUFFICES ASSUME NEW f \in Frames PROVE Cardinality(Owners(f)) = 1
  BY DEF OneOwner
<1> DEFINE Tables == {q \in Procs : table[q] = f}
           Places == {y \in Pagers \X PageOffsets : pages[y[1]][y[2]] = f}
<1>0. f # NoFrame
  BY MemoryAssumption
<1>1. \A a, b : <<a, b>> \in Places <=> a \in Pagers /\ b \in PageOffsets /\ pages[a][b] = f
  OBVIOUS
<1>2. Owners(f) = {<<"free", x>> : x \in free \cap {f}} \cup {<<"lost", x>> : x \in lost \cap {f}}
                  \cup {<<"table", p>> : p \in Tables} \cup {<<"page", x>> : x \in Places}
  BY DEF Owners
<1> HIDE DEF Places
<1>3. \E x : Owners(f) = {x}
  <2>1. CASE f \in free
    <3>1. f \notin lost /\ Tables = {} /\ Places = {}
      <4>1. ASSUME NEW y \in Places PROVE FALSE
        <5>1. PICK a \in Pagers, b \in PageOffsets : y = <<a, b>> /\ pages[a][b] = f
          BY <1>1, <4>1 DEF Places
        <5> QED
          BY <1>0, <2>1, <5>1 DEF FramesOnce
      <4> QED
        BY <1>0, <2>1, <4>1 DEF FramesOnce
    <3> HIDE DEF Tables
    <3>2. Owners(f) = {<<"free", f>>}
      BY <1>2, <2>1, <3>1
    <3> QED
      BY <3>2
  <2>2. CASE f \in lost
    <3>1. f \notin free /\ Tables = {} /\ Places = {}
      <4>1. ASSUME NEW y \in Places PROVE FALSE
        <5>1. PICK a \in Pagers, b \in PageOffsets : y = <<a, b>> /\ pages[a][b] = f
          BY <1>1, <4>1 DEF Places
        <5> QED
          BY <1>0, <2>2, <5>1 DEF FramesOnce
      <4> QED
        BY <1>0, <2>2, <4>1 DEF FramesOnce
    <3> HIDE DEF Tables
    <3>2. Owners(f) = {<<"lost", f>>}
      BY <1>2, <2>2, <3>1
    <3> QED
      BY <3>2
  <2>3. ASSUME NEW p \in Procs, table[p] = f
        PROVE  \E x : Owners(f) = {x}
    <3>1. f \notin free /\ f \notin lost
      BY <1>0, <2>3 DEF FramesOnce
    <3>2. Tables = {p}
      BY <1>0, <2>3 DEF FramesOnce
    <3>3. Places = {}
      <4>1. ASSUME NEW y \in Places PROVE FALSE
        <5>1. PICK a \in Pagers, b \in PageOffsets : y = <<a, b>> /\ pages[a][b] = f
          BY <1>1, <4>1 DEF Places
        <5> QED
          BY <1>0, <2>3, <5>1 DEF FramesOnce
      <4> QED
        BY <4>1
    <3> HIDE DEF Tables
    <3>4. Owners(f) = {<<"table", p>>}
      BY <1>2, <3>1, <3>2, <3>3
    <3> QED
      BY <3>4
  <2>4. ASSUME NEW g \in Pagers, NEW o \in PageOffsets, pages[g][o] = f
        PROVE  \E x : Owners(f) = {x}
    <3>1. f \notin free /\ f \notin lost
      BY <1>0, <2>4 DEF FramesOnce
    <3>2. Tables = {}
      BY <1>0, <2>4 DEF FramesOnce
    <3>3. Places = {<<g, o>>}
      <4>1. ASSUME NEW y \in Places PROVE y = <<g, o>>
        <5>1. PICK a \in Pagers, b \in PageOffsets : y = <<a, b>> /\ pages[a][b] = f
          BY <1>1, <4>1 DEF Places
        <5> QED
          BY <1>0, <2>4, <5>1 DEF FramesOnce
      <4> QED
        BY <1>1, <2>4, <4>1
    <3> HIDE DEF Tables
    <3>4. Owners(f) = {<<"page", <<g, o>>>>}
      BY <1>2, <3>1, <3>2, <3>3
    <3> QED
      BY <3>4
  <2> QED
    BY <2>1, <2>2, <2>3, <2>4 DEF FramesOnce
<1> QED
  BY <1>3, FS_Singleton

\* Counted maps are exact ones.
LEMMA CountedIsExact ==
  ASSUME TypeOK, RegionsPlaced, MapsCounted
  PROVE  MapsExact
<1>1. ASSUME NEW g \in Pagers
      PROVE  maps[g] =
               UNION {{<<p, r.addr>> : r \in {s \in RegionsOf(p) : s.pager = g}} : p \in Procs}
  <2> DEFINE Of(p) == {<<p, r.addr>> : r \in {s \in RegionsOf(p) : s.pager = g}}
  <2>1. maps[g] \subseteq Procs \X Pages
    BY DEF TypeOK
  <2>2. ASSUME NEW m \in maps[g]
        PROVE  \E p \in Procs : m \in Of(p)
    <3>1. PICK p \in Procs, a \in Pages : m = <<p, a>>
      BY <2>1
    <3>2. PICK r \in RegionsOf(p) : r.addr = a /\ r.pager = g
      BY <3>1 DEF MapsCounted
    <3> QED
      BY <3>1, <3>2
  <2>3. ASSUME NEW p \in Procs, NEW m \in Of(p)
        PROVE  m \in maps[g]
    <3>1. PICK r \in RegionsOf(p) : r.pager = g /\ m = <<p, r.addr>>
      OBVIOUS
    <3>2. r.addr \in Pages
      BY RegionFacts
    <3> QED
      BY <3>1, <3>2 DEF MapsCounted
  <2> HIDE DEF Of
  <2>4. maps[g] = UNION {Of(p) : p \in Procs}
    BY <2>2, <2>3
  <2> QED
    BY <2>4 DEF Of
<1> QED
  BY <1>1 DEF MapsExact, MapsCounted

\* The invariant implies the four properties that the run checks.
LEMMA InvariantIsEnough ==
  ASSUME IInv
  PROVE  FramesExact /\ NoStaleMapping /\ NoUnexpectedFault /\ LockIsReturned
<1> USE DEF IInv
<1>1. FramesExact
  BY OnceIsOneOwner, CountedIsExact DEF FramesExact
<1>2. NoStaleMapping
  <2> SUFFICES ASSUME NEW p \in Procs, NEW x \in Pages, entry[p][x] # Absent
               PROVE  LET r == find_user_region(p, x) IN
                      /\ r # NoRegion
                      /\ pages[r.pager][x - r.addr + r.offset] = entry[p][x].frame
    BY DEF NoStaleMapping
  <2>1. PICK r \in regions[p] : InRegion(x, r) /\ FrameAt(r, x) = entry[p][x].frame
    BY DEF EntriesAgree, EntryAgrees
  <2>2. find_user_region(p, x) = r
    BY <2>1, PagesAreNat, RegionIsFound
  <2>3. r # NoRegion
    BY RegionFacts DEF RegionsOf
  <2> QED
    BY <2>1, <2>2, <2>3 DEF FrameAt
<1>3. NoUnexpectedFault
  BY DEF NoUnexpectedFault, ThreadsInStep, ThreadInStep
<1>4. LockIsReturned
  <2> SUFFICES ASSUME lock # NoProc, ~kept
               PROVE  /\ th[lock].rw /\ th[lock].at \in {"copy", "fault", "map"}
                      /\ refs > 0
    BY DEF LockIsReturned
  <2>1. lock \in Procs /\ th[lock].rw /\ th[lock].at # "lock"
    BY DEF TypeOK, LockHeld, At
  <2>2. th[lock].at \in {"lock", "copy", "fault", "map"} /\ lock \in fds
    BY <2>1 DEF ThreadsInStep, ThreadInStep
  <2>3. Cardinality(fds) \in Nat /\ Cardinality(maps[ShmPager]) \in Nat /\ Cardinality(fds) # 0
    BY <2>2, FS_CardinalityType, FS_EmptySet DEF MapsCounted
  <2>4. refs > 0
    BY <2>3 DEF MapsCounted
  <2> QED
    BY <2>1, <2>2, <2>4
<1> QED
  BY <1>1, <1>2, <1>3, <1>4

-----------------------------------------------------------------------------
(***************************************************************************)
(* The initial state.                                                      *)
(***************************************************************************)

LEMMA InitHolds == Init => IInv
<1> SUFFICES ASSUME Init PROVE IInv
  OBVIOUS
<1> USE DEF Init
<1>1. Idle \in Threads
  BY DEF Idle, Threads
<1>2. ShmPager \in Pagers
  BY DEF Pagers
<1>3. TypeOK
  BY <1>1 DEF TypeOK, Absent
<1>4. RegionsPlaced /\ ThreadsInStep /\ EntriesAgree /\ LockHeld
  <2>1. \A p \in Procs : RegionsOf(p) = {}
    BY DEF RegionsOf, Idle
  <2>2. RegionsPlaced
    BY <2>1 DEF RegionsPlaced
  <2>3. ThreadsInStep
    BY DEF ThreadsInStep, ThreadInStep, Idle
  <2>4. EntriesAgree /\ LockHeld
    BY DEF EntriesAgree, EntryAgrees, LockHeld, Idle, At
  <2> QED
    BY <2>2, <2>3, <2>4
<1>5. FramesOnce
  BY DEF FramesOnce
<1>6. MapsCounted
  <2>1. \A p \in Procs : RegionsOf(p) = {}
    BY DEF RegionsOf, Idle
  <2> QED
    BY <1>2, <2>1, FS_EmptySet DEF MapsCounted
<1> QED
  BY <1>3, <1>4, <1>5, <1>6 DEF IInv

-----------------------------------------------------------------------------
(***************************************************************************)
(* What the parts of a step keep.                                          *)
(***************************************************************************)

\* The fields of a thread.
LEMMA ThreadFacts ==
  ASSUME TypeOK, NEW p \in Procs
  PROVE  /\ th[p] \in Threads /\ Idle \in Threads
         /\ th[p].page \in Nat /\ th[p].offset \in Nat
         /\ th[p].rw \in BOOLEAN /\ th[p].write \in BOOLEAN /\ th[p].exiting \in BOOLEAN
         /\ th[p].frame \in Frames \cup {NoFrame}
         /\ th[p].region \in Regions \cup {NoRegion}
<1>1. th[p] \in Threads
  BY DEF TypeOK
<1>2. Pages \cup {0} \subseteq Nat /\ Offsets \cup {0} \subseteq Nat
  BY PagesAreNat, MemoryAssumption
<1>3. th[p].page \in Pages \cup {0} /\ th[p].offset \in Offsets \cup {0}
  BY <1>1 DEF Threads
<1>4. Idle \in Threads
  BY DEF Idle, Threads
<1> QED
  BY <1>1, <1>2, <1>3, <1>4 DEF Threads

\* A process that a step leaves alone, and whose pagers keep the frames they
\* have, is in step after it, and so are the entries it leaves alone.
LEMMA Undisturbed ==
  ASSUME TypeOK, RegionsPlaced, ThreadsInStep, EntriesAgree, NEW q \in Procs,
         regions'[q] = regions[q],
         \A r \in regions[q], o \in PageOffsets :
           pages[r.pager][o] # NoFrame => pages'[r.pager][o] = pages[r.pager][o]
  PROVE  /\ th'[q] = th[q] /\ (q \in fds => q \in fds') => ThreadInStep(q)'
         /\ \A x \in Pages : entry'[q][x] = entry[q][x] => EntryAgrees(q, x)'
<1>1. ASSUME NEW r \in regions[q], NEW x \in Nat, InRegion(x, r), FrameAt(r, x) # NoFrame
      PROVE  pages'[r.pager][x - r.addr + r.offset] = FrameAt(r, x)
  <2>1. r \in RegionsOf(q)
    BY DEF RegionsOf
  <2>2. x - r.addr + r.offset \in PageOffsets
    BY <1>1, <2>1, RegionFacts
  <2> QED
    BY <1>1, <2>2 DEF FrameAt
<1>2. ASSUME th'[q] = th[q], q \in fds => q \in fds'
      PROVE  ThreadInStep(q)'
  <2>1. ThreadInStep(q) /\ th[q].page \in Nat
    BY ThreadFacts DEF ThreadsInStep
  <2>2. ASSUME th[q].at = "map"
        PROVE  \E r \in regions[q] :
                 /\ InRegion(th[q].page, r)
                 /\ pages'[r.pager][th[q].page - r.addr + r.offset] = th[q].frame
    BY <1>1, <2>1, <2>2 DEF ThreadInStep
  <2> QED
    BY <1>2, <2>1, <2>2 DEF ThreadInStep, FrameAt, InRegion
<1>3. ASSUME NEW x \in Pages, entry'[q][x] = entry[q][x]
      PROVE  EntryAgrees(q, x)'
  <2>1. EntryAgrees(q, x) /\ x \in Nat
    BY PagesAreNat DEF EntriesAgree
  <2>2. ASSUME entry[q][x] # Absent
        PROVE  \E r \in regions[q] :
                 /\ InRegion(x, r)
                 /\ pages'[r.pager][x - r.addr + r.offset] = entry[q][x].frame
                 /\ entry[q][x].rw = r.write
    BY <1>1, <2>1, <2>2 DEF EntryAgrees
  <2> QED
    BY <1>3, <2>1, <2>2 DEF EntryAgrees, FrameAt, InRegion, Absent
<1> QED
  BY <1>2, <1>3

\* A step of one thread that leaves its regions alone leaves the regions
\* in place, and the maps in step with them.
LEMMA RegionsKept ==
  ASSUME RegionsPlaced, MapsCounted, NEW p \in Procs, regions' = regions,
         th'[p].region = th[p].region, \A q \in Procs : q # p => th'[q] = th[q]
  PROVE  /\ RegionsPlaced'
         /\ UNCHANGED <<maps, refs, fds>> => MapsCounted'
<1>1. \A q \in Procs : RegionsOf(q)' = RegionsOf(q) /\ th'[q].region = th[q].region
  BY DEF RegionsOf
<1> QED
  BY <1>1 DEF RegionsPlaced, MapsCounted

\* A frame taken for a page is in that one place.
LEMMA SwapPageIn ==
  ASSUME TypeOK, FramesOnce, NEW g \in Pagers, NEW o \in PageOffsets,
         swap_page_in(g, o), UNCHANGED <<table, lost>>
  PROVE  /\ FramesOnce'
         /\ pages' \in [Pagers -> [PageOffsets -> Frames \cup {NoFrame}]]
         /\ free' \subseteq Frames
         /\ pages'[g][o] # NoFrame
         /\ \A h \in Pagers, n \in PageOffsets :
              pages[h][n] # NoFrame => pages'[h][n] = pages[h][n]
<1>0. /\ pages \in [Pagers -> [PageOffsets -> Frames \cup {NoFrame}]]
      /\ free \subseteq Frames /\ lost \subseteq Frames
      /\ table \in [Procs -> Frames \cup {NoFrame}] /\ NoFrame \notin Frames
  BY MemoryAssumption DEF TypeOK
<1>1. CASE pages[g][o] # NoFrame /\ UNCHANGED <<pages, free>>
  BY <1>0, <1>1 DEF FramesOnce
<1>2. ASSUME pages[g][o] = NoFrame, NEW f \in free, pages' = [pages EXCEPT ![g][o] = f],
             free' = free \ {f}
      PROVE  /\ FramesOnce'
             /\ pages' \in [Pagers -> [PageOffsets -> Frames \cup {NoFrame}]]
             /\ free' \subseteq Frames
             /\ pages'[g][o] # NoFrame
             /\ \A h \in Pagers, n \in PageOffsets :
                  pages[h][n] # NoFrame => pages'[h][n] = pages[h][n]
  <2>1. /\ pages' \in [Pagers -> [PageOffsets -> Frames \cup {NoFrame}]]
        /\ pages'[g][o] = f
        /\ \A h \in Pagers, n \in PageOffsets :
             h # g \/ n # o => pages'[h][n] = pages[h][n]
    BY <1>0, <1>2
  <2>2. f \in Frames /\ f # NoFrame /\ f \notin lost
    BY <1>0 DEF FramesOnce
  <2>3. \A h \in Pagers, n \in PageOffsets : pages[h][n] # f
    BY <2>2 DEF FramesOnce
  <2>4. \A q \in Procs : table[q] # f
    BY <2>2 DEF FramesOnce
  <2>5. /\ free' \cap lost' = {}
        /\ \A q \in Procs : table'[q] # NoFrame =>
             /\ table'[q] \notin free' \cup lost'
             /\ \A u \in Procs : table'[u] = table'[q] => u = q
             /\ \A h \in Pagers, n \in PageOffsets : pages'[h][n] # table'[q]
    BY <1>2, <2>1, <2>4 DEF FramesOnce
  <2>6. \A h \in Pagers, n \in PageOffsets : pages'[h][n] # NoFrame =>
          /\ pages'[h][n] \notin free' \cup lost'
          /\ \A k \in Pagers, m \in PageOffsets : pages'[k][m] = pages'[h][n] => k = h /\ m = n
    BY <1>2, <2>1, <2>2, <2>3 DEF FramesOnce
  <2>7. \A e \in Frames :
          \/ e \in free' \cup lost'
          \/ \E q \in Procs : table'[q] = e
          \/ \E h \in Pagers, n \in PageOffsets : pages'[h][n] = e
    <3> SUFFICES ASSUME NEW e \in Frames, e \notin free' \cup lost',
                        \A q \in Procs : table'[q] # e
                 PROVE  \E h \in Pagers, n \in PageOffsets : pages'[h][n] = e
      OBVIOUS
    <3>1. CASE e = f
      BY <2>1, <3>1
    <3>2. CASE e # f
      <4>1. PICK h \in Pagers, n \in PageOffsets : pages[h][n] = e
        BY <1>2, <3>2 DEF FramesOnce
      <4>2. h # g \/ n # o
        BY <1>0, <1>2, <4>1
      <4> QED
        BY <2>1, <4>1, <4>2
    <3> QED
      BY <3>1, <3>2
  <2>8. FramesOnce'
    BY <2>5, <2>6, <2>7 DEF FramesOnce
  <2> QED
    BY <1>0, <1>2, <2>1, <2>2, <2>8
<1> QED
  BY <1>1, <1>2 DEF swap_page_in

\* What pages are there stay, and every frame is in one place.
PagesGrow ==
  /\ FramesOnce'
  /\ pages' \in [Pagers -> [PageOffsets -> Frames \cup {NoFrame}]]
  /\ free' \subseteq Frames /\ lost' \subseteq Frames
  /\ \A h \in Pagers, n \in PageOffsets :
       pages[h][n] # NoFrame => pages'[h][n] = pages[h][n]

LEMMA NothingTaken ==
  ASSUME TypeOK, FramesOnce, UNCHANGED <<pages, table, free, lost>>
  PROVE  PagesGrow
BY DEF PagesGrow, TypeOK, FramesOnce

LEMMA FrameTaken ==
  ASSUME TypeOK, FramesOnce, NEW g \in Pagers, NEW o \in PageOffsets,
         swap_page_in(g, o), UNCHANGED <<table, lost>>
  PROVE  PagesGrow /\ pages'[g][o] # NoFrame
BY SwapPageIn DEF PagesGrow, TypeOK

\* The frame that is never returned was the last free one.
LEMMA FrameLost ==
  ASSUME TypeOK, FramesOnce, NEW g \in Pagers, NEW o \in PageOffsets,
         FrameLeaks(g, o), UNCHANGED table
  PROVE  PagesGrow
<1>1. PICK f \in free : free = {f} /\ lost' = lost \cup {f} /\ free' = {} /\ pages' = pages
  BY DEF FrameLeaks
<1>2. f \in Frames /\ free' \cup lost' = free \cup lost /\ free' \cap lost' = {}
  BY <1>1 DEF TypeOK
<1> HIDE DEF FrameLeaks
<1>3. FramesOnce'
  BY <1>1, <1>2 DEF FramesOnce
<1> QED
  BY <1>1, <1>2, <1>3 DEF PagesGrow, TypeOK

\* The frames of a deleted pager are free, or lost, and nowhere else.
LEMMA DeletePager ==
  ASSUME TypeOK, FramesOnce, NEW g \in Pagers, delete_pager(g), UNCHANGED table
  PROVE  /\ FramesOnce'
         /\ pages' \in [Pagers -> [PageOffsets -> Frames \cup {NoFrame}]]
         /\ free' \subseteq Frames /\ lost' \subseteq Frames
         /\ \A h \in Pagers : h # g => pages'[h] = pages[h]
<1> DEFINE all == FramesOf(g, PageOffsets)
           low == Released(g)
<1>0. /\ pages \in [Pagers -> [PageOffsets -> Frames \cup {NoFrame}]]
      /\ free \subseteq Frames /\ lost \subseteq Frames
      /\ table \in [Procs -> Frames \cup {NoFrame}] /\ NoFrame \notin Frames
  BY MemoryAssumption DEF TypeOK
<1>1. low \subseteq all
  BY SizeFits DEF Released, FramesOf
<1>2. \A f : f \in all <=> f # NoFrame /\ \E o \in PageOffsets : pages[g][o] = f
  BY DEF FramesOf
<1>3. all \subseteq Frames
  BY <1>0, <1>2
<1>4. free' = free \cup low /\ lost' = lost \cup (all \ low)
  BY DEF delete_pager, Released
<1>5. /\ pages' \in [Pagers -> [PageOffsets -> Frames \cup {NoFrame}]]
      /\ \A o \in PageOffsets : pages'[g][o] = NoFrame
      /\ \A h \in Pagers : h # g => pages'[h] = pages[h]
  BY <1>0 DEF delete_pager
<1> HIDE DEF all, low
<1>6. \A f \in all : f \notin free /\ f \notin lost
  BY <1>2 DEF FramesOnce
<1>7. \A h \in Pagers, n \in PageOffsets : h # g => pages[h][n] \notin all
  BY <1>2 DEF FramesOnce
<1>8. \A q \in Procs : table[q] \notin all
  BY <1>2 DEF FramesOnce
<1>9. /\ free' \cap lost' = {}
      /\ \A q \in Procs : table'[q] # NoFrame =>
           /\ table'[q] \notin free' \cup lost'
           /\ \A u \in Procs : table'[u] = table'[q] => u = q
           /\ \A h \in Pagers, n \in PageOffsets : pages'[h][n] # table'[q]
  BY <1>1, <1>4, <1>5, <1>6, <1>8 DEF FramesOnce
<1>10. \A h \in Pagers, n \in PageOffsets : pages'[h][n] # NoFrame =>
         /\ pages'[h][n] \notin free' \cup lost'
         /\ \A k \in Pagers, m \in PageOffsets : pages'[k][m] = pages'[h][n] => k = h /\ m = n
  <2> SUFFICES ASSUME NEW h \in Pagers, NEW n \in PageOffsets, pages'[h][n] # NoFrame
               PROVE  /\ pages'[h][n] \notin free' \cup lost'
                      /\ \A k \in Pagers, m \in PageOffsets :
                           pages'[k][m] = pages'[h][n] => k = h /\ m = n
    OBVIOUS
  <2>1. h # g /\ pages'[h][n] = pages[h][n]
    BY <1>5
  <2>2. pages[h][n] \notin free' \cup lost'
    BY <1>1, <1>4, <1>7, <2>1 DEF FramesOnce
  <2> QED
    BY <1>5, <2>1, <2>2 DEF FramesOnce
<1>11. \A e \in Frames :
         \/ e \in free' \cup lost'
         \/ \E q \in Procs : table'[q] = e
         \/ \E h \in Pagers, n \in PageOffsets : pages'[h][n] = e
  <2> SUFFICES ASSUME NEW e \in Frames, e \notin free' \cup lost',
                      \A q \in Procs : table'[q] # e
               PROVE  \E h \in Pagers, n \in PageOffsets : pages'[h][n] = e
    OBVIOUS
  <2>1. e \notin free \cup lost /\ e \notin all
    BY <1>4
  <2>2. PICK h \in Pagers, n \in PageOffsets : pages[h][n] = e
    BY <2>1 DEF FramesOnce
  <2>3. h # g
    BY <1>0, <1>2, <2>1, <2>2
  <2> QED
    BY <1>5, <2>2, <2>3
<1>12. FramesOnce'
  BY <1>9, <1>10, <1>11 DEF FramesOnce
<1> QED
  BY <1>0, <1>1, <1>3, <1>4, <1>5, <1>12

-----------------------------------------------------------------------------
(***************************************************************************)
(* Faults, and the copy of pager_do_rw().                                  *)
(***************************************************************************)

\* A step that moves one thread and nothing else but the lock and the frames.
LEMMA GrowStep ==
  ASSUME IInv, NEW p \in Procs, NEW t \in Threads, th' = [th EXCEPT ![p] = t],
         t.region = th[p].region, PagesGrow,
         UNCHANGED <<regions, entry, table, maps, refs, fds>>,
         lock' \in Procs \cup {NoProc}, kept' \in BOOLEAN,
         ThreadInStep(p)', LockHeld'
  PROVE  IInv'
<1> USE DEF IInv
<1>1. th' \in [Procs -> Threads] /\ th'[p] = t /\ \A q \in Procs : q # p => th'[q] = th[q]
  BY DEF TypeOK
<1>2. TypeOK'
  BY <1>1 DEF TypeOK, PagesGrow
<1>3. RegionsPlaced' /\ MapsCounted'
  BY <1>1, RegionsKept
<1>4. \A q \in Procs : \A r \in regions[q], o \in PageOffsets :
        pages[r.pager][o] # NoFrame => pages'[r.pager][o] = pages[r.pager][o]
  <2>1. \A q \in Procs : \A r \in regions[q] : r.pager \in Pagers
    BY RegionFacts DEF RegionsOf
  <2> QED
    BY <2>1 DEF PagesGrow
<1>5. \A q \in Procs, x \in Pages : EntryAgrees(q, x)'
  BY <1>4, Undisturbed
<1>6. \A q \in Procs : q # p => ThreadInStep(q)'
  BY <1>1, <1>4, Undisturbed
<1>7. ThreadsInStep' /\ EntriesAgree'
  BY <1>5, <1>6 DEF ThreadsInStep, EntriesAgree
<1>8. FramesOnce'
  BY DEF PagesGrow
<1> QED
  BY <1>2, <1>3, <1>7, <1>8

\* A step that moves one thread and nothing else but the lock.
LEMMA ThreadStep ==
  ASSUME IInv, NEW p \in Procs, NEW t \in Threads, th' = [th EXCEPT ![p] = t],
         t.region = th[p].region,
         UNCHANGED <<regions, entry, table, pages, maps, refs, fds, free, lost>>,
         lock' \in Procs \cup {NoProc}, kept' \in BOOLEAN,
         ThreadInStep(p)', LockHeld'
  PROVE  IInv'
<1>1. PagesGrow
  BY NothingTaken DEF IInv
<1> QED
  BY <1>1, GrowStep

\* A fault of proc_usermem_pf() is refused, or goes on with the region of
\* the page: it never finds the page present.
LEMMA FaultFacts ==
  ASSUME IInv, NEW p \in Procs, NEW page \in Pages, NEW w \in BOOLEAN, Fault(p, page, w)
  PROVE  \/ /\ Refused(find_user_region(p, page), w)
            /\ th' = [th EXCEPT ![p] = [Idle EXCEPT !.exiting = TRUE]]
         \/ \E r \in regions[p] :
              /\ InRegion(page, r)
              /\ th' = [th EXCEPT ![p] = [th[p] EXCEPT !.page = page, !.at = "fault"]]
<1> USE DEF IInv
<1> DEFINE r == find_user_region(p, page)
<1>0. page \in Nat
  BY PagesAreNat
<1>1. CASE Refused(r, w)
  BY <1>1 DEF Fault
<1>2. CASE ~ Refused(r, w)
  <2>1. r # NoRegion /\ (w => r.write)
    BY <1>2 DEF Refused
  <2>2. r \in regions[p] /\ InRegion(page, r)
    BY <1>0, <2>1, FoundIsRegion
  <2>3. entry[p][page] = Absent
    <3> SUFFICES ASSUME entry[p][page] # Absent PROVE FALSE
      OBVIOUS
    <3>1. PICK s \in regions[p] : InRegion(page, s) /\ entry[p][page].rw = s.write
      BY DEF EntriesAgree, EntryAgrees
    <3>2. s = r
      BY <1>0, <3>1, RegionIsFound
    <3> HIDE DEF r
    <3> QED
      BY <2>1, <3>1, <3>2 DEF Fault, Allowed
  <2>4. th' = [th EXCEPT ![p] = [th[p] EXCEPT !.page = page, !.at = "fault"]]
    BY <1>2, <2>3 DEF Fault
  <2> QED
    BY <2>2, <2>4
<1> QED
  BY <1>1, <1>2

\* Threads in user mode are not in a copy.
LEMMA UserFacts ==
  ASSUME IInv, NEW p \in Procs, th[p].at = "user"
  PROVE  ~ th[p].rw /\ th[p].region = NoRegion
BY ThreadFacts DEF IInv, ThreadsInStep, ThreadInStep

LEMMA TouchStep ==
  ASSUME IInv, NEW p \in Procs, Touch(p)
  PROVE  IInv'
<1> USE DEF IInv
<1>1. PICK page \in Pages, w \in BOOLEAN : Fault(p, page, w)
  BY DEF Touch
<1>2. th[p].at = "user" /\ ~ th[p].exiting /\ ~ th[p].rw /\ th[p].region = NoRegion
  BY UserFacts DEF Touch, InUser, At
<1>3. UNCHANGED <<regions, entry, table, pages, maps, lock, kept, refs, fds, free, lost>>
  BY <1>1 DEF Fault
<1>4. th[p] \in Threads /\ Idle \in Threads
  BY ThreadFacts
<1>5. ASSUME NEW t \in Threads, th' = [th EXCEPT ![p] = t], t.region = NoRegion, ~ t.rw,
             ThreadInStep(p)'
      PROVE  IInv'
  <2>1. \A q \in Procs : th'[q].rw /\ ~ At(q, "lock")' <=> th[q].rw /\ ~ At(q, "lock")
    BY <1>2, <1>5 DEF TypeOK, At
  <2>2. LockHeld'
    BY <1>3, <2>1 DEF LockHeld, TypeOK
  <2> QED
    BY <1>2, <1>3, <1>5, <2>2, ThreadStep DEF TypeOK
<1>6. CASE th' = [th EXCEPT ![p] = [Idle EXCEPT !.exiting = TRUE]]
  <2> DEFINE t == [Idle EXCEPT !.exiting = TRUE]
  <2>1. t \in Threads /\ t.region = NoRegion /\ ~ t.rw /\ t.at = "user" /\ t.exiting
    BY <1>4 DEF Idle, Threads
  <2>2. th'[p] = t
    BY <1>6 DEF TypeOK
  <2> HIDE DEF t
  <2>3. ThreadInStep(p)'
    BY <2>1, <2>2 DEF ThreadInStep
  <2> QED
    BY <1>5, <1>6, <2>1, <2>3 DEF t
<1>7. ASSUME NEW r \in regions[p], InRegion(page, r),
             th' = [th EXCEPT ![p] = [th[p] EXCEPT !.page = page, !.at = "fault"]]
      PROVE  IInv'
  <2> DEFINE t == [th[p] EXCEPT !.page = page, !.at = "fault"]
  <2>1. /\ t \in Threads /\ t.region = NoRegion /\ ~ t.rw /\ t.at = "fault" /\ ~ t.exiting
        /\ t.page = page
    BY <1>2, <1>4 DEF Threads
  <2>2. th'[p] = t
    BY <1>7 DEF TypeOK
  <2> HIDE DEF t
  <2>3. ThreadInStep(p)'
    BY <1>3, <1>7, <2>1, <2>2 DEF ThreadInStep, InRegion
  <2> QED
    BY <1>5, <1>7, <2>1, <2>3 DEF t
<1> QED
  BY <1>1, <1>6, <1>7, FaultFacts

LEMMA CopyFaultsStep ==
  ASSUME IInv, NEW p \in Procs, CopyFaults(p)
  PROVE  IInv'
<1> USE DEF IInv
<1> DEFINE page == th[p].page
           w == ~ th[p].write
           t == [th[p] EXCEPT !.page = page, !.at = "fault"]
<1>1. th[p].at = "copy" /\ Fault(p, page, w)
  BY DEF CopyFaults, At
<1>2. th[p].rw /\ ~ th[p].exiting /\ p \in fds /\ th[p].region = NoRegion
  BY <1>1, ThreadFacts DEF ThreadsInStep, ThreadInStep
<1>3. PICK r \in regions[p] : InRegion(page, r) /\ (w => r.write)
  BY <1>1, <1>2 DEF ThreadsInStep, ThreadInStep
<1>4. page \in Nat /\ page \in Pages /\ w \in BOOLEAN
  BY <1>3, ThreadFacts, RegionFacts DEF RegionsOf
<1>5. ~ Refused(find_user_region(p, page), w)
  <2>1. find_user_region(p, page) = r /\ r # NoRegion
    BY <1>3, <1>4, RegionIsFound, RegionFacts DEF RegionsOf
  <2> QED
    BY <1>3, <2>1 DEF Refused
<1>6. th' = [th EXCEPT ![p] = t]
  BY <1>1, <1>4, <1>5, FaultFacts
<1>7. UNCHANGED <<regions, entry, table, pages, maps, lock, kept, refs, fds, free, lost>>
  BY <1>1 DEF Fault
<1>8. /\ t \in Threads /\ t.region = th[p].region /\ t.rw /\ t.at = "fault" /\ ~ t.exiting
      /\ t.page = page /\ t.write = th[p].write
  BY <1>2, <1>4, ThreadFacts DEF Threads
<1>9. th'[p] = t /\ \A q \in Procs : q # p => th'[q] = th[q]
  BY <1>6 DEF TypeOK
<1> HIDE DEF t
<1>10. ThreadInStep(p)'
  BY <1>2, <1>3, <1>7, <1>8, <1>9 DEF ThreadInStep, InRegion
<1>11. LockHeld'
  BY <1>1, <1>2, <1>7, <1>8, <1>9 DEF LockHeld, TypeOK, At
<1> QED
  BY <1>6, <1>7, <1>8, <1>10, <1>11, ThreadStep DEF TypeOK

LEMMA DoRwStep ==
  ASSUME IInv, NEW p \in Procs, do_rw(p)
  PROVE  IInv'
<1> USE DEF IInv
<1>1. PICK o \in Offsets, buf \in Pages, w \in BOOLEAN :
        th' = [th EXCEPT ![p] =
          IF Refused(find_user_region(p, buf), ~w)
          THEN [Idle EXCEPT !.exiting = TRUE]
          ELSE [Idle EXCEPT !.at = "lock", !.rw = TRUE, !.offset = o,
                            !.page = buf, !.write = w]]
  BY DEF do_rw
<1>2. /\ th[p].at = "user" /\ ~ th[p].exiting /\ ~ th[p].rw /\ th[p].region = NoRegion
      /\ p \in fds
  BY UserFacts DEF do_rw, InUser, At
<1>3. UNCHANGED <<regions, entry, table, pages, maps, lock, kept, refs, fds, free, lost>>
  BY DEF do_rw
<1>4. ASSUME NEW t \in Threads, th' = [th EXCEPT ![p] = t], t.region = NoRegion,
             t.rw => t.at = "lock", ThreadInStep(p)'
      PROVE  IInv'
  <2>1. \A q \in Procs : th'[q].rw /\ ~ At(q, "lock")' <=> th[q].rw /\ ~ At(q, "lock")
    BY <1>2, <1>4 DEF TypeOK, At
  <2>2. LockHeld'
    BY <1>3, <2>1 DEF LockHeld, TypeOK
  <2> QED
    BY <1>2, <1>3, <1>4, <2>2, ThreadStep DEF TypeOK
<1>5. CASE Refused(find_user_region(p, buf), ~w)
  <2> DEFINE t == [Idle EXCEPT !.exiting = TRUE]
  <2>1. t \in Threads /\ t.region = NoRegion /\ ~ t.rw /\ t.at = "user" /\ t.exiting
    BY DEF Idle, Threads
  <2>2. th' = [th EXCEPT ![p] = t] /\ th'[p] = t
    BY <1>1, <1>5 DEF TypeOK
  <2> HIDE DEF t
  <2>3. ThreadInStep(p)'
    BY <2>1, <2>2 DEF ThreadInStep
  <2> QED
    BY <1>4, <2>1, <2>2, <2>3
<1>6. CASE ~ Refused(find_user_region(p, buf), ~w)
  <2> DEFINE t == [Idle EXCEPT !.at = "lock", !.rw = TRUE, !.offset = o,
                               !.page = buf, !.write = w]
  <2>1. /\ t \in Threads /\ t.region = NoRegion /\ t.rw /\ t.at = "lock" /\ ~ t.exiting
        /\ t.page = buf /\ t.write = w
    BY DEF Idle, Threads
  <2>2. th' = [th EXCEPT ![p] = t] /\ th'[p] = t
    BY <1>1, <1>6 DEF TypeOK
  <2>3. \E r \in regions[p] : InRegion(buf, r) /\ (~ w => r.write)
    BY <1>6, PagesAreNat, FoundIsRegion DEF Refused
  <2> HIDE DEF t
  <2>4. ThreadInStep(p)'
    BY <1>2, <1>3, <2>1, <2>2, <2>3 DEF ThreadInStep, InRegion
  <2> QED
    BY <1>4, <2>1, <2>2, <2>4
<1> QED
  BY <1>5, <1>6

LEMMA RwEndStep ==
  ASSUME IInv, NEW p \in Procs, rw_end(p)
  PROVE  IInv'
<1> USE DEF IInv
<1>1. th[p].at = "copy" /\ th' = [th EXCEPT ![p] = Idle] /\ lock' = NoProc
  BY DEF rw_end, At, Unlocked
<1>2. UNCHANGED <<regions, entry, table, pages, maps, kept, refs, fds, free, lost>>
  BY DEF rw_end
<1>3. th[p].rw /\ th[p].region = NoRegion
  BY <1>1, ThreadFacts DEF ThreadsInStep, ThreadInStep
<1>4. Idle \in Threads /\ Idle.region = NoRegion /\ ~ Idle.rw /\ Idle.at = "user"
      /\ ~ Idle.exiting
  BY ThreadFacts DEF Idle
<1>5. th'[p] = Idle /\ \A q \in Procs : q # p => th'[q] = th[q]
  BY <1>1 DEF TypeOK
<1>6. ThreadInStep(p)'
  BY <1>4, <1>5 DEF ThreadInStep
<1>7. LockHeld'
  <2>1. lock = p /\ ~ kept
    BY <1>1, <1>3 DEF LockHeld, At
  <2>2. \A q \in Procs : ~ (th'[q].rw /\ ~ At(q, "lock")')
    BY <1>4, <1>5, <2>1 DEF LockHeld, At
  <2> QED
    BY <1>1, <1>2, <2>1, <2>2 DEF LockHeld
<1> QED
  BY <1>1, <1>2, <1>3, <1>4, <1>6, <1>7, ThreadStep DEF TypeOK

LEMMA ExitStep ==
  ASSUME IInv, NEW p \in Procs, exit(p)
  PROVE  IInv'
<1> USE DEF IInv
<1> DEFINE t == [th[p] EXCEPT !.exiting = TRUE]
<1>1. th[p].at = "user" /\ ~ th[p].rw /\ th[p].region = NoRegion /\ th[p] \in Threads
  BY UserFacts, ThreadFacts DEF exit, InUser, At
<1>2. th' = [th EXCEPT ![p] = t]
  BY DEF exit
<1>3. UNCHANGED <<regions, entry, table, pages, maps, lock, kept, refs, fds, free, lost>>
  BY DEF exit
<1>4. t \in Threads /\ t.region = NoRegion /\ ~ t.rw /\ t.at = "user"
  BY <1>1 DEF Threads
<1>5. th'[p] = t /\ \A q \in Procs : q # p => th'[q] = th[q]
  BY <1>2 DEF TypeOK
<1> HIDE DEF t
<1>6. ThreadInStep(p)'
  BY <1>4, <1>5 DEF ThreadInStep
<1>7. LockHeld'
  <2>1. \A q \in Procs : th'[q].rw /\ ~ At(q, "lock")' <=> th[q].rw /\ ~ At(q, "lock")
    BY <1>1, <1>4, <1>5 DEF At
  <2> QED
    BY <1>3, <2>1 DEF LockHeld, TypeOK
<1> QED
  BY <1>1, <1>2, <1>3, <1>4, <1>6, <1>7, ThreadStep DEF TypeOK

LEMMA RwLockStep ==
  ASSUME IInv, NEW p \in Procs, rw_lock(p)
  PROVE  IInv'
<1> USE DEF IInv
<1> DEFINE o == th[p].offset
<1>1. th[p].at = "lock" /\ lock = NoProc
  BY DEF rw_lock, At
<1>2. /\ th[p].rw /\ th[p].region = NoRegion /\ ~ th[p].exiting /\ th[p] \in Threads
      /\ o \in Nat /\ ~ kept
  BY <1>1, ThreadFacts DEF ThreadsInStep, ThreadInStep, LockHeld
<1>3. UNCHANGED <<regions, entry, table, maps, refs, fds>>
  BY DEF rw_lock
<1>4. Idle \in Threads /\ Idle.region = NoRegion /\ ~ Idle.rw /\ Idle.at = "user"
      /\ ~ Idle.exiting
  BY ThreadFacts DEF Idle
<1>5. \A q \in Procs : ~ (th[q].rw /\ ~ At(q, "lock"))
  BY <1>1, MemoryAssumption DEF LockHeld
<1>6. PagesGrow
  <2>1. CASE UNCHANGED <<pages, free, lost>>
    BY <1>3, <2>1, NothingTaken
  <2>2. ASSUME o < ShmSize
        PROVE  o \in PageOffsets /\ ShmPager \in Pagers
    BY <1>2, <2>2, MemoryAssumption DEF PageOffsets, Pagers
  <2>3. CASE o < ShmSize /\ swap_page_in(ShmPager, o) /\ UNCHANGED lost
    BY <1>3, <2>2, <2>3, FrameTaken
  <2>4. CASE o < ShmSize /\ FrameLeaks(ShmPager, o)
    BY <1>3, <2>2, <2>4, FrameLost
  <2> QED
    BY <2>1, <2>3, <2>4 DEF rw_lock
\* The return that keeps the lock, and those that never took it.
<1>7. CASE /\ th' = [th EXCEPT ![p] = Idle]
           /\ \/ lock' = p /\ kept' = TRUE
              \/ UNCHANGED <<lock, kept>>
  <2>1. th'[p] = Idle /\ \A q \in Procs : q # p => th'[q] = th[q]
    BY <1>7 DEF TypeOK
  <2>2. ThreadInStep(p)'
    BY <1>4, <2>1 DEF ThreadInStep
  <2>3. \A q \in Procs : ~ (th'[q].rw /\ ~ At(q, "lock")')
    BY <1>4, <1>5, <2>1 DEF At
  <2>4. LockHeld'
    BY <1>1, <1>2, <1>7, <2>3, MemoryAssumption DEF LockHeld
  <2>5. lock' \in Procs \cup {NoProc} /\ kept' \in BOOLEAN
    BY <1>7 DEF TypeOK
  <2> QED
    BY <1>2, <1>3, <1>4, <1>6, <1>7, <2>2, <2>4, <2>5, GrowStep
\* The page is there, and the copy begins.
<1>8. CASE lock' = p /\ Go(p, "copy") /\ UNCHANGED kept
  <2> DEFINE t == [th[p] EXCEPT !.at = "copy"]
  <2>1. th' = [th EXCEPT ![p] = t]
    BY <1>8 DEF Go
  <2>2. /\ t \in Threads /\ t.region = NoRegion /\ t.rw /\ t.at = "copy" /\ ~ t.exiting
        /\ t.page = th[p].page /\ t.write = th[p].write
    BY <1>2 DEF Threads
  <2> HIDE DEF t
  <2>3. th'[p] = t /\ \A q \in Procs : q # p => th'[q] = th[q]
    BY <2>1 DEF TypeOK
  <2>4. ThreadInStep(p)'
    BY <1>2, <1>3, <2>2, <2>3 DEF ThreadsInStep, ThreadInStep, InRegion
  <2>5. LockHeld'
    BY <1>2, <1>5, <1>8, <2>2, <2>3, MemoryAssumption DEF LockHeld, At
  <2>6. lock' \in Procs \cup {NoProc} /\ kept' \in BOOLEAN
    BY <1>8 DEF TypeOK
  <2> QED
    BY <1>2, <1>3, <1>6, <2>1, <2>2, <2>4, <2>5, <2>6, GrowStep
<1> QED
  BY <1>7, <1>8 DEF rw_lock

LEMMA GetFrameStep ==
  ASSUME IInv, NEW p \in Procs, get_frame(p)
  PROVE  IInv'
<1> USE DEF IInv
<1> DEFINE page == th[p].page
           r == find_user_region(p, page)
           o == page - r.addr + r.offset
           t == [th[p] EXCEPT !.at = "map", !.frame = pages'[r.pager][o]]
<1>1. /\ th[p].at = "fault"
      /\ UNCHANGED <<regions, entry, table, maps, lock, kept, refs, fds>>
  BY DEF get_frame, At
<1>2. page \in Nat /\ th[p].region = NoRegion /\ ~ th[p].exiting /\ th[p] \in Threads
  BY <1>1, ThreadFacts DEF ThreadsInStep, ThreadInStep
<1>3. r \in regions[p] /\ InRegion(page, r)
  <2>1. PICK s \in regions[p] : InRegion(page, s)
    BY <1>1 DEF ThreadsInStep, ThreadInStep
  <2> QED
    BY <1>2, <2>1, RegionIsFound
<1>4. \/ /\ swap_page_in(r.pager, o) /\ UNCHANGED lost
         /\ th' = [th EXCEPT ![p].at = "map", ![p].frame = pages'[r.pager][o]]
      \/ FrameLeaks(r.pager, o) /\ UNCHANGED th
  BY DEF get_frame
<1> HIDE DEF r
<1>5. r.pager \in Pagers /\ o \in PageOffsets
  BY <1>2, <1>3, RegionFacts DEF RegionsOf
<1>6. lock' \in Procs \cup {NoProc} /\ kept' \in BOOLEAN
  BY <1>1 DEF TypeOK
\* A frame is lost, and the fault tries again.
<1>7. CASE FrameLeaks(r.pager, o) /\ UNCHANGED th
  <2>1. PagesGrow
    BY <1>1, <1>5, <1>7, FrameLost
  <2>2. th' = [th EXCEPT ![p] = th[p]]
    BY <1>7 DEF TypeOK
  <2>3. ThreadInStep(p)'
    BY <1>1, <1>7 DEF ThreadsInStep, ThreadInStep, InRegion
  <2>4. LockHeld'
    BY <1>1, <1>7 DEF LockHeld, At
  <2> QED
    BY <1>1, <1>2, <1>6, <2>1, <2>2, <2>3, <2>4, GrowStep
\* The page is there, to be mapped.
<1>8. CASE /\ swap_page_in(r.pager, o) /\ UNCHANGED lost
           /\ th' = [th EXCEPT ![p].at = "map", ![p].frame = pages'[r.pager][o]]
  <2>1. PagesGrow /\ pages'[r.pager][o] # NoFrame
    BY <1>1, <1>5, <1>8, FrameTaken
  <2>2. th' = [th EXCEPT ![p] = t]
    BY <1>8 DEF TypeOK
  <2>3. pages'[r.pager][o] \in Frames \cup {NoFrame}
    BY <1>5, <2>1 DEF PagesGrow
  <2>4. /\ t \in Threads /\ t.region = NoRegion /\ t.rw = th[p].rw /\ t.at = "map"
        /\ ~ t.exiting /\ t.page = page /\ t.write = th[p].write
        /\ t.frame = pages'[r.pager][o]
    BY <1>2, <2>3 DEF Threads
  <2> HIDE DEF t
  <2>5. th'[p] = t /\ \A q \in Procs : q # p => th'[q] = th[q]
    BY <2>2 DEF TypeOK
  <2>6. ThreadInStep(p)'
    BY <1>1, <1>3, <2>1, <2>4, <2>5 DEF ThreadsInStep, ThreadInStep, InRegion, FrameAt
  <2>7. LockHeld'
    BY <1>1, <2>4, <2>5 DEF LockHeld, TypeOK, At
  <2> QED
    BY <1>1, <1>2, <1>6, <2>1, <2>2, <2>4, <2>6, <2>7, GrowStep
<1> QED
  BY <1>4, <1>7, <1>8

LEMMA MapPageStep ==
  ASSUME IInv, NEW p \in Procs, pd_map_page(p)
  PROVE  IInv'
<1> USE DEF IInv
<1> DEFINE page == th[p].page
           r == find_user_region(p, page)
           e == [frame |-> th[p].frame, rw |-> r.write]
           t == IF th[p].rw THEN [th[p] EXCEPT !.at = "copy", !.frame = NoFrame] ELSE Idle
<1>1. /\ th[p].at = "map"
      /\ entry' = [entry EXCEPT ![p][page] = e]
      /\ th' = [th EXCEPT ![p] = t]
      /\ UNCHANGED <<regions, pages, maps, lock, kept, refs, fds, lost>>
  BY DEF pd_map_page, At
<1>2. /\ page \in Nat /\ th[p].region = NoRegion /\ ~ th[p].exiting /\ th[p] \in Threads
      /\ th[p].frame \in Frames
  BY <1>1, ThreadFacts DEF ThreadsInStep, ThreadInStep
<1>3. r \in regions[p] /\ InRegion(page, r) /\ FrameAt(r, page) = th[p].frame
  <2>1. PICK s \in regions[p] : InRegion(page, s) /\ FrameAt(s, page) = th[p].frame
    BY <1>1 DEF ThreadsInStep, ThreadInStep
  <2>2. r = s
    BY <1>2, <2>1, RegionIsFound
  <2> QED
    BY <2>1, <2>2
<1> HIDE DEF r
<1>4. page \in Pages /\ r.write \in BOOLEAN
  BY <1>2, <1>3, RegionFacts DEF RegionsOf
<1>5. /\ t \in Threads /\ t.region = NoRegion /\ t.rw = th[p].rw
      /\ t.at = IF th[p].rw THEN "copy" ELSE "user"
      /\ t.rw => t.page = page /\ t.write = th[p].write
  BY <1>2, ThreadFacts DEF Threads, Idle
<1>6. ~ t.exiting
  BY <1>2 DEF Idle, Threads
<1> HIDE DEF t
<1>7. th'[p] = t /\ \A q \in Procs : q # p => th'[q] = th[q]
  BY <1>1 DEF TypeOK
<1>8. /\ e \in [frame : Frames \cup {NoFrame}, rw : BOOLEAN]
      /\ e.frame = th[p].frame /\ e.frame # NoFrame /\ e.rw = r.write
  BY <1>2, <1>4, MemoryAssumption
<1> HIDE DEF e
<1>9. /\ entry' \in [Procs -> [Pages -> [frame : Frames \cup {NoFrame}, rw : BOOLEAN]]]
      /\ entry'[p][page] = e
      /\ \A q \in Procs, x \in Pages : q # p \/ x # page => entry'[q][x] = entry[q][x]
  BY <1>1, <1>4, <1>8 DEF TypeOK
<1>10. /\ FramesOnce' /\ free' \subseteq Frames
       /\ table' \in [Procs -> Frames \cup {NoFrame}]
  <2>1. CASE UNCHANGED <<table, free>>
    <3>1. FramesOnce'
      BY <1>1, <2>1 DEF FramesOnce
    <3> QED
      BY <2>1, <3>1 DEF TypeOK
  <2>2. ASSUME table[p] = NoFrame, NEW f \in free, table' = [table EXCEPT ![p] = f],
               free' = free \ {f}
        PROVE  /\ FramesOnce' /\ free' \subseteq Frames
               /\ table' \in [Procs -> Frames \cup {NoFrame}]
    <3>1. /\ f \in Frames /\ f # NoFrame /\ f \notin lost
          /\ \A q \in Procs : table[q] # f
          /\ \A h \in Pagers, n \in PageOffsets : pages[h][n] # f
      BY MemoryAssumption DEF FramesOnce, TypeOK
    <3>2. /\ table' \in [Procs -> Frames \cup {NoFrame}] /\ table'[p] = f
          /\ \A q \in Procs : q # p => table'[q] = table[q]
      BY <2>2, <3>1 DEF TypeOK
    <3>3. \A c \in Frames :
            \/ c \in free' \cup lost'
            \/ \E q \in Procs : table'[q] = c
            \/ \E g \in Pagers, n \in PageOffsets : pages'[g][n] = c
      <4> SUFFICES ASSUME NEW c \in Frames, c \notin free' \cup lost',
                          \A g \in Pagers, n \in PageOffsets : pages'[g][n] # c
                   PROVE  \E q \in Procs : table'[q] = c
        OBVIOUS
      <4>1. CASE c = f
        BY <3>2, <4>1
      <4>2. CASE c # f
        <5>1. PICK q \in Procs : table[q] = c
          BY <1>1, <2>2, <4>2 DEF FramesOnce
        <5>2. q # p
          BY <2>2, <5>1, MemoryAssumption
        <5> QED
          BY <3>2, <5>1, <5>2
      <4> QED
        BY <4>1, <4>2
    <3>4. FramesOnce'
      BY <1>1, <2>2, <3>1, <3>2, <3>3 DEF FramesOnce
    <3> QED
      BY <2>2, <3>2, <3>4 DEF TypeOK
  <2> QED
    BY <2>1, <2>2 DEF pd_map_page
<1>11. EntriesAgree'
  <2>1. ASSUME NEW x \in Pages, x = page
        PROVE  EntryAgrees(p, x)'
    BY <1>1, <1>3, <1>8, <1>9, <2>1 DEF EntryAgrees, FrameAt, InRegion
  <2>2. \A q \in Procs, x \in Pages : q # p \/ x # page => EntryAgrees(q, x)'
    BY <1>1, <1>9, Undisturbed
  <2> QED
    BY <2>1, <2>2 DEF EntriesAgree
<1>12. ThreadsInStep'
  <2>1. \A q \in Procs : q # p => ThreadInStep(q)'
    BY <1>1, <1>7, Undisturbed
  <2>2. ThreadInStep(p)'
    BY <1>1, <1>5, <1>6, <1>7 DEF ThreadsInStep, ThreadInStep, InRegion
  <2> QED
    BY <2>1, <2>2 DEF ThreadsInStep
<1>13. LockHeld'
  BY <1>1, <1>5, <1>7 DEF LockHeld, TypeOK, At
<1>14. RegionsPlaced' /\ MapsCounted'
  BY <1>1, <1>2, <1>5, <1>7, RegionsKept
<1>15. TypeOK'
  BY <1>1, <1>5, <1>9, <1>10 DEF TypeOK
<1> QED
  BY <1>10, <1>11, <1>12, <1>13, <1>14, <1>15

-----------------------------------------------------------------------------
(***************************************************************************)
(* Mapping, changing and unmapping.                                        *)
(***************************************************************************)

\* Where no region was found, a new one is alone in its slot.
LEMMA AddRegionStep ==
  ASSUME IInv, NEW p \in Procs, NEW s \in Slots[p], NEW r \in Regions,
         r.addr = s[1], r.size = s[2],
         r.pager = ShmPager \/ (r.pager = <<p, s[1]>> /\ r.offset = 0),
         InUser(p), find_user_region(p, s[1]) = NoRegion, AddRegion(p, r),
         refs' = IF r.pager = ShmPager THEN refs + 1 ELSE refs,
         UNCHANGED <<entry, table, pages, lock, kept, fds, free, lost, th>>
  PROVE  IInv'
<1> USE DEF IInv
<1> DEFINE m == <<p, r.addr>>
<1>1. th[p].at = "user" /\ ~ th[p].rw /\ th[p].region = NoRegion
  BY UserFacts DEF InUser, At
<1>2. r # NoRegion /\ r.pager \in Pagers /\ r.addr \in Pages /\ r.addr \in Nat
  BY SlotFacts, NoRegionAssumption DEF Regions
<1>3. ASSUME NEW c \in RegionsOf(p)
      PROVE  c.addr # r.addr
  <2>1. c \in regions[p]
    BY <1>1 DEF RegionsOf
  <2>2. InRegion(c.addr, c) /\ c # NoRegion
    BY RegionFacts
  <2> QED
    BY <1>2, <2>1, <2>2, RegionIsFound
<1>4. /\ regions' \in [Procs -> SUBSET Regions] /\ regions'[p] = regions[p] \cup {r}
      /\ \A q \in Procs : q # p => regions'[q] = regions[q]
  BY DEF AddRegion, TypeOK
<1>5. /\ RegionsOf(p)' = RegionsOf(p) \cup {r}
      /\ \A q \in Procs : q # p => RegionsOf(q)' = RegionsOf(q)
  BY <1>1, <1>4 DEF RegionsOf
<1>6. /\ maps' \in [Pagers -> SUBSET (Procs \X Pages)]
      /\ maps'[r.pager] = maps[r.pager] \cup {m}
      /\ \A g \in Pagers : g # r.pager => maps'[g] = maps[g]
  BY <1>2 DEF AddRegion, TypeOK
<1>7. refs \in Nat /\ refs' \in Nat
  BY DEF TypeOK
<1>8. TypeOK'
  BY <1>4, <1>6, <1>7 DEF TypeOK
<1>9. RegionsPlaced'
  <2>1. s = <<r.addr, r.size>>
    BY SlotFacts
  <2>2. \A q \in Procs : q # p =>
          /\ \A c \in RegionsOf(q)' :
               /\ <<c.addr, c.size>> \in Slots[q]
               /\ c.pager # ShmPager => c.pager = <<q, c.addr>> /\ c.offset = 0
          /\ \A c, d \in RegionsOf(q)' : c.addr = d.addr => c = d
          /\ th'[q].region \notin regions'[q]
    BY <1>4, <1>5 DEF RegionsPlaced
  <2>3. \A c \in RegionsOf(p)' :
          /\ <<c.addr, c.size>> \in Slots[p]
          /\ c.pager # ShmPager => c.pager = <<p, c.addr>> /\ c.offset = 0
    BY <1>5, <2>1 DEF RegionsPlaced
  <2>4. \A c, d \in RegionsOf(p)' : c.addr = d.addr => c = d
    BY <1>3, <1>5 DEF RegionsPlaced
  <2>5. th'[p].region \notin regions'[p]
    BY <1>1, <1>2, <1>4 DEF RegionsPlaced
  <2> QED
    BY <2>2, <2>3, <2>4, <2>5 DEF RegionsPlaced
<1>10. EntriesAgree'
  <2>1. \A q \in Procs : regions[q] \subseteq regions'[q]
    BY <1>4
  <2> QED
    BY <2>1 DEF EntriesAgree, EntryAgrees, FrameAt, InRegion, Absent
<1>11. ThreadsInStep'
  <2>1. \A q \in Procs : q # p => ThreadInStep(q)'
    BY <1>4, Undisturbed
  <2>2. ThreadInStep(p)'
    BY <1>1 DEF ThreadsInStep, ThreadInStep
  <2> QED
    BY <2>1, <2>2 DEF ThreadsInStep
<1>12. LockHeld' /\ FramesOnce'
  BY DEF LockHeld, FramesOnce, At
<1>13. MapsCounted'
  <2>1. ~ \E c \in RegionsOf(p) : c.addr = r.addr
    BY <1>3
  <2>2. m \notin maps[r.pager]
    BY <1>2, <2>1 DEF MapsCounted
  <2>3. ASSUME NEW g \in Pagers, NEW q \in Procs, NEW a \in Pages
        PROVE  <<q, a>> \in maps'[g] <=> \E c \in RegionsOf(q)' : c.addr = a /\ c.pager = g
    <3>1. <<q, a>> \in maps[g] <=> \E c \in RegionsOf(q) : c.addr = a /\ c.pager = g
      BY DEF MapsCounted
    <3>2. <<q, a>> \in maps'[g] <=> <<q, a>> \in maps[g] \/ (g = r.pager /\ q = p /\ a = r.addr)
      BY <1>6
    <3>3. (\E c \in RegionsOf(q)' : c.addr = a /\ c.pager = g) <=>
            \/ \E c \in RegionsOf(q) : c.addr = a /\ c.pager = g
            \/ g = r.pager /\ q = p /\ a = r.addr
      BY <1>5
    <3> QED
      BY <3>1, <3>2, <3>3
  <2>4. CASE r.pager = ShmPager
    <3>1. /\ IsFiniteSet(maps'[ShmPager])
          /\ Cardinality(maps'[ShmPager]) = Cardinality(maps[ShmPager]) + 1
      BY <1>6, <2>2, <2>4, FS_AddElement DEF MapsCounted
    <3>2. Cardinality(fds) \in Nat /\ Cardinality(maps[ShmPager]) \in Nat
      BY FS_CardinalityType DEF MapsCounted
    <3> QED
      BY <2>3, <2>4, <3>1, <3>2 DEF MapsCounted
  <2>5. CASE r.pager # ShmPager
    <3>1. maps'[ShmPager] = maps[ShmPager]
      BY <1>6, <2>5 DEF Pagers
    <3> QED
      BY <2>3, <2>5, <3>1 DEF MapsCounted
  <2> QED
    BY <2>4, <2>5
<1> QED
  BY <1>8, <1>9, <1>10, <1>11, <1>12, <1>13

LEMMA MmapStep ==
  ASSUME IInv, NEW p \in Procs, mmap(p) \/ mmap_file(p)
  PROVE  IInv'
<1>1. CASE mmap(p)
  <2>1. PICK s \in Slots[p], w \in BOOLEAN :
          /\ InUser(p) /\ find_user_region(p, s[1]) = NoRegion
          /\ AddRegion(p, [addr |-> s[1], size |-> s[2], pager |-> <<p, s[1]>>,
                           offset |-> 0, write |-> w])
          /\ UNCHANGED <<entry, table, pages, lock, kept, refs, fds, free, lost, th>>
    BY <1>1 DEF mmap
  <2> DEFINE r == [addr |-> s[1], size |-> s[2], pager |-> <<p, s[1]>>,
                   offset |-> 0, write |-> w]
  <2>2. s[1] \in Pages /\ s \in AllSlots /\ <<p, s[1]>> \in Pagers /\ <<p, s[1]>> # ShmPager
    BY SlotFacts, SizeFacts
  <2>3. r \in Regions
    BY <2>2 DEF Regions
  <2> QED
    BY <2>1, <2>2, <2>3, AddRegionStep
<1>2. CASE mmap_file(p)
  <2>1. PICK s \in Slots[p], o \in Offsets, w \in BOOLEAN :
          /\ InUser(p) /\ find_user_region(p, s[1]) = NoRegion
          /\ AddRegion(p, [addr |-> s[1], size |-> s[2], pager |-> ShmPager,
                           offset |-> o, write |-> w])
          /\ refs' = refs + 1
          /\ UNCHANGED <<entry, table, pages, lock, kept, fds, free, lost, th>>
    BY <1>2 DEF mmap_file, RefFile
  <2> DEFINE r == [addr |-> s[1], size |-> s[2], pager |-> ShmPager,
                   offset |-> o, write |-> w]
  <2>2. s[1] \in Pages /\ s \in AllSlots /\ ShmPager \in Pagers
    BY SlotFacts DEF Pagers
  <2>3. r \in Regions
    BY <2>2 DEF Regions
  <2> QED
    BY <2>1, <2>2, <2>3, AddRegionStep
<1> QED
  BY <1>1, <1>2

\* A remapped entry keeps its frame, and takes the new mode if it is present.
LEMMA RemappedFacts ==
  ASSUME NEW e \in [frame : Frames \cup {NoFrame}, rw : BOOLEAN], NEW w \in BOOLEAN
  PROVE  /\ Remapped(e, w) \in [frame : Frames \cup {NoFrame}, rw : BOOLEAN]
         /\ Remapped(e, w).frame = e.frame
         /\ e = Absent => Remapped(e, w) = Absent
         /\ e # Absent => Remapped(e, w).rw = w
BY DEF Remapped

LEMMA MchmapStep ==
  ASSUME IInv, NEW p \in Procs, mchmap(p)
  PROVE  IInv'
<1> USE DEF IInv
<1>1. PICK r \in regions[p] :
        /\ regions' = [regions EXCEPT ![p] = (@ \ {r}) \cup {[r EXCEPT !.write = ~r.write]}]
        /\ entry' = [entry EXCEPT ![p] = [x \in Pages |->
             IF x \in r.addr .. (r.addr + r.size - 1)
             THEN Remapped(@[x], ~r.write) ELSE @[x]]]
  BY DEF mchmap
<1>2. /\ th[p].at = "user" /\ ~ th[p].rw /\ th[p].region = NoRegion
      /\ UNCHANGED <<table, pages, maps, lock, kept, refs, fds, free, lost, th>>
  BY UserFacts DEF mchmap, InUser, At
<1> DEFINE c == [r EXCEPT !.write = ~r.write]
<1>3. /\ r \in RegionsOf(p) /\ r \in Regions /\ r.addr \in Nat /\ r.size \in Nat
      /\ r.write \in BOOLEAN
  BY RegionFacts DEF RegionsOf
<1>4. /\ c \in Regions /\ c # NoRegion /\ c.addr = r.addr /\ c.size = r.size
      /\ c.pager = r.pager /\ c.offset = r.offset /\ c.write = ~ r.write
  BY <1>3, NoRegionAssumption DEF Regions
<1> HIDE DEF c
<1>5. /\ regions' \in [Procs -> SUBSET Regions] /\ regions'[p] = (regions[p] \ {r}) \cup {c}
      /\ \A q \in Procs : q # p => regions'[q] = regions[q]
  BY <1>1, <1>4 DEF TypeOK, c
<1>6. /\ RegionsOf(p)' = (RegionsOf(p) \ {r}) \cup {c}
      /\ \A q \in Procs : q # p => RegionsOf(q)' = RegionsOf(q)
  BY <1>2, <1>3, <1>5 DEF RegionsOf
<1>7. \A q \in Procs : q # p => entry'[q] = entry[q]
  BY <1>1 DEF TypeOK
<1>8. \A x \in Pages : entry'[p][x] =
        IF InRegion(x, r) THEN Remapped(entry[p][x], ~r.write) ELSE entry[p][x]
  <2>1. \A x \in Pages : x \in r.addr .. (r.addr + r.size - 1) <=> InRegion(x, r)
    BY <1>3, PagesAreNat DEF InRegion
  <2> QED
    BY <1>1, <2>1 DEF TypeOK
<1>9. entry' \in [Procs -> [Pages -> [frame : Frames \cup {NoFrame}, rw : BOOLEAN]]]
  <2> DEFINE E == [frame : Frames \cup {NoFrame}, rw : BOOLEAN]
             f == [x \in Pages |-> IF x \in r.addr .. (r.addr + r.size - 1)
                                   THEN Remapped(entry[p][x], ~r.write) ELSE entry[p][x]]
  <2>1. \A e \in E : Remapped(e, ~r.write) \in E
    BY <1>3, RemappedFacts
  <2>2. entry' = [entry EXCEPT ![p] = f] /\ entry \in [Procs -> [Pages -> E]]
    BY <1>1 DEF TypeOK
  <2> HIDE DEF E
  <2>3. f \in [Pages -> E]
    BY <2>1, <2>2
  <2> QED
    BY <2>2, <2>3 DEF E
<1>10. TypeOK'
  BY <1>2, <1>5, <1>9 DEF TypeOK
<1>11. RegionsPlaced'
  <2>1. \A q \in Procs : q # p =>
          /\ \A d \in RegionsOf(q)' :
               /\ <<d.addr, d.size>> \in Slots[q]
               /\ d.pager # ShmPager => d.pager = <<q, d.addr>> /\ d.offset = 0
          /\ \A d, e \in RegionsOf(q)' : d.addr = e.addr => d = e
          /\ th'[q].region \notin regions'[q]
    BY <1>2, <1>5, <1>6 DEF RegionsPlaced
  <2>2. \A d \in RegionsOf(p)' :
          /\ <<d.addr, d.size>> \in Slots[p]
          /\ d.pager # ShmPager => d.pager = <<p, d.addr>> /\ d.offset = 0
    <3>1. \A d \in RegionsOf(p) :
            /\ <<d.addr, d.size>> \in Slots[p]
            /\ d.pager # ShmPager => d.pager = <<p, d.addr>> /\ d.offset = 0
      BY DEF RegionsPlaced
    <3>2. /\ <<c.addr, c.size>> \in Slots[p]
          /\ c.pager # ShmPager => c.pager = <<p, c.addr>> /\ c.offset = 0
      BY <1>3, <1>4, <3>1
    <3> QED
      BY <1>6, <3>1, <3>2
  <2>3. \A d, e \in RegionsOf(p)' : d.addr = e.addr => d = e
    <3>1. \A d, e \in RegionsOf(p) : d.addr = e.addr => d = e
      BY DEF RegionsPlaced
    <3>2. \A d \in RegionsOf(p) \ {r} : d.addr # c.addr
      BY <1>3, <1>4, <3>1
    <3> QED
      BY <1>6, <3>1, <3>2
  <2>4. th'[p].region \notin regions'[p]
    BY <1>2, <1>4, <1>5 DEF RegionsPlaced
  <2> QED
    BY <2>1, <2>2, <2>3, <2>4 DEF RegionsPlaced
<1>12. EntriesAgree'
  <2>1. ASSUME NEW q \in Procs, q # p, NEW x \in Pages
        PROVE  EntryAgrees(q, x)'
    BY <1>2, <1>5, <1>7, <2>1, Undisturbed
  <2>0. \A x \in Pages : entry[p][x] \in [frame : Frames \cup {NoFrame}, rw : BOOLEAN]
    BY DEF TypeOK
  <2>2. ASSUME NEW x \in Pages, entry'[p][x] # Absent
        PROVE  EntryAgrees(p, x)'
    <3>1. x \in Nat /\ entry[p][x] # Absent /\ entry'[p][x].frame = entry[p][x].frame
      BY <1>3, <1>8, <2>0, <2>2, PagesAreNat, RemappedFacts
    <3>2. PICK s \in regions[p] :
            /\ InRegion(x, s) /\ FrameAt(s, x) = entry[p][x].frame
            /\ entry[p][x].rw = s.write
      BY <3>1 DEF EntriesAgree, EntryAgrees
    <3>3. entry[p][x].frame # NoFrame
      BY <3>1 DEF EntriesAgree, EntryAgrees
    <3>4. CASE s = r
      <4>1. entry'[p][x].rw = c.write
        <5>1. entry'[p][x] = Remapped(entry[p][x], ~r.write)
          BY <1>8, <3>2, <3>4
        <5>2. Remapped(entry[p][x], ~r.write).rw = ~r.write
          BY <1>3, <2>0, <3>1, RemappedFacts
        <5> QED
          BY <1>4, <5>1, <5>2
      <4>2. InRegion(x, c) /\ FrameAt(c, x)' = FrameAt(r, x)
        BY <1>2, <1>4, <3>2, <3>4 DEF InRegion, FrameAt
      <4> QED
        BY <1>5, <3>1, <3>2, <3>3, <3>4, <4>1, <4>2 DEF EntryAgrees, InRegion, FrameAt
    <3>5. CASE s # r
      <4>1. ~ InRegion(x, r)
        BY <1>3, <3>1, <3>2, <3>5, RegionsApart DEF RegionsOf
      <4>2. entry'[p][x] = entry[p][x] /\ s \in regions'[p]
        BY <1>5, <1>8, <3>5, <4>1
      <4> QED
        BY <1>2, <3>2, <3>3, <4>2 DEF EntryAgrees, InRegion, FrameAt
    <3> QED
      BY <3>4, <3>5
  <2>3. \A x \in Pages : EntryAgrees(p, x)'
    BY <2>2 DEF EntryAgrees, Absent
  <2> QED
    BY <2>1, <2>3 DEF EntriesAgree
<1>13. ThreadsInStep'
  <2>1. \A q \in Procs : q # p => ThreadInStep(q)'
    BY <1>2, <1>5, Undisturbed
  <2>2. ThreadInStep(p)'
    BY <1>2 DEF ThreadsInStep, ThreadInStep
  <2> QED
    BY <2>1, <2>2 DEF ThreadsInStep
<1>14. LockHeld' /\ FramesOnce'
  BY <1>2 DEF LockHeld, FramesOnce, At
<1>15. MapsCounted'
  <2>1. \A g \in Pagers, q \in Procs, a \in Pages :
          (\E d \in RegionsOf(q)' : d.addr = a /\ d.pager = g) <=>
          (\E d \in RegionsOf(q) : d.addr = a /\ d.pager = g)
    BY <1>3, <1>4, <1>6
  <2> QED
    BY <1>2, <2>1 DEF MapsCounted
<1> QED
  BY <1>10, <1>11, <1>12, <1>13, <1>14, <1>15

\* munmap_inner(), first part, called by munmap() or by process_exit().
LEMMA UnmapStep ==
  ASSUME IInv, NEW p \in Procs, NEW r \in regions[p], th[p].at = "user", munmap_inner(p, r)
  PROVE  IInv'
<1> USE DEF IInv
<1> DEFINE t == [th[p] EXCEPT !.at = "rm_map", !.region = r]
<1>1. /\ regions' = [regions EXCEPT ![p] = @ \ {r}]
      /\ entry' = [entry EXCEPT ![p] = Unmapped(p, r)]
      /\ th' = [th EXCEPT ![p] = t]
      /\ UNCHANGED <<table, pages, maps, lock, kept, refs, fds, free, lost>>
  BY DEF munmap_inner, TypeOK
<1>2. ~ th[p].rw /\ th[p].region = NoRegion /\ th[p] \in Threads
  BY UserFacts, ThreadFacts
<1>3. r \in RegionsOf(p) /\ r \in Regions /\ r.addr \in Nat /\ r.size \in Nat /\ r # NoRegion
  BY RegionFacts DEF RegionsOf
<1>4. /\ t \in Threads /\ t.region = r /\ ~ t.rw /\ t.at = "rm_map"
      /\ t.exiting = th[p].exiting
  BY <1>2, <1>3 DEF Threads
<1> HIDE DEF t
<1>5. th'[p] = t /\ \A q \in Procs : q # p => th'[q] = th[q]
  BY <1>1 DEF TypeOK
<1>6. /\ regions' \in [Procs -> SUBSET Regions] /\ regions'[p] = regions[p] \ {r}
      /\ \A q \in Procs : q # p => regions'[q] = regions[q]
  BY <1>1 DEF TypeOK
<1>7. \A q \in Procs : RegionsOf(q)' = RegionsOf(q)
  <2>1. RegionsOf(p)' = RegionsOf(p)
    BY <1>2, <1>3, <1>4, <1>5, <1>6 DEF RegionsOf
  <2> QED
    BY <1>5, <1>6, <2>1 DEF RegionsOf
<1>8. /\ \A q \in Procs : q # p => entry'[q] = entry[q]
      /\ \A x \in Pages : entry'[p][x] = IF InRegion(x, r) THEN Absent ELSE entry[p][x]
  <2>1. \A x \in Pages : x \in r.addr .. (r.addr + r.size - 1) <=> InRegion(x, r)
    <3>1. PICK a \in Nat, n \in Nat : a = r.addr /\ n = r.size
      BY <1>3
    <3>2. \A x \in Nat : x \in a .. (a + n - 1) <=> a <= x /\ x < a + n
      OBVIOUS
    <3> QED
      BY <3>1, <3>2, PagesAreNat DEF InRegion
  <2> QED
    BY <1>1, <2>1 DEF TypeOK, Unmapped
<1>9. entry' \in [Procs -> [Pages -> [frame : Frames \cup {NoFrame}, rw : BOOLEAN]]]
  <2> DEFINE E == [frame : Frames \cup {NoFrame}, rw : BOOLEAN]
  <2>1. Absent \in E
    BY DEF Absent
  <2>2. entry \in [Procs -> [Pages -> E]]
    BY DEF TypeOK
  <2> HIDE DEF E
  <2>3. Unmapped(p, r) \in [Pages -> E]
    BY <2>1, <2>2 DEF Unmapped
  <2> QED
    BY <1>1, <2>2, <2>3 DEF E
<1>10. TypeOK'
  BY <1>1, <1>4, <1>6, <1>9 DEF TypeOK
<1>11. RegionsPlaced'
  <2>1. \A q \in Procs : th'[q].region \notin regions'[q]
    BY <1>4, <1>5, <1>6 DEF RegionsPlaced
  <2> QED
    BY <1>7, <2>1 DEF RegionsPlaced
<1>12. EntriesAgree'
  <2>1. ASSUME NEW q \in Procs, q # p, NEW x \in Pages
        PROVE  EntryAgrees(q, x)'
    BY <1>1, <1>6, <1>8, <2>1, Undisturbed
  <2>2. ASSUME NEW x \in Pages, entry'[p][x] # Absent
        PROVE  EntryAgrees(p, x)'
    <3>1. ~ InRegion(x, r) /\ entry'[p][x] = entry[p][x]
      BY <1>8, <2>2
    <3>2. PICK s \in regions[p] :
            /\ InRegion(x, s) /\ FrameAt(s, x) = entry[p][x].frame
            /\ entry[p][x].rw = s.write
      BY <2>2, <3>1 DEF EntriesAgree, EntryAgrees
    <3>3. s \in regions'[p]
      BY <1>6, <3>1, <3>2
    <3>4. entry[p][x].frame # NoFrame
      BY <2>2, <3>1 DEF EntriesAgree, EntryAgrees
    <3> QED
      BY <1>1, <3>1, <3>2, <3>3, <3>4 DEF EntryAgrees, InRegion, FrameAt
  <2>3. \A x \in Pages : EntryAgrees(p, x)'
    BY <2>2 DEF EntryAgrees, Absent
  <2> QED
    BY <2>1, <2>3 DEF EntriesAgree
<1>13. ThreadsInStep'
  <2>1. \A q \in Procs : q # p => ThreadInStep(q)'
    BY <1>1, <1>5, <1>6, Undisturbed
  <2>2. ThreadInStep(p)'
    BY <1>3, <1>4, <1>5 DEF ThreadInStep
  <2> QED
    BY <2>1, <2>2 DEF ThreadsInStep
<1>14. LockHeld' /\ FramesOnce'
  <2>1. \A q \in Procs : th'[q].rw /\ ~ At(q, "lock")' <=> th[q].rw /\ ~ At(q, "lock")
    BY <1>2, <1>4, <1>5 DEF At
  <2>2. LockHeld'
    BY <1>1, <2>1 DEF LockHeld, TypeOK
  <2> QED
    BY <1>1, <2>2 DEF FramesOnce
<1>15. MapsCounted'
  BY <1>1, <1>7 DEF MapsCounted
<1> QED
  BY <1>10, <1>11, <1>12, <1>13, <1>14, <1>15

\* A set that counts one has no second member.
LEMMA OnlyMember ==
  ASSUME NEW S, IsFiniteSet(S), Cardinality(S) = 1, NEW m \in S, NEW n \in S
  PROVE  m = n
<1>1. IsFiniteSet(S \ {m}) /\ Cardinality(S \ {m}) = 0
  BY FS_RemoveElement
<1>2. S \ {m} = {}
  BY <1>1, FS_EmptySet
<1> QED
  BY <1>2

\* A deleted pager is one that no region in the index uses.
LEMMA PagerUnused ==
  ASSUME IInv, NEW g \in Pagers, delete_pager(g), UNCHANGED <<table, lock, kept>>,
         NEW p \in Procs, regions' = regions, entry' = entry,
         \A q \in Procs : q # p => th'[q] = th[q] /\ (q \in fds => q \in fds'),
         \A q \in Procs : \A c \in regions[q] : c.pager # g
  PROVE  /\ FramesOnce' /\ EntriesAgree'
         /\ \A q \in Procs : q # p => ThreadInStep(q)'
         /\ pages' \in [Pagers -> [PageOffsets -> Frames \cup {NoFrame}]]
         /\ free' \subseteq Frames /\ lost' \subseteq Frames
<1> USE DEF IInv
<1>1. /\ FramesOnce'
      /\ pages' \in [Pagers -> [PageOffsets -> Frames \cup {NoFrame}]]
      /\ free' \subseteq Frames /\ lost' \subseteq Frames
      /\ \A h \in Pagers : h # g => pages'[h] = pages[h]
  BY DeletePager
<1>2. \A q \in Procs : \A c \in regions[q] : c.pager \in Pagers
  BY RegionFacts DEF RegionsOf
<1>3. \A q \in Procs : \A c \in regions[q], o \in PageOffsets :
        pages'[c.pager][o] = pages[c.pager][o]
  BY <1>1, <1>2
<1>4. EntriesAgree'
  BY <1>3, Undisturbed DEF EntriesAgree
<1>5. \A q \in Procs : q # p => ThreadInStep(q)'
  BY <1>3, Undisturbed
<1> QED
  BY <1>1, <1>4, <1>5

\* The object's pager is deleted with the last reference.
LEMMA LastReference ==
  ASSUME IInv, refs = 1
  PROVE  \/ maps[ShmPager] = {} /\ \E p \in Procs : fds = {p}
         \/ fds = {} /\ Cardinality(maps[ShmPager]) = 1
<1> USE DEF IInv
<1>1. /\ IsFiniteSet(fds) /\ IsFiniteSet(maps[ShmPager])
      /\ 1 = Cardinality(fds) + Cardinality(maps[ShmPager])
  BY DEF MapsCounted
<1>2. Cardinality(fds) \in Nat /\ Cardinality(maps[ShmPager]) \in Nat
  BY <1>1, FS_CardinalityType
<1>3. CASE Cardinality(fds) = 0
  <2>1. fds = {}
    BY <1>1, <1>3, FS_EmptySet
  <2> QED
    BY <1>1, <1>2, <1>3, <2>1
<1>4. CASE Cardinality(fds) # 0
  <2>1. Cardinality(fds) = 1 /\ Cardinality(maps[ShmPager]) = 0
    BY <1>1, <1>2, <1>4
  <2>2. maps[ShmPager] = {}
    BY <1>1, <2>1, FS_EmptySet
  <2>3. fds # {}
    BY <1>4, FS_EmptySet
  <2>4. PICK p \in Procs : p \in fds
    BY <2>3 DEF TypeOK
  <2>5. \A q \in fds : q = p
    BY <1>1, <2>1, <2>4, OnlyMember
  <2> QED
    BY <2>2, <2>4, <2>5
<1> QED
  BY <1>3, <1>4

LEMMA RmMapStep ==
  ASSUME IInv, NEW p \in Procs, rm_map(p)
  PROVE  IInv'
<1> USE DEF IInv
<1>0. th[p].at = "rm_map" /\ th[p].region # NoRegion
  BY DEF rm_map, At, ThreadsInStep, ThreadInStep
<1>1. PICK r \in Regions : r = th[p].region
  BY <1>0, ThreadFacts
<1> DEFINE m == <<p, r.addr>>
           g == r.pager
           t == Back(p)
<1>2. /\ maps' = [maps EXCEPT ![g] = @ \ {m}]
      /\ th' = [th EXCEPT ![p] = t]
      /\ UNCHANGED <<regions, entry, table, lock, kept, fds>>
  BY <1>1 DEF rm_map, pager_rm_map
<1>3. /\ r \in RegionsOf(p) /\ r \notin regions[p] /\ r # NoRegion
      /\ g \in Pagers /\ r.addr \in Pages
  BY <1>0, <1>1, RegionFacts DEF RegionsOf, RegionsPlaced
<1>4. /\ t \in Threads /\ t.region = NoRegion /\ ~ t.rw /\ t.at = "user"
      /\ t.exiting = th[p].exiting
  BY ThreadFacts DEF Threads, Idle, Back
<1> HIDE DEF t
<1>5. th'[p] = t /\ \A q \in Procs : q # p => th'[q] = th[q]
  BY <1>2 DEF TypeOK
<1>6. /\ RegionsOf(p)' = RegionsOf(p) \ {r}
      /\ \A q \in Procs : q # p => RegionsOf(q)' = RegionsOf(q)
  BY <1>1, <1>2, <1>3, <1>4, <1>5 DEF RegionsOf
<1>7. /\ maps' \in [Pagers -> SUBSET (Procs \X Pages)]
      /\ maps'[g] = maps[g] \ {m}
      /\ \A h \in Pagers : h # g => maps'[h] = maps[h]
  BY <1>2, <1>3 DEF TypeOK
<1>8. m \in maps[g]
  BY <1>3 DEF MapsCounted
<1>9. \A q \in Procs : \A c \in regions[q] :
        c \in RegionsOf(q) /\ c.pager \in Pagers /\ c.addr \in Pages
  BY RegionFacts DEF RegionsOf
<1>10. ASSUME NEW q \in Procs, NEW c \in regions[q], <<q, c.addr>> = m
       PROVE  FALSE
  <2>1. q = p /\ c.addr = r.addr
    BY <1>10
  <2>2. c = r
    BY <1>3, <1>9, <2>1 DEF RegionsPlaced
  <2> QED
    BY <1>3, <2>1, <2>2
<1>11. /\ FramesOnce' /\ EntriesAgree'
       /\ \A q \in Procs : q # p => ThreadInStep(q)'
       /\ pages' \in [Pagers -> [PageOffsets -> Frames \cup {NoFrame}]]
       /\ free' \subseteq Frames /\ lost' \subseteq Frames
  <2>1. CASE g # ShmPager
    <3>1. delete_pager(g)
      BY <1>1, <2>1 DEF rm_map
    <3>2. g = m
      BY <1>3, <2>1 DEF RegionsPlaced
    <3>3. \A q \in Procs : \A c \in regions[q] : c.pager # g
      BY <1>9, <1>10, <2>1, <3>2 DEF RegionsPlaced
    <3> QED
      BY <1>2, <1>3, <1>5, <3>1, <3>3, PagerUnused
  <2>2. CASE g = ShmPager /\ refs = 1
    <3>1. delete_pager(g)
      BY <1>1, <2>2 DEF rm_map, unref_file
    <3>2. Cardinality(maps[g]) = 1 /\ IsFiniteSet(maps[g])
      BY <1>8, <2>2, LastReference DEF MapsCounted
    <3>3. ASSUME NEW q \in Procs, NEW c \in regions[q], c.pager = g
          PROVE  FALSE
      <4>1. <<q, c.addr>> \in maps[g]
        BY <1>3, <1>9, <3>3 DEF MapsCounted
      <4>2. <<q, c.addr>> = m
        BY <1>8, <3>2, <4>1, OnlyMember
      <4> QED
        BY <1>10, <4>2
    <3> QED
      BY <1>2, <1>3, <1>5, <3>1, <3>3, PagerUnused
  <2>3. CASE g = ShmPager /\ refs # 1
    <3>1. UNCHANGED <<pages, free, lost>>
      BY <1>1, <2>3 DEF rm_map, unref_file
    <3>2. FramesOnce'
      BY <1>2, <3>1 DEF FramesOnce
    <3>3. EntriesAgree' /\ \A q \in Procs : q # p => ThreadInStep(q)'
      BY <1>2, <1>5, <3>1, Undisturbed DEF EntriesAgree
    <3> QED
      BY <3>1, <3>2, <3>3 DEF TypeOK
  <2> QED
    BY <2>1, <2>2, <2>3
<1>12. RegionsPlaced'
  <2>1. \A q \in Procs : RegionsOf(q)' \subseteq RegionsOf(q)
    BY <1>6
  <2>2. th'[p].region \notin regions'[p]
    BY <1>2, <1>4, <1>5, <1>9, RegionFacts
  <2>3. \A q \in Procs : th'[q].region \notin regions'[q]
    BY <1>2, <1>5, <2>2 DEF RegionsPlaced
  <2> QED
    BY <2>1, <2>3 DEF RegionsPlaced
<1>13. ThreadsInStep'
  <2>1. ThreadInStep(p)'
    BY <1>4, <1>5 DEF ThreadInStep
  <2> QED
    BY <1>11, <2>1 DEF ThreadsInStep
<1>14. LockHeld'
  <2>1. ~ th[p].rw
    BY <1>0 DEF ThreadsInStep, ThreadInStep
  <2>2. \A q \in Procs : th'[q].rw /\ ~ At(q, "lock")' <=> th[q].rw /\ ~ At(q, "lock")
    BY <1>4, <1>5, <2>1 DEF At
  <2> QED
    BY <1>2, <2>2 DEF LockHeld, TypeOK
<1>15. MapsCounted' /\ refs' \in Nat
  <2>1. ASSUME NEW h \in Pagers, NEW q \in Procs, NEW a \in Pages
        PROVE  <<q, a>> \in maps'[h] <=> \E c \in RegionsOf(q)' : c.addr = a /\ c.pager = h
    <3>1. <<q, a>> \in maps[h] <=> \E c \in RegionsOf(q) : c.addr = a /\ c.pager = h
      BY DEF MapsCounted
    <3>2. <<q, a>> \in maps'[h] <=> <<q, a>> \in maps[h] /\ ~ (h = g /\ q = p /\ a = r.addr)
      BY <1>7
    <3>3. \A c \in RegionsOf(p) : c.addr = r.addr => c = r
      BY <1>3 DEF RegionsPlaced
    <3>4. (\E c \in RegionsOf(q)' : c.addr = a /\ c.pager = h) <=>
            /\ \E c \in RegionsOf(q) : c.addr = a /\ c.pager = h
            /\ ~ (h = g /\ q = p /\ a = r.addr)
      BY <1>6, <3>3
    <3> QED
      BY <3>1, <3>2, <3>4
  <2>2. IsFiniteSet(fds) /\ IsFiniteSet(maps[ShmPager])
        /\ refs = Cardinality(fds) + Cardinality(maps[ShmPager])
    BY DEF MapsCounted
  <2>3. Cardinality(fds) \in Nat /\ Cardinality(maps[ShmPager]) \in Nat
    BY <2>2, FS_CardinalityType
  <2>4. CASE g = ShmPager
    <3>1. refs' = refs - 1
      BY <1>1, <2>4 DEF rm_map, unref_file
    <3>2. /\ IsFiniteSet(maps'[ShmPager])
          /\ Cardinality(maps'[ShmPager]) = Cardinality(maps[ShmPager]) - 1
          /\ Cardinality(maps'[ShmPager]) \in Nat
      BY <1>7, <1>8, <2>2, <2>4, FS_RemoveElement, FS_CardinalityType
    <3> QED
      BY <1>2, <2>1, <2>2, <2>3, <3>1, <3>2 DEF MapsCounted
  <2>5. CASE g # ShmPager
    <3>1. refs' = refs /\ maps'[ShmPager] = maps[ShmPager]
      BY <1>1, <1>7, <2>5 DEF rm_map, Pagers
    <3> QED
      BY <1>2, <2>1, <2>2, <2>3, <3>1 DEF MapsCounted
  <2> QED
    BY <2>4, <2>5
<1>16. TypeOK'
  BY <1>2, <1>4, <1>7, <1>11, <1>15 DEF TypeOK
<1> QED
  BY <1>11, <1>12, <1>13, <1>14, <1>15, <1>16

-----------------------------------------------------------------------------
(***************************************************************************)
(* The object and its descriptors, and the end of a process.               *)
(***************************************************************************)

\* Steps that change nothing but who holds descriptors, and the lock.
LEMMA DescriptorStep ==
  ASSUME IInv, UNCHANGED <<regions, entry, table, pages, maps, free, lost, th>>,
         fds \subseteq fds', fds' \subseteq Procs, refs' \in Nat,
         lock' \in Procs \cup {NoProc}, kept' \in BOOLEAN, LockHeld',
         IsFiniteSet(fds'), refs' = Cardinality(fds') + Cardinality(maps[ShmPager])
  PROVE  IInv'
<1> USE DEF IInv
<1>1. TypeOK' /\ FramesOnce'
  BY DEF TypeOK, FramesOnce
<1>2. \A q \in Procs : RegionsOf(q)' = RegionsOf(q)
  BY DEF RegionsOf
<1>3. RegionsPlaced' /\ MapsCounted'
  BY <1>2 DEF RegionsPlaced, MapsCounted
<1>4. EntriesAgree' /\ ThreadsInStep'
  BY Undisturbed DEF EntriesAgree, ThreadsInStep
<1> QED
  BY <1>1, <1>3, <1>4

LEMMA MakeShmStep ==
  ASSUME IInv, NEW p \in Procs, make_shm(p)
  PROVE  IInv'
<1> USE DEF IInv
<1>1. /\ refs = 0 /\ refs' = 1 /\ fds' = {p} /\ lock' = NoProc /\ kept' = FALSE
      /\ UNCHANGED <<regions, entry, table, pages, maps, free, lost, th>>
  BY DEF make_shm
<1>2. Cardinality(fds) \in Nat /\ Cardinality(maps[ShmPager]) \in Nat
  BY FS_CardinalityType DEF MapsCounted
<1>3. Cardinality(fds) = 0 /\ Cardinality(maps[ShmPager]) = 0
  BY <1>1, <1>2 DEF MapsCounted
<1>4. fds = {}
  BY <1>3, FS_EmptySet DEF MapsCounted
<1>5. LockHeld'
  BY <1>1, <1>4 DEF LockHeld, ThreadsInStep, ThreadInStep, At
<1>6. IsFiniteSet(fds') /\ Cardinality(fds') = 1
  BY <1>1, FS_Singleton
<1>7. /\ fds \subseteq fds' /\ fds' \subseteq Procs
      /\ lock' \in Procs \cup {NoProc} /\ kept' \in BOOLEAN
  BY <1>1, <1>4
<1>8. refs' \in Nat /\ refs' = Cardinality(fds') + Cardinality(maps[ShmPager])
  BY <1>1, <1>3, <1>6
<1> QED
  BY <1>1, <1>5, <1>6, <1>7, <1>8, DescriptorStep

LEMMA UseTokenStep ==
  ASSUME IInv, NEW p \in Procs, use_token(p)
  PROVE  IInv'
<1> USE DEF IInv
<1>1. /\ p \notin fds /\ refs' = refs + 1 /\ fds' = fds \cup {p}
      /\ UNCHANGED <<regions, entry, table, pages, maps, lock, kept, free, lost, th>>
  BY DEF use_token
<1>2. IsFiniteSet(fds') /\ Cardinality(fds') = Cardinality(fds) + 1
  BY <1>1, FS_AddElement DEF MapsCounted
<1>3. Cardinality(fds) \in Nat /\ Cardinality(maps[ShmPager]) \in Nat
  BY FS_CardinalityType DEF MapsCounted
<1>4. refs' = Cardinality(fds') + Cardinality(maps[ShmPager]) /\ refs' \in Nat
  BY <1>1, <1>2, <1>3 DEF MapsCounted
<1>5. LockHeld'
  BY <1>1 DEF LockHeld, At
<1> QED
  BY <1>1, <1>2, <1>4, <1>5, DescriptorStep DEF TypeOK

\* close(), or the close that process_exit() does.
LEMMA CloseStep ==
  ASSUME IInv, NEW p \in Procs, th[p].at = "user", close_fd(p)
  PROVE  IInv'
<1> USE DEF IInv
<1>1. /\ p \in fds /\ fds' = fds \ {p} /\ refs' = refs - 1
      /\ UNCHANGED <<regions, entry, table, maps, lock, kept, th>>
  BY DEF close_fd, unref_file
<1>2. ~ th[p].rw /\ th[p].region = NoRegion
  BY UserFacts
<1>3. ShmPager \in Pagers
  BY DEF Pagers
<1>4. /\ FramesOnce' /\ EntriesAgree'
      /\ \A q \in Procs : q # p => ThreadInStep(q)'
      /\ pages' \in [Pagers -> [PageOffsets -> Frames \cup {NoFrame}]]
      /\ free' \subseteq Frames /\ lost' \subseteq Frames
  <2>1. CASE refs = 1
    <3>1. delete_pager(ShmPager)
      BY <2>1 DEF close_fd, unref_file
    <3>2. maps[ShmPager] = {}
      BY <1>1, <2>1, LastReference
    <3>3. ASSUME NEW q \in Procs, NEW c \in regions[q], c.pager = ShmPager
          PROVE  FALSE
      <4>1. c \in RegionsOf(q) /\ c.addr \in Pages
        BY RegionFacts DEF RegionsOf
      <4>2. <<q, c.addr>> \in maps[ShmPager]
        BY <1>3, <3>3, <4>1 DEF MapsCounted
      <4> QED
        BY <3>2, <4>2
    <3> QED
      BY <1>1, <1>3, <3>1, <3>3, PagerUnused
  <2>2. CASE refs # 1
    <3>1. UNCHANGED <<pages, free, lost>>
      BY <2>2 DEF close_fd, unref_file
    <3>2. FramesOnce'
      BY <1>1, <3>1 DEF FramesOnce
    <3>3. EntriesAgree' /\ \A q \in Procs : q # p => ThreadInStep(q)'
      BY <1>1, <3>1, Undisturbed DEF EntriesAgree
    <3> QED
      BY <3>1, <3>2, <3>3 DEF TypeOK
  <2> QED
    BY <2>1, <2>2
<1>5. ThreadsInStep'
  <2>1. ThreadInStep(p)'
    BY <1>1, <1>2 DEF ThreadsInStep, ThreadInStep
  <2> QED
    BY <1>4, <2>1 DEF ThreadsInStep
<1>6. LockHeld'
  BY <1>1 DEF LockHeld, At
<1>7. \A q \in Procs : RegionsOf(q)' = RegionsOf(q)
  BY <1>1 DEF RegionsOf
<1>8. RegionsPlaced'
  BY <1>1, <1>7 DEF RegionsPlaced
<1>9. MapsCounted' /\ refs' \in Nat
  <2>1. IsFiniteSet(fds) /\ IsFiniteSet(maps[ShmPager])
        /\ refs = Cardinality(fds) + Cardinality(maps[ShmPager])
    BY DEF MapsCounted
  <2>2. Cardinality(fds) \in Nat /\ Cardinality(maps[ShmPager]) \in Nat
    BY <2>1, FS_CardinalityType
  <2>3. /\ IsFiniteSet(fds') /\ Cardinality(fds') = Cardinality(fds) - 1
        /\ Cardinality(fds') \in Nat
    BY <1>1, <2>1, FS_RemoveElement, FS_CardinalityType
  <2>4. refs' = Cardinality(fds') + Cardinality(maps'[ShmPager]) /\ refs' \in Nat
    BY <1>1, <2>1, <2>2, <2>3
  <2> QED
    BY <1>1, <1>7, <2>1, <2>3, <2>4 DEF MapsCounted
<1>10. TypeOK'
  BY <1>1, <1>4, <1>9 DEF TypeOK
<1> QED
  BY <1>4, <1>5, <1>6, <1>8, <1>9, <1>10

LEMMA DeletePagedirStep ==
  ASSUME IInv, NEW p \in Procs, delete_pagedir(p)
  PROVE  IInv'
<1> USE DEF IInv
<1> DEFINE t == [Idle EXCEPT !.at = "dead"]
<1>1. /\ th[p].at = "user" /\ regions[p] = {}
      /\ free' = free \cup ({table[p]} \ {NoFrame})
      /\ table' = [table EXCEPT ![p] = NoFrame]
      /\ th' = [th EXCEPT ![p] = t]
      /\ UNCHANGED <<regions, entry, pages, maps, lock, kept, refs, fds, lost>>
  BY DEF delete_pagedir, At
<1>2. ~ th[p].rw /\ th[p].region = NoRegion
  BY <1>1, UserFacts
<1>3. /\ t \in Threads /\ t.region = NoRegion /\ ~ t.rw /\ t.at = "dead" /\ ~ t.exiting
  BY ThreadFacts DEF Threads, Idle
<1> HIDE DEF t
<1>4. th'[p] = t /\ \A q \in Procs : q # p => th'[q] = th[q]
  BY <1>1 DEF TypeOK
<1>5. /\ table' \in [Procs -> Frames \cup {NoFrame}] /\ table'[p] = NoFrame
      /\ \A q \in Procs : q # p => table'[q] = table[q]
      /\ free' \subseteq Frames /\ NoFrame \notin Frames
  BY <1>1, MemoryAssumption DEF TypeOK
<1>6. FramesOnce'
  <2>1. free' \cap lost' = {}
    BY <1>1 DEF FramesOnce
  <2>2. \A q \in Procs : table'[q] # NoFrame =>
          /\ table'[q] \notin free' \cup lost'
          /\ \A u \in Procs : table'[u] = table'[q] => u = q
          /\ \A h \in Pagers, n \in PageOffsets : pages'[h][n] # table'[q]
    BY <1>1, <1>5 DEF FramesOnce
  <2>3. \A h \in Pagers, n \in PageOffsets : pages'[h][n] # NoFrame =>
          /\ pages'[h][n] \notin free' \cup lost'
          /\ \A k \in Pagers, m \in PageOffsets : pages'[k][m] = pages'[h][n] => k = h /\ m = n
    BY <1>1 DEF FramesOnce
  <2>4. \A e \in Frames :
          \/ e \in free' \cup lost'
          \/ \E q \in Procs : table'[q] = e
          \/ \E h \in Pagers, n \in PageOffsets : pages'[h][n] = e
    BY <1>1, <1>5 DEF FramesOnce
  <2> QED
    BY <2>1, <2>2, <2>3, <2>4 DEF FramesOnce
<1>7. EntriesAgree'
  BY <1>1, Undisturbed DEF EntriesAgree
<1>8. ThreadsInStep'
  <2>1. \A q \in Procs : q # p => ThreadInStep(q)'
    BY <1>1, <1>4, Undisturbed
  <2>2. ThreadInStep(p)'
    BY <1>3, <1>4 DEF ThreadInStep
  <2> QED
    BY <2>1, <2>2 DEF ThreadsInStep
<1>9. LockHeld'
  <2>1. \A q \in Procs : th'[q].rw /\ ~ At(q, "lock")' <=> th[q].rw /\ ~ At(q, "lock")
    BY <1>2, <1>3, <1>4 DEF At
  <2> QED
    BY <1>1, <2>1 DEF LockHeld, TypeOK
<1>10. RegionsPlaced' /\ MapsCounted'
  BY <1>1, <1>2, <1>3, <1>4, RegionsKept
<1>11. TypeOK'
  BY <1>1, <1>3, <1>5 DEF TypeOK
<1> QED
  BY <1>6, <1>7, <1>8, <1>9, <1>10, <1>11

-----------------------------------------------------------------------------
(***************************************************************************)
(* The theorems.                                                           *)
(***************************************************************************)

\* Every step keeps the invariant.
LEMMA NextHolds == IInv /\ [Next]_vars => IInv'
<1> SUFFICES ASSUME IInv, [Next]_vars PROVE IInv'
  OBVIOUS
<1>1. CASE UNCHANGED vars
  <2>1. \A q \in Procs : RegionsOf(q)' = RegionsOf(q)
    BY <1>1 DEF vars, RegionsOf
  <2>2. TypeOK' /\ FramesOnce' /\ LockHeld'
    BY <1>1 DEF IInv, vars, TypeOK, FramesOnce, LockHeld, At
  <2>3. RegionsPlaced' /\ MapsCounted'
    BY <1>1, <2>1 DEF IInv, vars, RegionsPlaced, MapsCounted
  <2>4. EntriesAgree' /\ ThreadsInStep'
    BY <1>1, Undisturbed DEF IInv, vars, EntriesAgree, ThreadsInStep
  <2> QED
    BY <2>2, <2>3, <2>4 DEF IInv
<1>2. ASSUME NEW p \in Procs,
             \/ mmap(p) \/ mmap_file(p) \/ mchmap(p) \/ munmap(p) \/ rm_map(p)
             \/ make_shm(p) \/ use_token(p) \/ close(p)
             \/ Touch(p) \/ get_frame(p) \/ pd_map_page(p)
             \/ do_rw(p) \/ rw_lock(p) \/ CopyFaults(p) \/ rw_end(p)
             \/ exit(p) \/ ExitFds(p) \/ ExitRegions(p) \/ delete_pagedir(p)
      PROVE  IInv'
  <2>1. CASE mmap(p) \/ mmap_file(p)
    BY <2>1, MmapStep
  <2>2. CASE mchmap(p)
    BY <2>2, MchmapStep
  <2>3. CASE munmap(p) \/ ExitRegions(p)
    BY <2>3, UnmapStep DEF munmap, ExitRegions, InUser, At
  <2>4. CASE rm_map(p)
    BY <2>4, RmMapStep
  <2>5. CASE make_shm(p)
    BY <2>5, MakeShmStep
  <2>6. CASE use_token(p)
    BY <2>6, UseTokenStep
  <2>7. CASE close(p) \/ ExitFds(p)
    BY <2>7, CloseStep DEF close, ExitFds, InUser, At
  <2>8. CASE Touch(p)
    BY <2>8, TouchStep
  <2>9. CASE get_frame(p)
    BY <2>9, GetFrameStep
  <2>10. CASE pd_map_page(p)
    BY <2>10, MapPageStep
  <2>11. CASE do_rw(p)
    BY <2>11, DoRwStep
  <2>12. CASE rw_lock(p)
    BY <2>12, RwLockStep
  <2>13. CASE CopyFaults(p)
    BY <2>13, CopyFaultsStep
  <2>14. CASE rw_end(p)
    BY <2>14, RwEndStep
  <2>15. CASE exit(p)
    BY <2>15, ExitStep
  <2>16. CASE delete_pagedir(p)
    BY <2>16, DeletePagedirStep
  <2> QED
    BY <1>2, <2>1, <2>2, <2>3, <2>4, <2>5, <2>6, <2>7, <2>8, <2>9, <2>10, <2>11,
       <2>12, <2>13, <2>14, <2>15, <2>16
<1> QED
  BY <1>1, <1>2 DEF Next

\* The inductive invariant: regions, page table entries, pagers, counts and
\* the lock agree in every reachable state of process.c, pager.c and ipc.c.
THEOREM InvariantHolds == Spec => []IInv
<1>1. Init => IInv
  BY InitHolds
<1>2. IInv /\ [Next]_vars => IInv'
  BY NextHolds
<1> QED
  BY <1>1, <1>2, PTL DEF Spec

\* Every frame has one owner, and the references to the object are its
\* descriptors and regions, whatever processes map, fault on, close or exit
\* from (munmap_inner(), delete_pager(), page_release()).
THEOREM MemoryIsAccounted == Spec => []FramesExact
<1>1. IInv => FramesExact
  BY InvariantIsEnough
<1> QED
  BY <1>1, InvariantHolds, PTL

\* A page that is mapped is the present page of a region of the process:
\* no use after free of a frame through an entry left behind.
THEOREM MappingsAreFresh == Spec => []NoStaleMapping
<1>1. IInv => NoStaleMapping
  BY InvariantIsEnough
<1> QED
  BY <1>1, InvariantHolds, PTL

\* proc_usermem_pf() never panics on a page that is present.
THEOREM FaultsAreExpected == Spec => []NoUnexpectedFault
<1>1. IInv => NoUnexpectedFault
  BY InvariantIsEnough
<1> QED
  BY <1>1, InvariantHolds, PTL

\* The object's lock is held only inside pager_do_rw(), which ends by
\* returning it, but for the early return of pager.c:422.
THEOREM LocksComeBack == Spec => []LockIsReturned
<1>1. IInv => LockIsReturned
  BY InvariantIsEnough
<1> QED
  BY <1>1, InvariantHolds, PTL

-----------------------------------------------------------------------------
(***************************************************************************)
(* Page directories (module PageDirs), for any number of them, of threads  *)
(* and of page tables.                                                     *)
(*                                                                         *)
(* PagingExact alone is not inductive: it speaks of the directories there  *)
(* are, and one being made is already written to; and a thread that waits  *)
(* for a frame must still find its directory when it has one.              *)
(***************************************************************************)
Jobs == {Pd!Idle} \cup [op : {"map"}, e : Pd!Entries, p : TablePages]
        \cup [op : {"create"}, d : ProcessPds, todo : SUBSET KernelTables]

PdTypes ==
  /\ pd_page \in [Pd!Dirs -> [Pd!Entries -> TableFrames \cup {NoTable}]]
  /\ pd_made \in SUBSET Pd!Dirs /\ KernelPd \in pd_made
  /\ pd_mapped \in [TableFrames -> SUBSET TablePages]
  /\ pd_free \in SUBSET TableFrames
  /\ pd_inuse \in SUBSET (KernelTables \X TablePages)
  /\ pd_cr3 \in [PdThreads -> pd_made]
  /\ pd_paging \in [PdThreads -> Jobs]

InUseIsMapped == \A e \in KernelTables, p \in TablePages : <<e, p>> \in pd_inuse =>
  pd_page[KernelPd][e] # NoTable /\ p \in pd_mapped[pd_page[KernelPd][e]]
NamesItself == \A d \in Pd!Dirs : pd_itself[d] = d
KernelsTables == \A d \in Pd!Dirs, e \in KernelTables :
  pd_page[d][e] \in {NoTable, pd_page[KernelPd][e]}
TablesDiffer == \A e, g \in KernelTables :
  pd_page[KernelPd][e] = pd_page[KernelPd][g] => e = g \/ pd_page[KernelPd][e] = NoTable
UserTablesDiffer == \A c, d \in Pd!Dirs :
  pd_page[c][UserTable] = pd_page[d][UserTable] => c = d \/ pd_page[c][UserTable] = NoTable
UserTablesOwn == \A d \in Pd!Dirs, e \in KernelTables :
  pd_page[d][UserTable] # NoTable => pd_page[d][UserTable] # pd_page[KernelPd][e]
UsedNotFree == \A d \in Pd!Dirs, e \in Pd!Entries : pd_page[d][e] \notin pd_free
KernelHasNoUser == pd_page[KernelPd][UserTable] = NoTable
UserMapsOwn == \A t \in PdThreads : pd_paging[t].op = "map" /\ pd_paging[t].e = UserTable =>
  pd_cr3[t] # KernelPd

TablesExact ==
  /\ PdTypes /\ InUseIsMapped /\ NamesItself /\ KernelsTables /\ TablesDiffer
  /\ UserTablesDiffer /\ UserTablesOwn /\ UsedNotFree /\ KernelHasNoUser /\ UserMapsOwn

PdInv == "panic" \notin pd_broken /\ (pd_broken = {} => TablesExact)

\* Nothing but the tables' contents, and not what the regions of the kernel use.
LEMMA PdBegins ==
  ASSUME Pd!PageDirsAssumption, Pd!Init
  PROVE  PdInv
<1>1. PICK n : n = [e \in Pd!Entries |-> NoTable]
  OBVIOUS
<1>2. n \in [Pd!Entries -> TableFrames \cup {NoTable}] /\ \A e \in Pd!Entries : n[e] = NoTable
  BY <1>1
<1>3. /\ pd_page = [d \in Pd!Dirs |-> n] /\ pd_itself = [d \in Pd!Dirs |-> d]
      /\ pd_made = {KernelPd} /\ pd_mapped = [f \in TableFrames |-> {}]
      /\ pd_free = TableFrames /\ pd_inuse = {} /\ pd_cr3 = [t \in PdThreads |-> KernelPd]
      /\ pd_paging = [t \in PdThreads |-> Pd!Idle] /\ pd_broken = {}
  BY <1>1 DEF Pd!Init
<1>4. \A d \in Pd!Dirs : pd_page[d] = n
  BY <1>3
<1>5. KernelPd \in Pd!Dirs /\ UserTable \in Pd!Entries /\ KernelTables \subseteq Pd!Entries
  BY DEF Pd!Dirs, Pd!Entries
<1>6. PdTypes
  BY <1>2, <1>3, <1>5 DEF PdTypes, Jobs
<1>7. InUseIsMapped /\ NamesItself
  BY <1>3 DEF InUseIsMapped, NamesItself
<1>8. \A d \in Pd!Dirs, e \in Pd!Entries : pd_page[d][e] = NoTable
  BY <1>2, <1>4
<1>9. KernelsTables /\ TablesDiffer /\ UserTablesDiffer /\ UserTablesOwn /\ KernelHasNoUser
  BY <1>5, <1>8 DEF KernelsTables, TablesDiffer, UserTablesDiffer, UserTablesOwn, KernelHasNoUser
<1>10. UsedNotFree
  BY <1>3, <1>8 DEF UsedNotFree, Pd!PageDirsAssumption
<1>11. UserMapsOwn
  <2>1. Pd!Idle.op = "none"
    BY DEF Pd!Idle
  <2> QED
    BY <1>3, <2>1 DEF UserMapsOwn
<1> QED
  BY <1>3, <1>6, <1>7, <1>9, <1>10, <1>11 DEF PdInv, TablesExact

\* The directory a thread finds is its own.
LEMMA FindsOwn ==
  ASSUME TablesExact, NEW t \in PdThreads
  PROVE  /\ Pd!current_pd(t) = pd_cr3[t] /\ pd_itself[pd_cr3[t]] = pd_cr3[t]
         /\ pd_cr3[t] \in Pd!Dirs /\ pd_cr3[t] \in pd_made
  BY DEF TablesExact, PdTypes, NamesItself, Pd!current_pd

\* The contents of one table change, and the pages in use with them.
LEMMA TouchKeeps ==
  ASSUME Pd!PageDirsAssumption, TablesExact, pd_broken = {},
         NEW t \in PdThreads, NEW e \in Pd!Entries, NEW p \in TablePages, NEW present \in BOOLEAN,
         Pd!Touch(t, e, p, present),
         pd_inuse' = IF e \notin KernelTables THEN pd_inuse
                     ELSE IF present THEN pd_inuse \cup {<<e, p>>} ELSE pd_inuse \ {<<e, p>>},
         UNCHANGED <<pd_page, pd_made, pd_free, pd_cr3, pd_paging>>
  PROVE  PdInv'
<1>0. /\ PdTypes /\ InUseIsMapped /\ NamesItself /\ KernelsTables /\ TablesDiffer
      /\ UserTablesDiffer /\ UserTablesOwn /\ UsedNotFree /\ KernelHasNoUser /\ UserMapsOwn
  BY DEF TablesExact
<1>1. CASE Pd!Missing(t, e)
  BY <1>1 DEF Pd!Touch, Pd!MirrorFault, PdInv
<1>2. CASE ~Pd!Missing(t, e)
  <2>1. PICK d \in Pd!Dirs : d = pd_cr3[t] /\ pd_itself[pd_cr3[t]] = d
    BY FindsOwn
  <2>2. PICK f \in TableFrames : f = pd_page[d][e]
    BY <1>0, <1>2, <2>1 DEF PdTypes, Pd!Missing
  <2>3. /\ UNCHANGED <<pd_itself, pd_broken>>
        /\ pd_mapped' = [pd_mapped EXCEPT ![f] = IF present THEN @ \cup {p} ELSE @ \ {p}]
    BY <1>2, <2>1, <2>2 DEF Pd!Touch
  <2>4. /\ pd_mapped' \in [TableFrames -> SUBSET TablePages]
        /\ pd_mapped'[f] = IF present THEN pd_mapped[f] \cup {p} ELSE pd_mapped[f] \ {p}
        /\ \A g \in TableFrames \ {f} : pd_mapped'[g] = pd_mapped[g]
    BY <1>0, <2>3 DEF PdTypes
  <2>5. f # NoTable /\ KernelPd \in Pd!Dirs
    BY DEF Pd!PageDirsAssumption, Pd!Dirs
  <2>6. e \in KernelTables => pd_page[KernelPd][e] = f
    BY <1>0, <2>2, <2>5 DEF KernelsTables
  <2>7. e \notin KernelTables => \A g \in KernelTables : pd_page[KernelPd][g] # f
    BY <1>0, <2>2, <2>5 DEF UserTablesOwn, Pd!Entries
  <2>8. InUseIsMapped'
    <3> SUFFICES ASSUME NEW g \in KernelTables, NEW q \in TablePages, <<g, q>> \in pd_inuse'
                 PROVE  /\ pd_page[KernelPd][g] # NoTable
                        /\ q \in pd_mapped'[pd_page[KernelPd][g]]
      BY DEF InUseIsMapped
    <3>1. \/ <<g, q>> \in pd_inuse /\ (present \/ g # e \/ q # p \/ e \notin KernelTables)
          \/ g = e /\ q = p /\ present /\ e \in KernelTables
      OBVIOUS
    <3>2. CASE g = e /\ q = p /\ present /\ e \in KernelTables
      BY <2>4, <2>5, <2>6, <3>2
    <3>3. CASE <<g, q>> \in pd_inuse /\ (present \/ g # e \/ q # p \/ e \notin KernelTables)
      <4>1. PICK h \in TableFrames : h = pd_page[KernelPd][g] /\ h # NoTable /\ q \in pd_mapped[h]
        BY <1>0, <2>5, <3>3 DEF InUseIsMapped, PdTypes, Pd!Entries
      <4>2. CASE h # f
        BY <2>4, <4>1, <4>2
      <4>3. CASE h = f
        <5>1. e \in KernelTables /\ g = e
          BY <1>0, <2>6, <2>7, <4>1, <4>3 DEF TablesDiffer
        <5> QED
          BY <2>4, <3>3, <4>1, <4>3, <5>1
      <4> QED
        BY <4>2, <4>3
    <3> QED
      BY <3>1, <3>2, <3>3
  <2>9. PdTypes'
    <3>1. pd_inuse' \in SUBSET (KernelTables \X TablePages)
      BY <1>0 DEF PdTypes
    <3> QED
      BY <1>0, <2>4, <3>1 DEF PdTypes
  <2> QED
    BY <1>0, <2>3, <2>8, <2>9
       DEF PdInv, TablesExact, NamesItself, KernelsTables, TablesDiffer, UserTablesDiffer,
           UserTablesOwn, UsedNotFree, KernelHasNoUser, UserMapsOwn
<1> QED
  BY <1>1, <1>2

\* pd_map_page() and pd_unmap_page() with a table, and a use of a page.
LEMMA MapsKeep ==
  ASSUME Pd!PageDirsAssumption, TablesExact, pd_broken = {},
         NEW t \in PdThreads, NEW e \in Pd!Entries, NEW p \in TablePages,
         Pd!Map(t, e, p) \/ Pd!Unmap(t, e, p)
  PROVE  PdInv'
<1>1. CASE Pd!Map(t, e, p)
  BY <1>1, TouchKeeps DEF Pd!Map, Pd!Now
<1>2. CASE Pd!Unmap(t, e, p)
  BY <1>2, TouchKeeps DEF Pd!Unmap, Pd!Before
<1> QED
  BY <1>1, <1>2

\* Steps that change no table: what a thread is doing, its directory, or which
\* directories there are.
LEMMA TablesStay ==
  ASSUME Pd!PageDirsAssumption, TablesExact,
         UNCHANGED <<pd_page, pd_itself, pd_mapped, pd_free, pd_inuse, pd_broken>>,
         PdTypes', UserMapsOwn', pd_broken = {}
  PROVE  PdInv'
BY DEF PdInv, TablesExact, InUseIsMapped, NamesItself, KernelsTables, TablesDiffer,
       UserTablesDiffer, UserTablesOwn, UsedNotFree, KernelHasNoUser

\* A thread begins or ends what it does.
LEMMA GoesOn ==
  ASSUME TablesExact, NEW t \in PdThreads, NEW j \in Jobs, Pd!Go(t, j),
         UNCHANGED <<pd_made, pd_mapped, pd_inuse, pd_cr3>>,
         j.op = "map" /\ j.e = UserTable => pd_cr3[t] # KernelPd,
         pd_free' \in SUBSET TableFrames,
         pd_page' \in [Pd!Dirs -> [Pd!Entries -> TableFrames \cup {NoTable}]]
  PROVE  PdTypes' /\ UserMapsOwn'
<1>1. PdTypes /\ UserMapsOwn
  BY DEF TablesExact
<1>2. /\ pd_paging' \in [PdThreads -> Jobs] /\ pd_paging'[t] = j
      /\ \A u \in PdThreads \ {t} : pd_paging'[u] = pd_paging[u]
  BY <1>1 DEF PdTypes, Pd!Go
<1>3. PdTypes'
  BY <1>1, <1>2 DEF PdTypes
<1>4. UserMapsOwn'
  BY <1>1, <1>2 DEF UserMapsOwn
<1> QED
  BY <1>3, <1>4

LEMMA WaitsForFrame ==
  ASSUME Pd!PageDirsAssumption, TablesExact, pd_broken = {},
         NEW t \in PdThreads, NEW e \in Pd!Entries, NEW p \in TablePages, Pd!MapNew(t, e, p)
  PROVE  PdInv'
<1>1. PICK j : j = [op |-> "map", e |-> e, p |-> p]
  OBVIOUS
<1>2. j \in Jobs /\ j.e = e
  BY <1>1 DEF Jobs
<1>3. PdTypes' /\ UserMapsOwn'
  <2>1. /\ Pd!Go(t, j) /\ (e = UserTable => pd_cr3[t] # KernelPd)
        /\ UNCHANGED <<pd_page, pd_made, pd_mapped, pd_free, pd_inuse, pd_cr3>>
    BY <1>1 DEF Pd!MapNew
  <2>2. /\ pd_free' \in SUBSET TableFrames
        /\ pd_page' \in [Pd!Dirs -> [Pd!Entries -> TableFrames \cup {NoTable}]]
    BY <2>1 DEF TablesExact, PdTypes
  <2> QED
    BY <1>2, <2>1, <2>2, GoesOn
<1> QED
  BY <1>3, TablesStay DEF Pd!MapNew

LEMMA IdleIsJob == Pd!Idle \in Jobs /\ Pd!Idle.op = "none"
  BY DEF Jobs, Pd!Idle

LEMMA FrameFails ==
  ASSUME Pd!PageDirsAssumption, TablesExact, pd_broken = {}, NEW t \in PdThreads, Pd!MapFails(t)
  PROVE  PdInv'
<1>1. PdTypes' /\ UserMapsOwn'
  <2>1. /\ Pd!Go(t, Pd!Idle)
        /\ UNCHANGED <<pd_page, pd_made, pd_mapped, pd_free, pd_inuse, pd_cr3>>
    BY DEF Pd!MapFails
  <2>2. /\ pd_free' \in SUBSET TableFrames
        /\ pd_page' \in [Pd!Dirs -> [Pd!Entries -> TableFrames \cup {NoTable}]]
    BY <2>1 DEF TablesExact, PdTypes
  <2> QED
    BY <2>1, <2>2, IdleIsJob, GoesOn
<1> QED
  BY <1>1, TablesStay DEF Pd!MapFails

\* switch_pagedir()
LEMMA Switches ==
  ASSUME Pd!PageDirsAssumption, TablesExact, pd_broken = {}, NEW t \in PdThreads,
         NEW d, Pd!Switch(t, d)
  PROVE  PdInv'
<1>1. /\ UNCHANGED <<pd_page, pd_itself, pd_made, pd_mapped, pd_free, pd_inuse, pd_paging, pd_broken>>
      /\ d \in pd_made /\ pd_cr3' = [pd_cr3 EXCEPT ![t] = d] /\ pd_paging[t] = Pd!Idle
  BY DEF Pd!Switch
<1>2. PdTypes /\ UserMapsOwn
  BY DEF TablesExact
<1>3. /\ pd_cr3' \in [PdThreads -> pd_made]
      /\ \A u \in PdThreads \ {t} : pd_cr3'[u] = pd_cr3[u]
  BY <1>1, <1>2 DEF PdTypes
<1>4. PdTypes'
  BY <1>1, <1>2, <1>3 DEF PdTypes
<1>5. UserMapsOwn'
  BY <1>1, <1>2, <1>3, IdleIsJob DEF UserMapsOwn
<1> QED
  BY <1>1, <1>4, <1>5, TablesStay

\* create_pagedir() is done.
LEMMA Created ==
  ASSUME Pd!PageDirsAssumption, TablesExact, pd_broken = {}, NEW t \in PdThreads, Pd!CreateEnd(t)
  PROVE  PdInv'
<1>1. PdTypes /\ UserMapsOwn /\ NamesItself
  BY DEF TablesExact
<1>2. PICK d : d = pd_paging[t].d
  OBVIOUS
<1>3. d \in Pd!Dirs
  BY <1>1, <1>2 DEF PdTypes, Jobs, Pd!CreateEnd, Pd!Dirs, Pd!Idle
<1>4. /\ UNCHANGED <<pd_page, pd_mapped, pd_free, pd_inuse, pd_cr3, pd_broken>>
      /\ pd_made' = pd_made \cup {d} /\ pd_paging' = [pd_paging EXCEPT ![t] = Pd!Idle]
      /\ pd_itself' = [pd_itself EXCEPT ![d] = d]
  BY <1>2 DEF Pd!CreateEnd, Pd!Go
<1>5. /\ pd_paging' \in [PdThreads -> Jobs] /\ pd_paging'[t] = Pd!Idle
      /\ \A u \in PdThreads \ {t} : pd_paging'[u] = pd_paging[u]
  BY <1>1, <1>4, IdleIsJob DEF PdTypes
<1>6. PdTypes'
  BY <1>1, <1>3, <1>4, <1>5 DEF PdTypes
<1>7. UserMapsOwn'
  BY <1>1, <1>4, <1>5, IdleIsJob DEF UserMapsOwn
<1>8. NamesItself'
  <2>1. ASSUME NEW c \in Pd!Dirs PROVE pd_itself'[c] = c
    <3>1. pd_itself[c] = c
      BY <1>1 DEF NamesItself
    <3> QED
      BY <1>4, <3>1
  <2> QED
    BY <2>1 DEF NamesItself, Pd!Dirs
<1> QED
  BY <1>4, <1>6, <1>7, <1>8
     DEF PdInv, TablesExact, InUseIsMapped, KernelsTables, TablesDiffer,
         UserTablesDiffer, UserTablesOwn, UsedNotFree, KernelHasNoUser

\* One entry of one directory is written.
Writes(d, e, f) == pd_page' = [pd_page EXCEPT ![d][e] = f]

LEMMA EntrySet ==
  ASSUME PdTypes, NEW d \in Pd!Dirs, NEW e \in Pd!Entries, NEW f \in TableFrames \cup {NoTable},
         Writes(d, e, f)
  PROVE  /\ pd_page' \in [Pd!Dirs -> [Pd!Entries -> TableFrames \cup {NoTable}]]
         /\ pd_page'[d][e] = f
         /\ \A c \in Pd!Dirs, g \in Pd!Entries : c # d \/ g # e => pd_page'[c][g] = pd_page[c][g]
<1>1. PICK n : n = [pd_page[d] EXCEPT ![e] = f]
  OBVIOUS
<1>2. pd_page[d] \in [Pd!Entries -> TableFrames \cup {NoTable}]
  BY DEF PdTypes
<1>3. /\ n \in [Pd!Entries -> TableFrames \cup {NoTable}] /\ n[e] = f
      /\ \A g \in Pd!Entries \ {e} : n[g] = pd_page[d][g]
  BY <1>1, <1>2
<1>4. pd_page' = [pd_page EXCEPT ![d] = n]
  BY <1>1 DEF Writes
<1>5. /\ pd_page' \in [Pd!Dirs -> [Pd!Entries -> TableFrames \cup {NoTable}]] /\ pd_page'[d] = n
      /\ \A c \in Pd!Dirs \ {d} : pd_page'[c] = pd_page[c]
  BY <1>3, <1>4 DEF PdTypes
<1> QED
  BY <1>3, <1>5

\* An entry of kernel_pd is copied, by the page fault handler or create_pagedir().
LEMMA CopyKeeps ==
  ASSUME Pd!PageDirsAssumption, TablesExact, pd_broken = {},
         NEW d \in Pd!Dirs, NEW e \in KernelTables,
         pd_page' = [pd_page EXCEPT ![d][e] = pd_page[KernelPd][e]],
         UNCHANGED <<pd_itself, pd_mapped, pd_free, pd_inuse, pd_broken>>,
         PdTypes', UserMapsOwn'
  PROVE  PdInv'
<1>0. /\ PdTypes /\ InUseIsMapped /\ NamesItself /\ KernelsTables /\ TablesDiffer
      /\ UserTablesDiffer /\ UserTablesOwn /\ UsedNotFree /\ KernelHasNoUser
  BY DEF TablesExact
<1>1. /\ KernelPd \in Pd!Dirs /\ e \in Pd!Entries /\ UserTable \in Pd!Entries
      /\ KernelTables \subseteq Pd!Entries /\ UserTable # e
  BY DEF Pd!Dirs, Pd!Entries, Pd!PageDirsAssumption
<1>2. PICK f \in TableFrames \cup {NoTable} : f = pd_page[KernelPd][e]
  BY <1>0, <1>1 DEF PdTypes
<1>3. /\ pd_page'[d][e] = f
      /\ \A c \in Pd!Dirs, g \in Pd!Entries : c # d \/ g # e => pd_page'[c][g] = pd_page[c][g]
  <2>1. Writes(d, e, f)
    BY <1>2 DEF Writes
  <2> QED
    BY <1>0, <1>1, <1>2, <2>1, EntrySet
<1>4. \A g \in Pd!Entries : pd_page'[KernelPd][g] = pd_page[KernelPd][g]
  BY <1>1, <1>2, <1>3
<1>5. \A c \in Pd!Dirs : pd_page'[c][UserTable] = pd_page[c][UserTable]
  BY <1>1, <1>3
<1>6. InUseIsMapped' /\ NamesItself' /\ TablesDiffer' /\ KernelHasNoUser'
  BY <1>0, <1>1, <1>4 DEF InUseIsMapped, NamesItself, TablesDiffer, KernelHasNoUser
<1>7. UserTablesDiffer' /\ UserTablesOwn'
  BY <1>0, <1>1, <1>4, <1>5 DEF UserTablesDiffer, UserTablesOwn
<1>8. KernelsTables'
  BY <1>0, <1>1, <1>2, <1>3, <1>4 DEF KernelsTables
<1>9. UsedNotFree'
  BY <1>0, <1>1, <1>2, <1>3 DEF UsedNotFree
<1> QED
  BY <1>6, <1>7, <1>8, <1>9 DEF PdInv, TablesExact

\* The handler has something to copy whenever a page in use is not reached.
LEMMA AccessKeeps ==
  ASSUME Pd!PageDirsAssumption, TablesExact, pd_broken = {},
         NEW t \in PdThreads, NEW e \in KernelTables, NEW p \in TablePages, Pd!Access(t, e, p)
  PROVE  PdInv'
<1>1. PICK d \in Pd!Dirs : d = pd_cr3[t] /\ d = Pd!current_pd(t)
  BY FindsOwn
<1>2. pd_page[d][e] # pd_page[KernelPd][e]
  <2> SUFFICES ASSUME pd_page[d][e] = pd_page[KernelPd][e] PROVE FALSE
    OBVIOUS
  <2>1. pd_page[KernelPd][e] # NoTable /\ p \in pd_mapped[pd_page[KernelPd][e]]
    BY DEF TablesExact, InUseIsMapped, Pd!Access
  <2> QED
    BY <1>1, <2>1 DEF Pd!Access, Pd!Reaches
<1>3. /\ pd_page' = [pd_page EXCEPT ![d][e] = pd_page[KernelPd][e]]
      /\ UNCHANGED <<pd_itself, pd_made, pd_mapped, pd_free, pd_inuse, pd_cr3, pd_paging, pd_broken>>
  BY <1>1, <1>2 DEF Pd!Access
<1>4. PdTypes /\ UserMapsOwn
  BY DEF TablesExact
<1>5. pd_page[KernelPd][e] \in TableFrames \cup {NoTable} /\ e \in Pd!Entries
  BY <1>4 DEF PdTypes, Pd!Dirs, Pd!Entries
<1>6. pd_page' \in [Pd!Dirs -> [Pd!Entries -> TableFrames \cup {NoTable}]]
  BY <1>3, <1>4, <1>5, EntrySet DEF Writes
<1>7. PdTypes' /\ UserMapsOwn'
  BY <1>3, <1>4, <1>6 DEF PdTypes, UserMapsOwn
<1> QED
  BY <1>3, <1>7, CopyKeeps

LEMMA CreateCopyKeeps ==
  ASSUME Pd!PageDirsAssumption, TablesExact, pd_broken = {}, NEW t \in PdThreads,
         Pd!CreateCopy(t)
  PROVE  PdInv'
<1>1. PdTypes
  BY DEF TablesExact
<1>2. PICK c \in [op : {"create"}, d : ProcessPds, todo : SUBSET KernelTables] : c = pd_paging[t]
  BY <1>1, IdleIsJob DEF PdTypes, Jobs, Pd!CreateCopy
<1>3. PICK e \in KernelTables :
        /\ pd_page' = [pd_page EXCEPT ![c.d][e] = pd_page[KernelPd][e]]
        /\ Pd!Go(t, [c EXCEPT !.todo = @ \ {e}])
  BY <1>2 DEF Pd!CreateCopy
<1>4. PICK j : j = [c EXCEPT !.todo = @ \ {e}]
  OBVIOUS
<1>5. j \in Jobs /\ j.op = "create"
  BY <1>2, <1>4 DEF Jobs
<1>6. UNCHANGED <<pd_itself, pd_made, pd_mapped, pd_free, pd_inuse, pd_cr3, pd_broken>>
  BY DEF Pd!CreateCopy
<1>7. c.d \in Pd!Dirs /\ e \in Pd!Entries /\ pd_page[KernelPd][e] \in TableFrames \cup {NoTable}
  BY <1>1 DEF PdTypes, Pd!Dirs, Pd!Entries
<1>8. pd_page' \in [Pd!Dirs -> [Pd!Entries -> TableFrames \cup {NoTable}]]
  BY <1>1, <1>3, <1>7, EntrySet DEF Writes
<1>9. PdTypes' /\ UserMapsOwn'
  <2>1. pd_free' \in SUBSET TableFrames
    BY <1>1, <1>6 DEF PdTypes
  <2> QED
    BY <1>3, <1>4, <1>5, <1>6, <1>8, <2>1, GoesOn
<1> QED
  BY <1>3, <1>6, <1>7, <1>9, CopyKeeps

\* A directory is emptied: one that is being made, or one that is deleted, whose
\* table for the user half is free from now on.
LEMMA EmptyKeeps ==
  ASSUME Pd!PageDirsAssumption, TablesExact, pd_broken = {}, NEW d \in ProcessPds,
         pd_page' = [pd_page EXCEPT ![d] = [e \in Pd!Entries |-> NoTable]],
         UNCHANGED <<pd_itself, pd_inuse, pd_broken>>,
         pd_free' \subseteq pd_free \cup {pd_page[d][UserTable]},
         \A f \in TableFrames : f # pd_page[d][UserTable] => pd_mapped'[f] = pd_mapped[f],
         pd_page[d][UserTable] = NoTable => pd_mapped' = pd_mapped,
         PdTypes', UserMapsOwn'
  PROVE  PdInv'
<1>0. /\ PdTypes /\ InUseIsMapped /\ NamesItself /\ KernelsTables /\ TablesDiffer
      /\ UserTablesDiffer /\ UserTablesOwn /\ UsedNotFree /\ KernelHasNoUser
  BY DEF TablesExact
<1>1. /\ KernelPd \in Pd!Dirs /\ d \in Pd!Dirs /\ d # KernelPd /\ UserTable \in Pd!Entries
      /\ KernelTables \subseteq Pd!Entries /\ UserTable \notin KernelTables
      /\ Pd!Entries = KernelTables \cup {UserTable}
  BY DEF Pd!Dirs, Pd!Entries, Pd!PageDirsAssumption
<1>2. \A c \in Pd!Dirs, g \in Pd!Entries :
        pd_page'[c][g] = IF c = d THEN NoTable ELSE pd_page[c][g]
  BY <1>0, <1>1 DEF PdTypes
<1>3. \A g \in Pd!Entries : pd_page'[KernelPd][g] = pd_page[KernelPd][g]
  BY <1>1, <1>2
<1>4. InUseIsMapped'
  <2> SUFFICES ASSUME NEW g \in KernelTables, NEW q \in TablePages, <<g, q>> \in pd_inuse
               PROVE  /\ pd_page[KernelPd][g] # NoTable
                      /\ q \in pd_mapped'[pd_page[KernelPd][g]]
    BY <1>1, <1>3 DEF InUseIsMapped
  <2>1. PICK h \in TableFrames : h = pd_page[KernelPd][g] /\ h # NoTable /\ q \in pd_mapped[h]
    BY <1>0, <1>1 DEF InUseIsMapped, PdTypes
  <2>2. h # pd_page[d][UserTable]
    BY <1>0, <1>1, <2>1 DEF UserTablesOwn
  <2> QED
    BY <2>1, <2>2
<1>5. NamesItself' /\ TablesDiffer' /\ KernelHasNoUser'
  BY <1>0, <1>1, <1>3 DEF NamesItself, TablesDiffer, KernelHasNoUser
<1>6. UserTablesDiffer' /\ UserTablesOwn'
  BY <1>0, <1>1, <1>2, <1>3 DEF UserTablesDiffer, UserTablesOwn
<1>7. KernelsTables'
  BY <1>0, <1>1, <1>2, <1>3 DEF KernelsTables
<1>8. UsedNotFree'
  <2>1. ASSUME NEW c \in Pd!Dirs, NEW g \in Pd!Entries PROVE pd_page'[c][g] \notin pd_free'
    <3>1. CASE c = d \/ pd_page[c][g] = NoTable
      <4>1. pd_page'[c][g] = NoTable
        BY <1>2, <3>1
      <4> QED
        BY <4>1 DEF PdTypes, Pd!PageDirsAssumption
    <3>2. CASE c # d /\ pd_page[c][g] # NoTable
      <4>1. pd_page'[c][g] = pd_page[c][g] /\ pd_page[c][g] \notin pd_free
        BY <1>0, <1>2, <3>2 DEF UsedNotFree
      <4>2. CASE g = UserTable
        <5>1. pd_page[c][g] # pd_page[d][UserTable]
          BY <1>0, <1>1, <3>2, <4>2 DEF UserTablesDiffer
        <5> QED
          BY <4>1, <5>1
      <4>3. CASE g \in KernelTables
        <5>1. pd_page[c][g] = pd_page[KernelPd][g]
          BY <1>0, <3>2, <4>3 DEF KernelsTables
        <5>2. pd_page[c][g] # pd_page[d][UserTable]
          BY <1>0, <1>1, <3>2, <4>3, <5>1 DEF UserTablesOwn
        <5> QED
          BY <4>1, <5>2
      <4> QED
        BY <1>1, <4>2, <4>3
    <3> QED
      BY <3>1, <3>2
  <2> QED
    BY <2>1 DEF UsedNotFree, Pd!Dirs, Pd!Entries
<1> QED
  BY <1>4, <1>5, <1>6, <1>7, <1>8 DEF PdInv, TablesExact

LEMMA EmptyTyped ==
  ASSUME PdTypes, NEW d \in ProcessPds,
         pd_page' = [pd_page EXCEPT ![d] = [e \in Pd!Entries |-> NoTable]]
  PROVE  pd_page' \in [Pd!Dirs -> [Pd!Entries -> TableFrames \cup {NoTable}]]
<1>1. PICK n \in [Pd!Entries -> TableFrames \cup {NoTable}] : n = [e \in Pd!Entries |-> NoTable]
  OBVIOUS
<1> QED
  BY <1>1 DEF PdTypes

LEMMA CreateBegins ==
  ASSUME Pd!PageDirsAssumption, TablesExact, pd_broken = {}, NEW t \in PdThreads,
         NEW d \in ProcessPds, Pd!CreateBegin(t, d)
  PROVE  PdInv'
<1>1. /\ UNCHANGED <<pd_itself, pd_made, pd_mapped, pd_free, pd_inuse, pd_cr3, pd_broken>>
      /\ pd_page' = [pd_page EXCEPT ![d] = [e \in Pd!Entries |-> NoTable]]
  BY DEF Pd!CreateBegin
<1>2. PICK j : j = [op |-> "create", d |-> d, todo |-> KernelTables]
  OBVIOUS
<1>3. j \in Jobs /\ j.op = "create" /\ Pd!Go(t, j)
  BY <1>2 DEF Jobs, Pd!CreateBegin
<1>4. /\ pd_page' \in [Pd!Dirs -> [Pd!Entries -> TableFrames \cup {NoTable}]]
      /\ pd_free' \in SUBSET TableFrames
  BY <1>1, EmptyTyped DEF TablesExact, PdTypes
<1>5. PdTypes' /\ UserMapsOwn'
  BY <1>1, <1>3, <1>4, GoesOn
<1> QED
  BY <1>1, <1>5, EmptyKeeps

LEMMA DeleteKeeps ==
  ASSUME Pd!PageDirsAssumption, TablesExact, pd_broken = {}, NEW t \in PdThreads,
         NEW d \in ProcessPds, Pd!Delete(t, d)
  PROVE  PdInv'
<1>1. /\ UNCHANGED <<pd_itself, pd_inuse, pd_cr3, pd_paging, pd_broken>>
      /\ pd_page' = [pd_page EXCEPT ![d] = [e \in Pd!Entries |-> NoTable]]
      /\ pd_made' = pd_made \ {d} /\ \A u \in PdThreads : pd_cr3[u] # d
  BY DEF Pd!Delete
<1>2. /\ pd_free' = pd_free \cup Pd!Own(d)
      /\ pd_mapped' = [f \in TableFrames |-> IF f \in Pd!Own(d) THEN {} ELSE pd_mapped[f]]
  BY DEF Pd!Delete
<1>3. Pd!Own(d) = {pd_page[d][UserTable]} \ {NoTable}
  BY DEF Pd!Own
<1>4. PdTypes /\ UserMapsOwn
  BY DEF TablesExact
<1>5. Pd!Own(d) \subseteq TableFrames
  BY <1>3, <1>4 DEF PdTypes, Pd!Dirs, Pd!Entries
<1>6. PdTypes'
  <2>1. pd_page' \in [Pd!Dirs -> [Pd!Entries -> TableFrames \cup {NoTable}]]
    BY <1>1, <1>4, EmptyTyped
  <2>2. pd_made' \in SUBSET Pd!Dirs /\ KernelPd \in pd_made' /\ pd_cr3' \in [PdThreads -> pd_made']
    BY <1>1, <1>4 DEF PdTypes, Pd!PageDirsAssumption
  <2>3. pd_mapped' \in [TableFrames -> SUBSET TablePages] /\ pd_free' \in SUBSET TableFrames
    BY <1>2, <1>4, <1>5 DEF PdTypes
  <2> QED
    BY <1>1, <1>4, <2>1, <2>2, <2>3 DEF PdTypes
<1>7. UserMapsOwn'
  BY <1>1, <1>4 DEF UserMapsOwn
<1>8. /\ pd_free' \subseteq pd_free \cup {pd_page[d][UserTable]}
      /\ \A f \in TableFrames : f # pd_page[d][UserTable] => pd_mapped'[f] = pd_mapped[f]
      /\ pd_page[d][UserTable] = NoTable => pd_mapped' = pd_mapped
  BY <1>2, <1>3, <1>4 DEF PdTypes
<1> QED
  BY <1>1, <1>6, <1>7, <1>8, EmptyKeeps

\* pd_map_page() has a frame: it is of no other table, and nothing behind the
\* entry was in use.
LEMMA MapTableKeeps ==
  ASSUME Pd!PageDirsAssumption, TablesExact, pd_broken = {}, NEW t \in PdThreads, Pd!MapTable(t)
  PROVE  PdInv'
<1>0. /\ PdTypes /\ InUseIsMapped /\ NamesItself /\ KernelsTables /\ TablesDiffer
      /\ UserTablesDiffer /\ UserTablesOwn /\ UsedNotFree /\ KernelHasNoUser /\ UserMapsOwn
  BY DEF TablesExact
<1>1. PICK j \in [op : {"map"}, e : Pd!Entries, p : TablePages] : j = pd_paging[t]
  BY <1>0, IdleIsJob DEF PdTypes, Jobs, Pd!MapTable
<1>2. PICK e \in Pd!Entries, p \in TablePages : e = j.e /\ p = j.p
  OBVIOUS
<1>3. PICK d \in Pd!Dirs : d = pd_cr3[t] /\ d = Pd!current_pd(t)
  BY FindsOwn
<1>4. PICK f \in pd_free :
        /\ pd_free' = pd_free \ {f} /\ pd_page' = Pd!Entered(t, e, f)
        /\ pd_mapped' = [pd_mapped EXCEPT ![f] = {p}]
  BY <1>1, <1>2 DEF Pd!MapTable
<1>5. /\ UNCHANGED <<pd_itself, pd_made, pd_cr3>> /\ pd_inuse' = Pd!Now(e, p)
      /\ Pd!Go(t, Pd!Idle)
      /\ pd_broken' = pd_broken \cup
           (IF pd_page[Pd!Directory(t, e)][e] # NoTable THEN {"table"} ELSE {})
  BY <1>1, <1>2 DEF Pd!MapTable
<1>6. CASE pd_page[Pd!Directory(t, e)][e] # NoTable
  BY <1>5, <1>6 DEF PdInv
<1>7. CASE pd_page[Pd!Directory(t, e)][e] = NoTable
  <2>0. /\ KernelPd \in Pd!Dirs /\ UserTable \in Pd!Entries /\ f \in TableFrames /\ f # NoTable
        /\ KernelTables \subseteq Pd!Entries /\ UserTable \notin KernelTables
        /\ Pd!Entries = KernelTables \cup {UserTable} /\ pd_broken' = {}
    BY <1>0, <1>5, <1>7 DEF PdTypes, Pd!Dirs, Pd!Entries, Pd!PageDirsAssumption
  <2>1. \A c \in Pd!Dirs, g \in Pd!Entries : pd_page[c][g] # f
    BY <1>0 DEF UsedNotFree
  <2>2. /\ pd_page' \in [Pd!Dirs -> [Pd!Entries -> TableFrames \cup {NoTable}]]
        /\ \A c \in Pd!Dirs, g \in Pd!Entries :
             pd_page'[c][g] = IF g = e /\ (c = d \/ (c = KernelPd /\ e \in KernelTables))
                              THEN f ELSE pd_page[c][g]
    <3>1. CASE e \in KernelTables
      <4>1. pd_page' = [pd_page EXCEPT ![d][e] = f, ![KernelPd][e] = f]
        BY <1>3, <1>4, <3>1 DEF Pd!Entered
      <4>2. PICK n \in [Pd!Entries -> TableFrames \cup {NoTable}] : n = [pd_page[d] EXCEPT ![e] = f]
        BY <1>0, <2>0 DEF PdTypes
      <4>3. PICK m : m = [pd_page EXCEPT ![d] = n]
        OBVIOUS
      <4>4. /\ m \in [Pd!Dirs -> [Pd!Entries -> TableFrames \cup {NoTable}]]
            /\ \A c \in Pd!Dirs, g \in Pd!Entries :
                 m[c][g] = IF g = e /\ c = d THEN f ELSE pd_page[c][g]
        BY <1>0, <4>2, <4>3 DEF PdTypes
      <4>5. pd_page' = [m EXCEPT ![KernelPd][e] = f]
        BY <4>1, <4>2, <4>3
      <4>6. PICK k \in [Pd!Entries -> TableFrames \cup {NoTable}] : k = [m[KernelPd] EXCEPT ![e] = f]
        BY <2>0, <4>4
      <4>7. pd_page' = [m EXCEPT ![KernelPd] = k]
        BY <4>5, <4>6
      <4> QED
        BY <2>0, <3>1, <4>4, <4>6, <4>7
    <3>2. CASE e \notin KernelTables
      <4>1. Writes(d, e, f)
        BY <1>3, <1>4, <3>2 DEF Pd!Entered, Writes
      <4>2. /\ pd_page' \in [Pd!Dirs -> [Pd!Entries -> TableFrames \cup {NoTable}]]
            /\ pd_page'[d][e] = f
            /\ \A c \in Pd!Dirs, g \in Pd!Entries :
                 c # d \/ g # e => pd_page'[c][g] = pd_page[c][g]
        <5>1. /\ PdTypes /\ d \in Pd!Dirs /\ e \in Pd!Entries
              /\ f \in TableFrames \cup {NoTable} /\ Writes(d, e, f)
          BY <1>0, <1>2, <1>3, <2>0, <4>1
        <5> QED
          BY <5>1, EntrySet
      <4> QED
        BY <3>2, <4>2
    <3> QED
      BY <3>1, <3>2
  <2>3. /\ pd_mapped' \in [TableFrames -> SUBSET TablePages] /\ pd_mapped'[f] = {p}
        /\ \A g \in TableFrames \ {f} : pd_mapped'[g] = pd_mapped[g]
    BY <1>0, <1>4, <2>0 DEF PdTypes
  <2>4. /\ e \in KernelTables => pd_page[KernelPd][e] = NoTable
        /\ e = UserTable => pd_page[d][UserTable] = NoTable /\ d # KernelPd
    BY <1>0, <1>1, <1>2, <1>3, <1>7, <2>0 DEF Pd!Directory, UserMapsOwn
  <2>5. \A g \in Pd!Entries : pd_page'[KernelPd][g] = IF g = e /\ e \in KernelTables THEN f
                                                      ELSE pd_page[KernelPd][g]
    BY <2>0, <2>2, <2>4
  <2>6. InUseIsMapped'
    <3> SUFFICES ASSUME NEW g \in KernelTables, NEW q \in TablePages, <<g, q>> \in pd_inuse'
                 PROVE  /\ pd_page'[KernelPd][g] # NoTable
                        /\ q \in pd_mapped'[pd_page'[KernelPd][g]]
      BY DEF InUseIsMapped
    <3>1. CASE g = e
      <4>1. <<g, q>> \notin pd_inuse
        BY <1>0, <2>4, <3>1 DEF InUseIsMapped
      <4>2. q = p
        BY <1>5, <4>1 DEF Pd!Now
      <4> QED
        BY <2>0, <2>3, <2>5, <3>1, <4>2
    <3>2. CASE g # e
      <4>1. <<g, q>> \in pd_inuse
        BY <1>5, <3>2 DEF Pd!Now
      <4>2. /\ pd_page[KernelPd][g] # NoTable /\ q \in pd_mapped[pd_page[KernelPd][g]]
            /\ pd_page[KernelPd][g] \in TableFrames
        BY <1>0, <2>0, <4>1 DEF InUseIsMapped, PdTypes
      <4>3. pd_page'[KernelPd][g] = pd_page[KernelPd][g] /\ pd_page[KernelPd][g] # f
        BY <2>0, <2>1, <2>5, <3>2
      <4> QED
        BY <2>3, <4>2, <4>3
    <3> QED
      BY <3>1, <3>2
  <2>7. NamesItself' /\ KernelHasNoUser'
    BY <1>0, <1>5, <2>0, <2>5 DEF NamesItself, KernelHasNoUser
  <2>8. KernelsTables'
    <3>1. ASSUME NEW c \in Pd!Dirs, NEW g \in KernelTables
          PROVE  pd_page'[c][g] \in {NoTable, pd_page'[KernelPd][g]}
      <4>1. pd_page[c][g] \in {NoTable, pd_page[KernelPd][g]}
        BY <1>0 DEF KernelsTables
      <4> QED
        BY <2>0, <2>2, <2>4, <2>5, <4>1
    <3> QED
      BY <3>1 DEF KernelsTables, Pd!Dirs
  <2>9. TablesDiffer'
    BY <1>0, <2>0, <2>1, <2>5 DEF TablesDiffer
  <2>10. UserTablesDiffer'
    <3>1. ASSUME NEW a \in Pd!Dirs, NEW c \in Pd!Dirs,
                 pd_page'[a][UserTable] = pd_page'[c][UserTable]
          PROVE  a = c \/ pd_page'[a][UserTable] = NoTable
      <4>1. CASE e = UserTable
        BY <1>0, <2>0, <2>1, <2>2, <3>1, <4>1 DEF UserTablesDiffer
      <4>2. CASE e # UserTable
        BY <1>0, <2>0, <2>2, <3>1, <4>2 DEF UserTablesDiffer
      <4> QED
        BY <4>1, <4>2
    <3> QED
      BY <3>1 DEF UserTablesDiffer, Pd!Dirs
  <2>11. UserTablesOwn'
    <3>1. ASSUME NEW c \in Pd!Dirs, NEW g \in KernelTables, pd_page'[c][UserTable] # NoTable
          PROVE  pd_page'[c][UserTable] # pd_page'[KernelPd][g]
      <4>1. CASE e = UserTable
        BY <1>0, <2>0, <2>1, <2>2, <2>5, <3>1, <4>1 DEF UserTablesOwn
      <4>2. CASE e # UserTable
        BY <1>0, <2>0, <2>1, <2>2, <2>5, <3>1, <4>2 DEF UserTablesOwn
      <4> QED
        BY <4>1, <4>2
    <3> QED
      BY <3>1 DEF UserTablesOwn, Pd!Dirs
  <2>12. UsedNotFree'
    BY <1>0, <1>4, <2>2 DEF UsedNotFree
  <2>13. PdTypes' /\ UserMapsOwn'
    <3>1. /\ pd_paging' \in [PdThreads -> Jobs] /\ pd_paging'[t] = Pd!Idle
          /\ \A u \in PdThreads \ {t} : pd_paging'[u] = pd_paging[u]
      BY <1>0, <1>5, IdleIsJob DEF PdTypes, Pd!Go
    <3>2. pd_inuse' \in SUBSET (KernelTables \X TablePages)
      BY <1>0, <1>5 DEF PdTypes, Pd!Now
    <3>3. pd_free' \in SUBSET TableFrames
      BY <1>0, <1>4 DEF PdTypes
    <3>4. PdTypes'
      BY <1>0, <1>5, <2>2, <2>3, <3>1, <3>2, <3>3 DEF PdTypes
    <3>5. UserMapsOwn'
      BY <1>0, <1>5, <3>1, IdleIsJob DEF UserMapsOwn
    <3> QED
      BY <3>4, <3>5
  <2> QED
    BY <2>0, <2>6, <2>7, <2>8, <2>9, <2>10, <2>11, <2>12, <2>13 DEF PdInv, TablesExact
<1> QED
  BY <1>6, <1>7

LEMMA PdStep ==
  ASSUME Pd!PageDirsAssumption, PdInv, Pd!Next
  PROVE  PdInv'
<1>1. TablesExact /\ pd_broken = {}
  BY DEF PdInv, Pd!Next
<1>2. PICK t \in PdThreads :
       \/ \E e \in Pd!Entries, p \in TablePages :
            Pd!Map(t, e, p) \/ Pd!MapNew(t, e, p) \/ Pd!Unmap(t, e, p)
       \/ Pd!MapTable(t) \/ Pd!MapFails(t)
       \/ \E e \in KernelTables, p \in TablePages : Pd!Access(t, e, p)
       \/ \E d \in ProcessPds : Pd!CreateBegin(t, d) \/ Pd!Switch(t, d) \/ Pd!Delete(t, d)
       \/ Pd!Switch(t, KernelPd)
       \/ Pd!CreateCopy(t) \/ Pd!CreateEnd(t)
  BY DEF Pd!Next
<1> QED
  BY <1>1, <1>2, MapsKeep, WaitsForFrame, MapTableKeeps, FrameFails, AccessKeeps, CreateBegins,
     Switches, DeleteKeeps, CreateCopyKeeps, Created

\* What the invariant says of the tables.
LEMMA PagingIsExact ==
  ASSUME Pd!PageDirsAssumption, PdInv
  PROVE  Pd!PagingExact
<1>1. "panic" \notin pd_broken
  BY DEF PdInv
<1>2. ASSUME pd_broken = {}
      PROVE  /\ \A x \in pd_inuse : Pd!Reaches(KernelPd, x[1], x[2])
             /\ \A d \in pd_made : /\ pd_itself[d] = d
                                   /\ \A e \in KernelTables :
                                        pd_page[d][e] \in {NoTable, pd_page[KernelPd][e]}
             /\ \A e, g \in KernelTables : pd_page[KernelPd][e] = pd_page[KernelPd][g] =>
                  e = g \/ pd_page[KernelPd][e] = NoTable
             /\ \A c, d \in pd_made : pd_page[c][UserTable] = pd_page[d][UserTable] =>
                  c = d \/ pd_page[c][UserTable] = NoTable
             /\ \A d \in pd_made, e \in KernelTables :
                  pd_page[d][UserTable] # NoTable => pd_page[d][UserTable] # pd_page[d][e]
             /\ \A d \in pd_made, e \in Pd!Entries : pd_page[d][e] \notin pd_free
             /\ pd_page[KernelPd][UserTable] = NoTable
  <2>0. /\ PdTypes /\ InUseIsMapped /\ NamesItself /\ KernelsTables /\ TablesDiffer
        /\ UserTablesDiffer /\ UserTablesOwn /\ UsedNotFree /\ KernelHasNoUser
    BY <1>2 DEF PdInv, TablesExact
  <2>1. ASSUME NEW x \in pd_inuse PROVE Pd!Reaches(KernelPd, x[1], x[2])
    <3>1. PICK e \in KernelTables, p \in TablePages : x = <<e, p>>
      BY <2>0 DEF PdTypes
    <3> QED
      BY <2>0, <3>1 DEF InUseIsMapped, Pd!Reaches
  <2>2. pd_made \subseteq Pd!Dirs
    BY <2>0 DEF PdTypes
  <2>3. ASSUME NEW d \in pd_made, NEW e \in KernelTables, pd_page[d][UserTable] # NoTable
        PROVE  pd_page[d][UserTable] # pd_page[d][e]
    BY <2>0, <2>2, <2>3 DEF UserTablesOwn, KernelsTables
  <2> QED
    BY <2>0, <2>1, <2>2, <2>3
       DEF NamesItself, KernelsTables, TablesDiffer, UserTablesDiffer, UsedNotFree, KernelHasNoUser
<1> QED
  BY <1>1, <1>2 DEF Pd!PagingExact

(***************************************************************************)
(* Whatever directories there are and however threads map, unmap, make and *)
(* delete: each page of the kernel that is in use is found through         *)
(* kernel_pd, the page fault handler never panics about one, and no frame  *)
(* is two tables, or a table and free (pd_map_page(), create_pagedir() and *)
(* page_fault_handler() of paging.c), up to the two cases PagingExact      *)
(* names.                                                                  *)
(***************************************************************************)
THEOREM DirectoriesAreExact ==
  ASSUME Pd!PageDirsAssumption
  PROVE  Pd!Init /\ [][Pd!Next]_(Pd!vars) => []Pd!PagingExact
<1>1. Pd!Init => PdInv
  BY PdBegins
<1>2. PdInv /\ [Pd!Next]_(Pd!vars) => PdInv'
  <2>1. CASE Pd!Next /\ PdInv
    BY <2>1, PdStep
  <2>2. CASE UNCHANGED Pd!vars /\ PdInv
    BY <2>2 DEF Pd!vars, PdInv, TablesExact, PdTypes, InUseIsMapped, NamesItself, KernelsTables,
      TablesDiffer, UserTablesDiffer, UserTablesOwn, UsedNotFree, KernelHasNoUser, UserMapsOwn
  <2> QED
    BY <2>1, <2>2
<1>3. PdInv => Pd!PagingExact
  BY PagingIsExact
<1> QED
  BY <1>1, <1>2, <1>3, PTL
-----------------------------------------------------------------------------
(***************************************************************************)
(* The allocator of the kernel's address space (module RegionAlloc), for   *)
(* any space, sizes and numbers of descriptors.                            *)
(*                                                                         *)
(* An operation is a chain of removals, joins and insertions.  Between     *)
(* them the allocator is sound but for one region, which is on no list:    *)
(* Sound(r, S) says so of the allocator r and the set S of that region,    *)
(* and each link of the chain has a lemma of its own.                      *)
(***************************************************************************)
Allocators ==
  [by_addr : Seq(Rg!Addrs), by_size : Seq(Rg!Addrs), size : [Rg!Addrs -> Nat],
   first_bigger : [Rg!Addrs -> Rg!Addrs \cup {NoAddr}], used : SUBSET Rg!Addrs, unused : Int]

\* The list s is t and one more item, in place p.
OneMore(t, s, p) ==
  /\ Len(s) = Len(t) + 1 /\ p \in 1 .. Len(s)
  /\ \A k \in 1 .. p - 1 : s[k] = t[k]
  /\ \A k \in p .. Len(t) : s[k + 1] = t[k]

Items(s) == {s[n] : n \in 1 .. Len(s)}
Distinct(s) == \A m, n \in 1 .. Len(s) : s[m] = s[n] => m = n
AddrOrdered(s) == \A m, n \in 1 .. Len(s) : m < n => s[m] < s[n]
\* For the sizes z and the pointers f.
SizeOrdered(s, z) == \A m, n \in 1 .. Len(s) : m < n => z[s[m]] <= z[s[n]]
IsFirstBigger(s, z, x, y) ==
  \/ y = NoAddr /\ \A m \in 1 .. Len(s) : z[s[m]] <= z[x]
  \/ \E k \in 1 .. Len(s) : /\ y = s[k] /\ z[s[k]] > z[x]
                            /\ \A m \in 1 .. k - 1 : z[s[m]] <= z[x]
BiggerExact(s, z, f) == \A n \in 1 .. Len(s) : IsFirstBigger(s, z, s[n], f[s[n]])

SizesListed(s, z, f) == Distinct(s) /\ SizeOrdered(s, z) /\ BiggerExact(s, z, f)

Listed(r) ==
  /\ r \in Allocators
  /\ AddrOrdered(r.by_addr) /\ SizesListed(r.by_size, r.size, r.first_bigger)
  /\ Items(r.by_size) = Items(r.by_addr)

\* Induction over the numbers, without an operator for a parameter.
LEMMA SetInduction ==
  ASSUME NEW S, 0 \in S, \A n \in Nat : n \in S => n + 1 \in S
  PROVE  Nat \subseteq S
<1> SUFFICES ASSUME NEW m \in Nat, m \notin S PROVE FALSE
  OBVIOUS
<1> DEFINE A == S \cap (0 .. m)
           f == [n \in A |-> n + 1]
<1>1. A \in SUBSET (0 .. m) /\ IsFiniteSet(A)
  <2>1. A \in SUBSET (0 .. m)
    OBVIOUS
  <2>2. IsFiniteSet(0 .. m)
    BY FS_Interval
  <2> HIDE DEF A
  <2> QED
    BY <2>1, <2>2, FS_Subset
<1>2. f \in Injection(A, A)
  BY <1>1 DEF Injection, IsInjective
<1>3. f \in Surjection(A, A)
  BY <1>1, <1>2, FS_Injection
<1>4. 0 \in A /\ \A n \in A : f[n] = n + 1 /\ n \in Nat
  OBVIOUS
<1>5. PICK n \in A : f[n] = 0
  BY <1>3, <1>4 DEF Surjection
<1> QED
  BY <1>4, <1>5


LEMMA InsertIs ==
  ASSUME NEW S, NEW s \in Seq(S), NEW a \in S, NEW i \in 1 .. Len(s) + 1
  PROVE  /\ Rg!InsertAt(s, i, a) \in Seq(S) /\ Rg!InsertAt(s, i, a)[i] = a
         /\ OneMore(s, Rg!InsertAt(s, i, a), i)
<1>0. PICK l \in Nat : l = Len(s)
  OBVIOUS
<1>1. PICK u : u = SubSeq(s, 1, i - 1)
  OBVIOUS
<1>2. PICK v : v = SubSeq(s, i, l)
  OBVIOUS
<1>3. \A k \in 1 .. l : s[k] \in S
  BY <1>0, ElementOfSeq
<1>4. u \in Seq(S) /\ Len(u) = i - 1 /\ \A k \in 1 .. i - 1 : u[k] = s[k]
  <2>1. i - 1 \in Int /\ \A k \in 1 .. i - 1 : s[k] \in S
    BY <1>0, <1>3
  <2>2. /\ SubSeq(s, 1, i - 1) \in Seq(S)
        /\ Len(SubSeq(s, 1, i - 1)) = IF 1 <= i - 1 THEN i - 1 - 1 + 1 ELSE 0
        /\ \A k \in 1 .. i - 1 - 1 + 1 : SubSeq(s, 1, i - 1)[k] = s[1 + k - 1]
    BY <2>1, SubSeqProperties
  <2>3. i - 1 - 1 + 1 = i - 1 /\ \A k \in 1 .. i - 1 : 1 + k - 1 = k
    BY <1>0
  <2> QED
    BY <1>0, <1>1, <2>2, <2>3
<1>5. v \in Seq(S) /\ Len(v) = l - i + 1 /\ \A k \in 1 .. l - i + 1 : v[k] = s[i + k - 1]
  <2>1. i \in Int /\ l \in Int /\ \A k \in i .. l : s[k] \in S
    BY <1>0, <1>3
  <2>2. /\ SubSeq(s, i, l) \in Seq(S)
        /\ Len(SubSeq(s, i, l)) = IF i <= l THEN l - i + 1 ELSE 0
        /\ \A k \in 1 .. l - i + 1 : SubSeq(s, i, l)[k] = s[i + k - 1]
    BY <2>1, SubSeqProperties
  <2> QED
    BY <1>0, <1>2, <2>2
<1>6. PICK w \in Seq(S) : w = u \o <<a>>
  <2>1. Append(u, a) = u \o <<a>> /\ Append(u, a) \in Seq(S)
    BY <1>4, AppendIsConcat, AppendProperties
  <2> QED
    BY <2>1
<1>7. Len(w) = i /\ (\A k \in 1 .. i - 1 : w[k] = s[k]) /\ w[i] = a
  <2>1. w = Append(u, a)
    BY <1>4, <1>6, AppendIsConcat
  <2>2. /\ Len(Append(u, a)) = Len(u) + 1 /\ Append(u, a)[Len(u) + 1] = a
        /\ \A k \in 1 .. Len(u) : Append(u, a)[k] = u[k]
    BY <1>4, AppendProperties
  <2>3. (i - 1) + 1 = i
    BY <1>0
  <2> QED
    BY <1>4, <2>1, <2>2, <2>3
<1>8. PICK t \in Seq(S) : t = w \o v
  <2>1. w \in Seq(S) /\ v \in Seq(S)
    BY <1>5
  <2> QED
    BY <2>1, ConcatProperties
<1>9. Len(t) = l + 1 /\ \A k \in 1 .. l + 1 : t[k] = IF k <= i THEN w[k] ELSE v[k - i]
  <2>1. w \in Seq(S) /\ v \in Seq(S)
    BY <1>5
  <2>2. /\ Len(w \o v) = Len(w) + Len(v)
        /\ \A k \in 1 .. Len(w) + Len(v) : (w \o v)[k] = IF k <= Len(w) THEN w[k] ELSE v[k - Len(w)]
    BY <2>1, ConcatProperties
  <2>3. Len(w) + Len(v) = l + 1 /\ Len(w) = i
    BY <1>0, <1>5, <1>7
  <2> QED
    BY <1>8, <2>2, <2>3
<1>10. t = Rg!InsertAt(s, i, a)
  BY <1>0, <1>1, <1>2, <1>6, <1>8 DEF Rg!InsertAt
<1>11. Len(t) = l + 1 /\ t[i] = a /\ \A k \in 1 .. i - 1 : t[k] = s[k]
  BY <1>0, <1>7, <1>9
<1>12. ASSUME NEW k \in i .. l PROVE t[k + 1] = s[k]
  <2>1. k + 1 \in 1 .. l + 1 /\ ~(k + 1 <= i) /\ k + 1 - i \in 1 .. l - i + 1
        /\ i + (k + 1 - i) - 1 = k
    BY <1>0
  <2>2. t[k + 1] = v[k + 1 - i] /\ v[k + 1 - i] = s[i + (k + 1 - i) - 1]
    BY <1>5, <1>9, <2>1
  <2> QED
    BY <2>1, <2>2
<1>13. i \in 1 .. Len(t)
  BY <1>0, <1>11
<1> QED
  BY <1>0, <1>8, <1>10, <1>11, <1>12, <1>13 DEF OneMore

LEMMA RemoveIs ==
  ASSUME NEW S, NEW s \in Seq(S), NEW i \in 1 .. Len(s)
  PROVE  Rg!RemoveAt(s, i) \in Seq(S) /\ OneMore(Rg!RemoveAt(s, i), s, i)
<1>0. PICK l \in Nat : l = Len(s)
  OBVIOUS
<1>1. PICK u : u = SubSeq(s, 1, i - 1)
  OBVIOUS
<1>2. PICK v : v = SubSeq(s, i + 1, l)
  OBVIOUS
<1>3. \A k \in 1 .. l : s[k] \in S
  BY <1>0, ElementOfSeq
<1>4. u \in Seq(S) /\ Len(u) = i - 1 /\ \A k \in 1 .. i - 1 : u[k] = s[k]
  <2>1. i - 1 \in Int /\ \A k \in 1 .. i - 1 : s[k] \in S
    BY <1>0, <1>3
  <2>2. /\ SubSeq(s, 1, i - 1) \in Seq(S)
        /\ Len(SubSeq(s, 1, i - 1)) = IF 1 <= i - 1 THEN i - 1 - 1 + 1 ELSE 0
        /\ \A k \in 1 .. i - 1 - 1 + 1 : SubSeq(s, 1, i - 1)[k] = s[1 + k - 1]
    BY <2>1, SubSeqProperties
  <2>3. i - 1 - 1 + 1 = i - 1 /\ \A k \in 1 .. i - 1 : 1 + k - 1 = k
    BY <1>0
  <2> QED
    BY <1>0, <1>1, <2>2, <2>3
<1>5. v \in Seq(S) /\ Len(v) = l - i /\ \A k \in 1 .. l - i : v[k] = s[i + k]
  <2>1. i + 1 \in Int /\ l \in Int /\ \A k \in i + 1 .. l : s[k] \in S
    BY <1>0, <1>3
  <2>2. /\ SubSeq(s, i + 1, l) \in Seq(S)
        /\ Len(SubSeq(s, i + 1, l)) = IF i + 1 <= l THEN l - (i + 1) + 1 ELSE 0
        /\ \A k \in 1 .. l - (i + 1) + 1 : SubSeq(s, i + 1, l)[k] = s[(i + 1) + k - 1]
    BY <2>1, SubSeqProperties
  <2>3. l - (i + 1) + 1 = l - i /\ \A k \in 1 .. l - i : (i + 1) + k - 1 = i + k
    BY <1>0
  <2> QED
    BY <1>0, <1>2, <2>2, <2>3
<1>6. PICK t \in Seq(S) : t = u \o v /\ Len(t) = l - 1
                          /\ \A k \in 1 .. l - 1 : t[k] = IF k <= i - 1 THEN u[k] ELSE v[k - (i - 1)]
  <2>1. /\ u \o v \in Seq(S) /\ Len(u \o v) = Len(u) + Len(v)
        /\ \A k \in 1 .. Len(u) + Len(v) : (u \o v)[k] = IF k <= Len(u) THEN u[k] ELSE v[k - Len(u)]
    BY <1>4, <1>5, ConcatProperties
  <2>2. Len(u) + Len(v) = l - 1
    BY <1>0, <1>4, <1>5
  <2> QED
    BY <1>4, <2>1, <2>2
<1>7. t = Rg!RemoveAt(s, i)
  BY <1>0, <1>1, <1>2, <1>6 DEF Rg!RemoveAt
<1>8. Len(s) = Len(t) + 1 /\ \A k \in 1 .. i - 1 : s[k] = t[k]
  BY <1>0, <1>4, <1>6
<1>9. ASSUME NEW k \in i .. Len(t) PROVE s[k + 1] = t[k]
  <2>1. k \in 1 .. l - 1 /\ ~(k <= i - 1) /\ k - (i - 1) \in 1 .. l - i /\ i + (k - (i - 1)) = k + 1
    BY <1>0, <1>6
  <2>2. t[k] = v[k - (i - 1)] /\ v[k - (i - 1)] = s[i + (k - (i - 1))]
    BY <1>5, <1>6, <2>1
  <2> QED
    BY <2>1, <2>2
<1> QED
  BY <1>6, <1>7, <1>8, <1>9 DEF OneMore

\* Places in a list and in the one with an item more.
Beyond(k, p) == IF k < p THEN k ELSE k + 1

LEMMA Places ==
  ASSUME NEW t, NEW s, NEW p, OneMore(t, s, p), Len(t) \in Nat
  PROVE  /\ \A k \in 1 .. Len(t) : /\ Beyond(k, p) \in 1 .. Len(s) /\ Beyond(k, p) # p
                                   /\ t[k] = s[Beyond(k, p)]
         /\ \A j \in 1 .. Len(s) : j = p \/ \E k \in 1 .. Len(t) : j = Beyond(k, p) /\ s[j] = t[k]
         /\ \A k, m \in 1 .. Len(t) : (k < m <=> Beyond(k, p) < Beyond(m, p))
<1>1. PICK l \in Nat : l = Len(t)
  OBVIOUS
<1>2. /\ Len(s) = l + 1 /\ p \in 1 .. l + 1
      /\ \A k \in 1 .. p - 1 : s[k] = t[k]
      /\ \A k \in p .. l : s[k + 1] = t[k]
  BY <1>1 DEF OneMore
<1>3. ASSUME NEW k \in 1 .. l
      PROVE  Beyond(k, p) \in 1 .. l + 1 /\ Beyond(k, p) # p /\ t[k] = s[Beyond(k, p)]
  <2>1. CASE k < p
    BY <1>2, <2>1 DEF Beyond
  <2>2. CASE ~(k < p)
    BY <1>2, <2>2 DEF Beyond
  <2> QED
    BY <2>1, <2>2
<1>4. ASSUME NEW j \in 1 .. l + 1, j # p
      PROVE  \E k \in 1 .. l : j = Beyond(k, p) /\ s[j] = t[k]
  <2>1. CASE j < p
    <3>1. j \in 1 .. l /\ j \in 1 .. p - 1 /\ Beyond(j, p) = j
      BY <1>2, <2>1 DEF Beyond
    <3> QED
      BY <1>2, <3>1
  <2>2. CASE j > p
    <3>1. PICK k \in 1 .. l : j = k + 1 /\ k \in p .. l
      <4>1. j - 1 \in 1 .. l /\ j = (j - 1) + 1 /\ j - 1 \in p .. l
        BY <1>2, <2>2
      <4> QED
        BY <4>1
    <3>2. Beyond(k, p) = j /\ s[j] = t[k]
      BY <1>2, <3>1 DEF Beyond
    <3> QED
      BY <3>2
  <2> QED
    BY <1>2, <1>4, <2>1, <2>2
<1>5. \A k, m \in 1 .. l : (k < m <=> Beyond(k, p) < Beyond(m, p))
  BY <1>2 DEF Beyond
<1> QED
  BY <1>1, <1>2, <1>3, <1>4, <1>5

\* A list keeps its order when an item is taken out, and has it if the new one
\* is in its place.
LEMMA FewerItems ==
  ASSUME NEW t, NEW s, NEW p, OneMore(t, s, p), Len(t) \in Nat, Distinct(s)
  PROVE  Distinct(t) /\ Items(t) = Items(s) \ {s[p]}
<1>0. PICK l \in Nat : l = Len(t) /\ Len(s) = l + 1 /\ p \in 1 .. l + 1
  BY DEF OneMore
<1>1. \A k \in 1 .. l : Beyond(k, p) \in 1 .. l + 1 /\ Beyond(k, p) # p /\ t[k] = s[Beyond(k, p)]
  BY <1>0, Places
<1>2. \A j \in 1 .. l + 1 : j = p \/ \E k \in 1 .. l : j = Beyond(k, p) /\ s[j] = t[k]
  BY <1>0, Places
<1>3. \A k, m \in 1 .. l : Beyond(k, p) = Beyond(m, p) => k = m
  BY <1>0 DEF Beyond
<1>4. Distinct(t)
  BY <1>0, <1>1, <1>3 DEF Distinct
<1>5. ASSUME NEW k \in 1 .. l PROVE t[k] \in Items(s) \ {s[p]}
  BY <1>0, <1>1 DEF Distinct, Items
<1>6. ASSUME NEW j \in 1 .. l + 1, s[j] # s[p] PROVE s[j] \in Items(t)
  BY <1>0, <1>2, <1>6 DEF Items
<1> QED
  BY <1>0, <1>4, <1>5, <1>6 DEF Items

LEMMA MoreItems ==
  ASSUME NEW t, NEW s, NEW p, OneMore(t, s, p), Len(t) \in Nat, Distinct(t), s[p] \notin Items(t)
  PROVE  Distinct(s) /\ Items(s) = Items(t) \cup {s[p]}
<1>0. PICK l \in Nat : l = Len(t) /\ Len(s) = l + 1 /\ p \in 1 .. l + 1
  BY DEF OneMore
<1>1. \A k \in 1 .. l : Beyond(k, p) \in 1 .. l + 1 /\ Beyond(k, p) # p /\ t[k] = s[Beyond(k, p)]
  BY <1>0, Places
<1>2. \A j \in 1 .. l + 1 : j = p \/ \E k \in 1 .. l : j = Beyond(k, p) /\ s[j] = t[k]
  BY <1>0, Places
<1>3. ASSUME NEW j \in 1 .. l + 1, NEW i \in 1 .. l + 1, s[i] = s[j], i # j PROVE FALSE
  <2>1. ASSUME NEW q \in 1 .. l + 1, q # p PROVE s[q] \in Items(t)
    BY <1>0, <1>2, <2>1 DEF Items
  <2>2. i # p /\ j # p
    BY <1>3, <2>1
  <2>3. PICK k \in 1 .. l : i = Beyond(k, p) /\ s[i] = t[k]
    BY <1>2, <2>2
  <2>4. PICK m \in 1 .. l : j = Beyond(m, p) /\ s[j] = t[m]
    BY <1>2, <2>2
  <2>5. k = m
    BY <1>0, <1>3, <2>3, <2>4 DEF Distinct
  <2> QED
    BY <1>3, <2>3, <2>4, <2>5
<1>4. Distinct(s)
  BY <1>0, <1>3 DEF Distinct
<1>5. ASSUME NEW k \in 1 .. l PROVE t[k] \in Items(s)
  BY <1>0, <1>1 DEF Items
<1>6. ASSUME NEW j \in 1 .. l + 1 PROVE s[j] \in Items(t) \cup {s[p]}
  BY <1>0, <1>2 DEF Items
<1>7. s[p] \in Items(s)
  BY <1>0 DEF Items
<1> QED
  BY <1>0, <1>4, <1>5, <1>6, <1>7 DEF Items

LEMMA FewerAddrs ==
  ASSUME NEW t, NEW s, NEW p, OneMore(t, s, p), Len(t) \in Nat, AddrOrdered(s)
  PROVE  AddrOrdered(t)
<1>0. PICK l \in Nat : l = Len(t) /\ Len(s) = l + 1 /\ p \in 1 .. l + 1
  BY DEF OneMore
<1>1. \A k \in 1 .. l : Beyond(k, p) \in 1 .. l + 1 /\ t[k] = s[Beyond(k, p)]
  BY <1>0, Places
<1>2. \A k, m \in 1 .. l : k < m => Beyond(k, p) < Beyond(m, p)
  BY <1>0, Places
<1> QED
  BY <1>0, <1>1, <1>2 DEF AddrOrdered

LEMMA MoreAddrs ==
  ASSUME NEW t, NEW s, NEW p, OneMore(t, s, p), Len(t) \in Nat, AddrOrdered(t),
         \A k \in 1 .. Len(t) : IF k < p THEN t[k] < s[p] ELSE s[p] < t[k]
  PROVE  AddrOrdered(s)
<1>0. PICK l \in Nat : l = Len(t) /\ Len(s) = l + 1 /\ p \in 1 .. l + 1
  BY DEF OneMore
<1>1. \A j \in 1 .. l + 1 : j = p \/ \E k \in 1 .. l : j = Beyond(k, p) /\ s[j] = t[k]
  BY <1>0, Places
<1>2. \A k, m \in 1 .. l : Beyond(k, p) < Beyond(m, p) => k < m
  BY <1>0, Places
<1>3. ASSUME NEW i \in 1 .. l + 1, NEW j \in 1 .. l + 1, i < j PROVE s[i] < s[j]
  <2>1. CASE i = p
    <3>1. PICK k \in 1 .. l : j = Beyond(k, p) /\ s[j] = t[k]
      BY <1>1, <1>3, <2>1
    <3>2. ~(k < p)
      BY <1>0, <1>3, <2>1, <3>1 DEF Beyond
    <3> QED
      BY <1>0, <2>1, <3>1, <3>2
  <2>2. CASE j = p
    <3>1. PICK k \in 1 .. l : i = Beyond(k, p) /\ s[i] = t[k]
      BY <1>1, <1>3, <2>2
    <3>2. k < p
      BY <1>0, <1>3, <2>2, <3>1 DEF Beyond
    <3> QED
      BY <1>0, <2>2, <3>1, <3>2
  <2>3. CASE i # p /\ j # p
    <3>1. PICK k \in 1 .. l : i = Beyond(k, p) /\ s[i] = t[k]
      BY <1>1, <2>3
    <3>2. PICK m \in 1 .. l : j = Beyond(m, p) /\ s[j] = t[m]
      BY <1>1, <2>3
    <3>3. k < m
      BY <1>2, <1>3, <3>1, <3>2
    <3> QED
      BY <1>0, <3>1, <3>2, <3>3 DEF AddrOrdered
  <2> QED
    BY <2>1, <2>2, <2>3
<1> QED
  BY <1>0, <1>3 DEF AddrOrdered

LEMMA OrderedDiffer ==
  ASSUME NEW s \in Seq(Rg!Addrs), AddrOrdered(s), Rg!RegionAssumption
  PROVE  Distinct(s)
<1>1. PICK l \in Nat : l = Len(s)
  OBVIOUS
<1>2. \A k \in 1 .. l : s[k] \in Int
  <2>1. \A k \in 1 .. l : s[k] \in Rg!Addrs
    BY <1>1, ElementOfSeq
  <2> QED
    BY <2>1 DEF Rg!Addrs, Rg!RegionAssumption
<1> QED
  BY <1>1, <1>2 DEF AddrOrdered, Distinct

\* What points to the item taken out points to the next one.
LEMMA FewerSizes ==
  ASSUME NEW t, NEW s, NEW p, OneMore(t, s, p), Len(t) \in Nat,
         NEW z, \A k \in 1 .. Len(s) : z[s[k]] \in Int, NEW f, NEW g,
         SizesListed(s, z, f), \A k \in 1 .. Len(s) : s[k] # NoAddr,
         \A k \in 1 .. Len(t) : g[t[k]] = IF f[t[k]] = s[p]
                                          THEN (IF p = Len(s) THEN NoAddr ELSE s[p + 1])
                                          ELSE f[t[k]]
  PROVE  SizesListed(t, z, g)
<1>0. PICK l \in Nat : l = Len(t) /\ Len(s) = l + 1 /\ p \in 1 .. l + 1
  BY DEF OneMore
<1>1. \A k \in 1 .. l : Beyond(k, p) \in 1 .. l + 1 /\ Beyond(k, p) # p /\ t[k] = s[Beyond(k, p)]
  BY <1>0, Places
<1>2. \A j \in 1 .. l + 1 : j = p \/ \E k \in 1 .. l : j = Beyond(k, p) /\ s[j] = t[k]
  BY <1>0, Places
<1>3. \A k, m \in 1 .. l : k < m <=> Beyond(k, p) < Beyond(m, p)
  BY <1>0, Places
<1>4. Distinct(s) /\ SizeOrdered(s, z) /\ BiggerExact(s, z, f)
  BY DEF SizesListed
<1>5. Distinct(t)
  BY <1>4, FewerItems
<1>6. SizeOrdered(t, z)
  BY <1>0, <1>1, <1>3, <1>4 DEF SizeOrdered
<1>7. ASSUME NEW n \in 1 .. l PROVE IsFirstBigger(t, z, t[n], g[t[n]])
  <2>1. PICK x : x = t[n]
    OBVIOUS
  <2>2. IsFirstBigger(s, z, x, f[x]) /\ z[x] \in Int
    BY <1>0, <1>1, <1>4, <2>1 DEF BiggerExact
  <2>3. g[x] = IF f[x] = s[p] THEN (IF p = l + 1 THEN NoAddr ELSE s[p + 1]) ELSE f[x]
    BY <1>0, <2>1
  <2>4. CASE f[x] = NoAddr /\ \A m \in 1 .. l + 1 : z[s[m]] <= z[x]
    <3>1. g[x] = NoAddr
      BY <1>0, <2>3, <2>4
    <3> QED
      BY <1>0, <1>1, <2>1, <2>4, <3>1 DEF IsFirstBigger
  <2>5. ASSUME NEW k \in 1 .. l + 1, f[x] = s[k], z[s[k]] > z[x],
               \A m \in 1 .. k - 1 : z[s[m]] <= z[x]
        PROVE  IsFirstBigger(t, z, x, g[x])
    <3>1. CASE k = p
      <4>1. \A m \in 1 .. p - 1 : m \in 1 .. l => t[m] = s[m]
        BY <1>0, <1>1 DEF Beyond
      <4>2. CASE p = l + 1
        <5>1. g[x] = NoAddr
          BY <2>3, <2>5, <3>1, <4>2
        <5>2. \A m \in 1 .. l : z[t[m]] <= z[x]
          BY <1>0, <2>5, <3>1, <4>1, <4>2
        <5> QED
          BY <1>0, <5>1, <5>2 DEF IsFirstBigger
      <4>3. CASE p # l + 1
        <5>1. p \in 1 .. l /\ t[p] = s[p + 1] /\ g[x] = t[p]
          BY <1>0, <1>1, <2>3, <2>5, <3>1, <4>3 DEF Beyond
        <5>2. z[s[p]] <= z[s[p + 1]] /\ z[s[p]] \in Int /\ z[s[p + 1]] \in Int
          BY <1>0, <1>4, <5>1 DEF SizeOrdered
        <5>3. z[t[p]] > z[x]
          BY <2>2, <2>5, <3>1, <5>1, <5>2
        <5>4. \A m \in 1 .. p - 1 : z[t[m]] <= z[x]
          BY <1>0, <2>5, <3>1, <4>1, <5>1
        <5> QED
          BY <1>0, <5>1, <5>3, <5>4 DEF IsFirstBigger
      <4> QED
        BY <4>2, <4>3
    <3>2. CASE k # p
      <4>1. s[k] # s[p]
        BY <1>0, <1>4, <3>2 DEF Distinct
      <4>2. g[x] = s[k]
        BY <2>3, <2>5, <4>1
      <4>3. PICK j \in 1 .. l : k = Beyond(j, p) /\ s[k] = t[j]
        BY <1>2, <3>2
      <4>4. ASSUME NEW m \in 1 .. j - 1 PROVE z[t[m]] <= z[x]
        <5>1. m \in 1 .. l /\ m < j
          BY <4>4
        <5>2. Beyond(m, p) \in 1 .. k - 1 /\ t[m] = s[Beyond(m, p)]
          BY <1>1, <1>3, <4>3, <5>1
        <5> QED
          BY <2>5, <5>2
      <4> QED
        BY <1>0, <2>5, <4>2, <4>3, <4>4 DEF IsFirstBigger
    <3> QED
      BY <3>1, <3>2
  <2> QED
    BY <1>0, <2>1, <2>2, <2>4, <2>5 DEF IsFirstBigger
<1> QED
  BY <1>0, <1>5, <1>6, <1>7 DEF SizesListed, BiggerExact

\* The new item is what the smaller ones in front of it now see.
PutBySize(t, s, p, a, z, f, g) ==
  /\ OneMore(t, s, p) /\ Len(t) \in Nat /\ s[p] = a /\ a \notin Items(t) /\ a # NoAddr
  /\ \A k \in 1 .. Len(t) : z[t[k]] \in Int /\ t[k] # NoAddr
  /\ z[a] \in Int /\ SizesListed(t, z, f)
  /\ \A k \in 1 .. p - 1 : z[t[k]] < z[a]
  /\ p <= Len(t) => z[t[p]] >= z[a]
  /\ g[a] = (IF p > Len(t) THEN NoAddr ELSE IF z[t[p]] > z[a] THEN t[p] ELSE f[t[p]])
  /\ \A k \in 1 .. Len(t) : g[t[k]] = IF k < p /\ (f[t[k]] = NoAddr \/ z[f[t[k]]] >= z[a])
                                      THEN a ELSE f[t[k]]

LEMMA MoreSizes ==
  ASSUME NEW t, NEW s, NEW p, NEW a, NEW z, NEW f, NEW g, PutBySize(t, s, p, a, z, f, g)
  PROVE  SizesListed(s, z, g)
<1> SUFFICES ASSUME
         OneMore(t, s, p), Len(t) \in Nat, s[p] = a, a \notin Items(t),
         \A k \in 1 .. Len(t) : z[t[k]] \in Int, z[a] \in Int,
         SizesListed(t, z, f), \A k \in 1 .. Len(t) : t[k] # NoAddr, a # NoAddr,
         \A k \in 1 .. p - 1 : z[t[k]] < z[a], p <= Len(t) => z[t[p]] >= z[a],
         g[a] = (IF p > Len(t) THEN NoAddr ELSE IF z[t[p]] > z[a] THEN t[p] ELSE f[t[p]]),
         \A k \in 1 .. Len(t) : g[t[k]] = IF k < p /\ (f[t[k]] = NoAddr \/ z[f[t[k]]] >= z[a])
                                          THEN a ELSE f[t[k]]
      PROVE  SizesListed(s, z, g)
  BY DEF PutBySize
<1>0. PICK l \in Nat : l = Len(t) /\ Len(s) = l + 1 /\ p \in 1 .. l + 1
  BY DEF OneMore
<1>1. \A k \in 1 .. l : Beyond(k, p) \in 1 .. l + 1 /\ Beyond(k, p) # p /\ t[k] = s[Beyond(k, p)]
  BY <1>0, Places
<1>2. \A j \in 1 .. l + 1 : j = p \/ \E k \in 1 .. l : j = Beyond(k, p) /\ s[j] = t[k]
  BY <1>0, Places
<1>3. \A k, m \in 1 .. l : k < m <=> Beyond(k, p) < Beyond(m, p)
  BY <1>0, Places
<1>4. Distinct(t) /\ SizeOrdered(t, z) /\ BiggerExact(t, z, f)
  BY DEF SizesListed
<1>5. Distinct(s)
  BY <1>4, MoreItems
<1>6. \A k \in p .. l : z[t[k]] >= z[a]
  <2>1. ASSUME NEW k \in p .. l PROVE z[t[k]] >= z[a]
    <3>1. p \in 1 .. l /\ k \in 1 .. l /\ (p = k \/ p < k)
      BY <1>0
    <3>2. z[t[p]] <= z[t[k]] /\ z[t[p]] >= z[a] /\ z[t[p]] \in Int /\ z[t[k]] \in Int
      BY <1>0, <1>4, <3>1 DEF SizeOrdered
    <3> QED
      BY <3>2
  <2> QED
    BY <2>1
<1>7. SizeOrdered(s, z)
  <2>1. ASSUME NEW i \in 1 .. l + 1, NEW j \in 1 .. l + 1, i < j PROVE z[s[i]] <= z[s[j]]
    <3>1. CASE i = p
      <4>1. PICK k \in 1 .. l : j = Beyond(k, p) /\ s[j] = t[k]
        BY <1>2, <2>1, <3>1
      <4>2. k \in p .. l
        BY <1>0, <2>1, <3>1, <4>1 DEF Beyond
      <4> QED
        BY <1>0, <1>6, <3>1, <4>1, <4>2
    <3>2. CASE j = p
      <4>1. PICK k \in 1 .. l : i = Beyond(k, p) /\ s[i] = t[k]
        BY <1>2, <2>1, <3>2
      <4>2. k \in 1 .. p - 1
        BY <1>0, <2>1, <3>2, <4>1 DEF Beyond
      <4> QED
        BY <1>0, <3>2, <4>1, <4>2
    <3>3. CASE i # p /\ j # p
      <4>1. PICK k \in 1 .. l : i = Beyond(k, p) /\ s[i] = t[k]
        BY <1>2, <3>3
      <4>2. PICK m \in 1 .. l : j = Beyond(m, p) /\ s[j] = t[m]
        BY <1>2, <3>3
      <4>3. k < m
        BY <1>3, <2>1, <4>1, <4>2
      <4> QED
        BY <1>0, <1>4, <4>1, <4>2, <4>3 DEF SizeOrdered
    <3> QED
      BY <3>1, <3>2, <3>3
  <2> QED
    BY <1>0, <2>1 DEF SizeOrdered
\* What follows an item of t in s, up to the place that it has there.
<1>8. ASSUME NEW x, NEW k \in 1 .. l, \A m \in 1 .. k - 1 : z[t[m]] <= z[x],
             k < p \/ z[a] <= z[x], NEW i \in 1 .. Beyond(k, p) - 1
      PROVE  z[s[i]] <= z[x]
  <2>1. i \in 1 .. l + 1 /\ i < Beyond(k, p)
    BY <1>0, <1>1, <1>8
  <2>2. CASE i = p
    <3>1. ~(k < p)
      BY <1>0, <2>1, <2>2 DEF Beyond
    <3> QED
      BY <1>8, <2>2, <3>1
  <2>3. CASE i # p
    <3>1. PICK m \in 1 .. l : i = Beyond(m, p) /\ s[i] = t[m]
      BY <1>2, <2>1, <2>3
    <3>2. m < k
      BY <1>3, <2>1, <3>1
    <3> QED
      BY <1>8, <3>1, <3>2
  <2> QED
    BY <2>2, <2>3
\* So a pointer that is right for t is right for s, unless the new item comes
\* between.
<1>9. ASSUME NEW x, NEW y, IsFirstBigger(t, z, x, y), z[x] \in Int,
             y # NoAddr => \E k \in 1 .. l : y = t[k] /\ (k < p \/ z[a] <= z[x]),
             y = NoAddr => z[a] <= z[x]
      PROVE  IsFirstBigger(s, z, x, y)
  <2>1. CASE y = NoAddr
    <3>1. \A m \in 1 .. l : z[t[m]] <= z[x]
      BY <1>0, <1>9, <2>1 DEF IsFirstBigger
    <3>2. ASSUME NEW i \in 1 .. l + 1 PROVE z[s[i]] <= z[x]
      BY <1>2, <1>9, <2>1, <3>1
    <3> QED
      BY <1>0, <2>1, <3>2 DEF IsFirstBigger
  <2>2. CASE y # NoAddr
    <3>1. PICK k \in 1 .. l : y = t[k] /\ z[t[k]] > z[x] /\ \A m \in 1 .. k - 1 : z[t[m]] <= z[x]
      BY <1>0, <1>9, <2>2 DEF IsFirstBigger
    <3>2. k < p \/ z[a] <= z[x]
      <4>1. PICK j \in 1 .. l : y = t[j] /\ (j < p \/ z[a] <= z[x])
        BY <1>9, <2>2
      <4> QED
        BY <1>0, <1>4, <3>1, <4>1 DEF Distinct
    <3>3. \A i \in 1 .. Beyond(k, p) - 1 : z[s[i]] <= z[x]
      BY <1>8, <3>1, <3>2
    <3>4. Beyond(k, p) \in 1 .. l + 1 /\ s[Beyond(k, p)] = y /\ z[y] > z[x]
      BY <1>1, <3>1
    <3> QED
      BY <1>0, <3>3, <3>4 DEF IsFirstBigger
  <2> QED
    BY <2>1, <2>2
<1>10. ASSUME NEW n \in 1 .. l + 1 PROVE IsFirstBigger(s, z, s[n], g[s[n]])
  <2>1. CASE n = p
    <3>1. CASE p > l
      <4>1. g[a] = NoAddr /\ \A k \in 1 .. l : z[t[k]] <= z[a]
        BY <1>0, <3>1
      <4>2. ASSUME NEW i \in 1 .. l + 1 PROVE z[s[i]] <= z[a]
        BY <1>0, <1>2, <4>1
      <4> QED
        BY <1>0, <2>1, <4>1, <4>2 DEF IsFirstBigger
    <3>2. CASE p <= l /\ z[t[p]] > z[a]
      <4>1. p \in 1 .. l /\ g[a] = t[p]
        BY <1>0, <3>2
      <4>2. IsFirstBigger(t, z, a, t[p])
        <5>1. \A m \in 1 .. p - 1 : z[t[m]] <= z[a]
          BY <1>0
        <5> QED
          BY <1>0, <3>2, <4>1, <5>1 DEF IsFirstBigger
      <4> QED
        BY <1>0, <1>9, <2>1, <4>1, <4>2
    <3>3. CASE p <= l /\ ~(z[t[p]] > z[a])
      <4>1. p \in 1 .. l /\ g[a] = f[t[p]] /\ z[t[p]] = z[a]
        BY <1>0, <3>3
      <4>2. IsFirstBigger(t, z, t[p], f[t[p]])
        BY <1>0, <1>4, <4>1 DEF BiggerExact
      <4>3. IsFirstBigger(t, z, a, g[a])
        BY <4>1, <4>2 DEF IsFirstBigger
      <4>4. g[a] # NoAddr => \E k \in 1 .. l : g[a] = t[k]
        BY <1>0, <4>3 DEF IsFirstBigger
      <4> QED
        BY <1>9, <2>1, <4>3, <4>4
    <3> QED
      BY <1>0, <3>1, <3>2, <3>3
  <2>2. CASE n # p
    <3>1. PICK k \in 1 .. l : n = Beyond(k, p) /\ s[n] = t[k]
      BY <1>2, <2>2
    <3>2. PICK x : x = t[k] /\ z[x] \in Int
      BY <1>0
    <3>3. IsFirstBigger(t, z, x, f[x])
      BY <1>0, <1>4, <3>2 DEF BiggerExact
    <3>4. g[x] = IF k < p /\ (f[x] = NoAddr \/ z[f[x]] >= z[a]) THEN a ELSE f[x]
      BY <1>0, <3>2
    <3>5. f[x] # NoAddr => \E j \in 1 .. l : f[x] = t[j]
      BY <1>0, <3>3 DEF IsFirstBigger
    <3>6. CASE k < p /\ (f[x] = NoAddr \/ z[f[x]] >= z[a])
      <4>1. g[x] = a /\ z[a] > z[x]
        BY <1>0, <3>2, <3>4, <3>6
      <4>2. ASSUME NEW m \in 1 .. p - 1 PROVE z[t[m]] <= z[x]
        <5>1. m \in 1 .. l
          BY <1>0
        <5>2. CASE f[x] = NoAddr
          BY <1>0, <3>3, <5>1, <5>2 DEF IsFirstBigger
        <5>3. CASE f[x] # NoAddr
          <6>1. PICK j \in 1 .. l : f[x] = t[j] /\ \A q \in 1 .. j - 1 : z[t[q]] <= z[x]
            BY <1>0, <3>3, <5>3 DEF IsFirstBigger
          <6>2. ~(j < p)
            BY <1>0, <3>6, <5>3, <6>1
          <6> QED
            BY <1>0, <6>1, <6>2
        <5> QED
          BY <5>2, <5>3
      <4>3. ASSUME NEW m \in 1 .. p - 1 PROVE z[s[m]] <= z[x]
        <5>1. m \in 1 .. l /\ s[m] = t[m]
          BY <1>0 DEF OneMore
        <5> QED
          BY <4>2, <5>1
      <4> QED
        BY <1>0, <3>1, <3>2, <4>1, <4>3 DEF IsFirstBigger
    <3>7. CASE k < p /\ f[x] # NoAddr /\ ~(z[f[x]] >= z[a])
      <4>1. PICK j \in 1 .. l : f[x] = t[j]
        BY <3>5, <3>7
      <4>2. j < p
        BY <1>0, <1>6, <3>7, <4>1
      <4>3. g[x] = f[x]
        BY <3>4, <3>7
      <4> QED
        BY <1>9, <3>1, <3>2, <3>3, <3>7, <4>1, <4>2, <4>3
    <3>8. CASE ~(k < p)
      <4>1. z[a] <= z[x] /\ g[x] = f[x]
        BY <1>0, <1>6, <3>2, <3>4, <3>8
      <4> QED
        BY <1>9, <3>1, <3>2, <3>3, <3>5, <4>1
    <3> QED
      BY <3>6, <3>7, <3>8
  <2> QED
    BY <2>1, <2>2
<1> QED
  BY <1>0, <1>5, <1>7, <1>10 DEF SizesListed, BiggerExact

\* The sizes of regions that are not on the list do not matter to it.
LEMMA SizesSame ==
  ASSUME NEW s, NEW z, NEW w, NEW f, SizesListed(s, z, f), \A x \in Items(s) : w[x] = z[x]
  PROVE  SizesListed(s, w, f)
<1>1. \A k \in 1 .. Len(s) : w[s[k]] = z[s[k]]
  BY DEF Items
<1>2. Distinct(s) /\ SizeOrdered(s, z) /\ BiggerExact(s, z, f)
  BY DEF SizesListed
<1>3. SizeOrdered(s, w)
  BY <1>1, <1>2 DEF SizeOrdered
<1>4. ASSUME NEW n \in 1 .. Len(s) PROVE IsFirstBigger(s, w, s[n], f[s[n]])
  <2>1. IsFirstBigger(s, z, s[n], f[s[n]])
    BY <1>2 DEF BiggerExact
  <2>2. CASE f[s[n]] = NoAddr /\ \A m \in 1 .. Len(s) : z[s[m]] <= z[s[n]]
    BY <1>1, <2>2 DEF IsFirstBigger
  <2>3. ASSUME NEW k \in 1 .. Len(s), f[s[n]] = s[k], z[s[k]] > z[s[n]],
               \A m \in 1 .. k - 1 : z[s[m]] <= z[s[n]], Len(s) \in Nat
        PROVE  IsFirstBigger(s, w, s[n], f[s[n]])
    <3>1. \A m \in 1 .. k - 1 : w[s[m]] <= w[s[n]]
      <4>1. \A m \in 1 .. k - 1 : m \in 1 .. Len(s)
        BY <2>3
      <4> QED
        BY <1>1, <2>3, <4>1
    <3> QED
      BY <1>1, <2>3, <3>1 DEF IsFirstBigger
  <2> QED
    BY <2>1, <2>2, <2>3 DEF IsFirstBigger
<1> QED
  BY <1>2, <1>3, <1>4 DEF SizesListed, BiggerExact

LEMMA AddrsAre ==
  ASSUME Rg!RegionAssumption
  PROVE  /\ AddrSpace \in Nat \ {0} /\ Rg!Addrs = 0 .. AddrSpace - 1 /\ NoAddr \notin Rg!Addrs
         /\ \A s \in Seq(Rg!Addrs) : Items(s) \subseteq Rg!Addrs
<1>1. ASSUME NEW s \in Seq(Rg!Addrs), NEW k \in 1 .. Len(s) PROVE s[k] \in Rg!Addrs
  BY ElementOfSeq
<1> QED
  BY <1>1 DEF Rg!RegionAssumption, Rg!Addrs, Items

LEMMA PlaceIs ==
  ASSUME NEW S, NEW s \in Seq(S), NEW a \in Items(s)
  PROVE  Rg!Place(s, a) \in 1 .. Len(s) /\ s[Rg!Place(s, a)] = a
<1>1. \E n \in DOMAIN s : s[n] = a
  BY DEF Items
<1>2. Rg!Place(s, a) \in DOMAIN s /\ s[Rg!Place(s, a)] = a
  BY <1>1 DEF Rg!Place
<1> QED
  BY <1>2

-----------------------------------------------------------------------------
\* The regions R of the sizes z fill the space, each page once.
Tiles(R, z) ==
  /\ R \subseteq Rg!Addrs
  /\ \A a \in R : z[a] > 0 /\ a + z[a] <= AddrSpace
  /\ \A a, b \in R : a < b => a + z[a] <= b
  /\ \A x \in Rg!Addrs : \E a \in R : a <= x /\ x < a + z[a]

Apart(F, z) == \A a, b \in F : a + z[a] # b

Sound(r, S) ==
  /\ Listed(r)
  /\ Tiles(Items(r.by_addr) \cup r.used \cup S, r.size)
  /\ Items(r.by_addr) \cap r.used = {} /\ S \cap (Items(r.by_addr) \cup r.used) = {}
  /\ Apart(Items(r.by_addr), r.size)

LEMMA JoinTiles ==
  ASSUME Rg!RegionAssumption, NEW R, NEW z \in [Rg!Addrs -> Nat], Tiles(R, z),
         NEW a \in R, NEW b \in R, a + z[a] = b,
         NEW w \in [Rg!Addrs -> Nat], w[a] = z[a] + z[b], \A x \in R \ {a, b} : w[x] = z[x]
  PROVE  Tiles(R \ {b}, w)
<1>0. AddrSpace \in Nat \ {0} /\ Rg!Addrs = 0 .. AddrSpace - 1 /\ R \subseteq Rg!Addrs
  BY AddrsAre DEF Tiles
<1>1. \A x \in R : z[x] > 0 /\ x + z[x] <= AddrSpace /\ z[x] \in Nat /\ w[x] \in Nat /\ x \in Nat
  BY <1>0 DEF Tiles
<1>2. a < b
  BY <1>1
<1>3. \A x \in R \ {b} : w[x] > 0 /\ x + w[x] <= AddrSpace
  BY <1>1
<1>4. ASSUME NEW x \in R \ {b}, NEW y \in R \ {b}, x < y PROVE x + w[x] <= y
  <2>1. x + z[x] <= y
    BY <1>4 DEF Tiles
  <2>2. CASE x = a
    <3>1. y > b
      BY <1>1, <1>4, <2>1, <2>2
    <3>2. b + z[b] <= y
      BY <3>1, <1>4 DEF Tiles
    <3> QED
      BY <1>1, <2>2, <3>2
  <2> QED
    BY <1>4, <2>1, <2>2
<1>5. ASSUME NEW x \in Rg!Addrs PROVE \E y \in R \ {b} : y <= x /\ x < y + w[y]
  <2>1. PICK y \in R : y <= x /\ x < y + z[y]
    BY DEF Tiles
  <2>2. x \in Nat /\ a \in Nat /\ b \in Nat /\ z[a] \in Nat /\ z[b] \in Nat /\ a \in R \ {b}
    BY <1>0, <1>1, <1>2
  <2>3. CASE y = a \/ y = b
    <3>1. a <= x /\ x < a + w[a]
      BY <2>1, <2>2, <2>3
    <3> QED
      BY <2>2, <3>1
  <2>4. CASE y # a /\ y # b
    BY <2>1, <2>4
  <2> QED
    BY <2>3, <2>4
<1> QED
  BY <1>0, <1>3, <1>4, <1>5 DEF Tiles

\* The region i of the tiling R by the sizes z is cut at b, which gives w.
CutAt(R, z, i, b, w) ==
  /\ Tiles(R, z) /\ i \in R /\ b \in Rg!Addrs /\ b = i + w[i]
  /\ z \in [Rg!Addrs -> Nat] /\ w \in [Rg!Addrs -> Nat]
  /\ w[i] > 0 /\ w[b] > 0 /\ w[i] + w[b] = z[i] /\ \A x \in R \ {i} : w[x] = z[x]

LEMMA SplitTiles ==
  ASSUME Rg!RegionAssumption, NEW R, NEW z, NEW i, NEW b, NEW w, CutAt(R, z, i, b, w)
  PROVE  Tiles(R \cup {b}, w) /\ b \notin R
<1> SUFFICES ASSUME
        z \in [Rg!Addrs -> Nat], Tiles(R, z), i \in R, w \in [Rg!Addrs -> Nat], w[i] > 0,
         b = i + w[i], w[b] > 0, w[i] + w[b] = z[i], \A x \in R \ {i} : w[x] = z[x], b \in Rg!Addrs
      PROVE  Tiles(R \cup {b}, w) /\ b \notin R
  BY DEF CutAt
<1>0. AddrSpace \in Nat \ {0} /\ Rg!Addrs = 0 .. AddrSpace - 1 /\ R \subseteq Rg!Addrs
  BY AddrsAre DEF Tiles
<1>1. \A x \in R \cup {b} : z[x] \in Nat /\ w[x] \in Nat /\ x \in Nat
  BY <1>0
<1>2. \A x \in R : z[x] > 0 /\ x + z[x] <= AddrSpace
  BY DEF Tiles
<1>3. i < b /\ b + w[b] = i + z[i]
  BY <1>1
<1>4. \A x \in R : ~(i < x /\ x < i + z[i])
  BY <1>1 DEF Tiles
<1>5. b \notin R
  BY <1>1, <1>3, <1>4
<1>6. ASSUME NEW x \in R \cup {b} PROVE w[x] > 0 /\ x + w[x] <= AddrSpace
  <2>1. i + z[i] <= AddrSpace /\ b + w[b] <= AddrSpace
    BY <1>2, <1>3
  <2>2. CASE x = b
    BY <2>1, <2>2
  <2>3. CASE x = i
    BY <1>0, <1>1, <1>3, <2>1, <2>3
  <2>4. CASE x \in R \ {i}
    BY <1>2, <2>4
  <2> QED
    BY <2>2, <2>3, <2>4
<1>7. ASSUME NEW x \in R \cup {b}, NEW y \in R \cup {b}, x < y PROVE x + w[x] <= y
  <2>1. CASE x \in R \ {i} /\ y \in R
    BY <1>7, <2>1 DEF Tiles
  <2>2. CASE x = i /\ y \in R
    <3>1. i + z[i] <= y
      BY <1>7, <2>2 DEF Tiles
    <3> QED
      BY <1>1, <2>2, <3>1
  <2>3. CASE x \in R \ {i} /\ y = b
    <3>1. x < i \/ x > i
      BY <1>1, <2>3
    <3>2. x < i
      BY <1>1, <1>3, <1>4, <1>7, <2>3, <3>1
    <3>3. x + z[x] <= i
      BY <2>3, <3>2 DEF Tiles
    <3> QED
      BY <1>1, <1>3, <2>3, <3>3
  <2>4. CASE x = i /\ y = b
    BY <1>1, <2>4
  <2>5. CASE x = b /\ y \in R
    <3>1. y >= i + z[i]
      BY <1>1, <1>3, <1>4, <1>7, <2>5
    <3> QED
      BY <1>3, <2>5, <3>1
  <2> QED
    BY <1>1, <1>7, <2>1, <2>2, <2>3, <2>4, <2>5
<1>8. ASSUME NEW x \in Rg!Addrs PROVE \E y \in R \cup {b} : y <= x /\ x < y + w[y]
  <2>1. PICK y \in R : y <= x /\ x < y + z[y]
    BY DEF Tiles
  <2>2. x \in Nat
    BY <1>0
  <2>3. CASE y = i
    <3>1. (i <= x /\ x < i + w[i]) \/ (b <= x /\ x < b + w[b])
      BY <1>1, <1>3, <2>1, <2>2, <2>3
    <3> QED
      BY <3>1
  <2>4. CASE y # i
    BY <2>1, <2>4
  <2> QED
    BY <2>3, <2>4
<1> QED
  BY <1>0, <1>5, <1>6, <1>7, <1>8 DEF Tiles

-----------------------------------------------------------------------------
(***************************************************************************)
(* The links of the chain.                                                 *)
(***************************************************************************)

\* The allocator q is r without the free region a.
Without(q, r, a) ==
  /\ Listed(q) /\ Items(q.by_addr) = Items(r.by_addr) \ {a}
  /\ q.size = r.size /\ q.used = r.used /\ q.unused = r.unused
  /\ Len(q.by_addr) + 1 = Len(r.by_addr)

\* remove_free_region() takes a region off both lists, and what pointed to it
\* points to the next one.
LEMMA RemovedIs ==
  ASSUME Rg!RegionAssumption, NEW r, Listed(r), NEW a \in Items(r.by_addr)
  PROVE  Without(Rg!remove_free_region(r, a), r, a)
<1>0. /\ r \in Allocators /\ AddrOrdered(r.by_addr) /\ SizesListed(r.by_size, r.size, r.first_bigger)
      /\ Items(r.by_size) = Items(r.by_addr)
  BY DEF Listed
<1>1. /\ r.by_addr \in Seq(Rg!Addrs) /\ r.by_size \in Seq(Rg!Addrs) /\ r.size \in [Rg!Addrs -> Nat]
      /\ r.first_bigger \in [Rg!Addrs -> Rg!Addrs \cup {NoAddr}]
      /\ r.used \in SUBSET Rg!Addrs /\ r.unused \in Int
  BY <1>0 DEF Allocators
<1>2. PICK s \in Seq(Rg!Addrs) : s = r.by_addr
  BY <1>1
<1>3. PICK u \in Seq(Rg!Addrs) : u = r.by_size
  BY <1>1
<1>4. PICK p \in 1 .. Len(s) : p = Rg!Place(s, a) /\ s[p] = a
  <2>1. a \in Items(s)
    BY <1>2
  <2> QED
    BY <1>2, <2>1, PlaceIs
<1>5. PICK n \in 1 .. Len(u) : n = Rg!Place(u, a) /\ u[n] = a
  <2>1. a \in Items(u)
    BY <1>0, <1>3
  <2> QED
    BY <1>3, <2>1, PlaceIs
<1>6. PICK t \in Seq(Rg!Addrs) : t = Rg!RemoveAt(s, p) /\ OneMore(t, s, p)
  BY <1>4, RemoveIs
<1>7. PICK v \in Seq(Rg!Addrs) : v = Rg!RemoveAt(u, n) /\ OneMore(v, u, n)
  BY <1>5, RemoveIs
<1>8. PICK g : g = Rg!Relinked(r, a)
  OBVIOUS
<1>9. PICK f \in [Rg!Addrs -> Rg!Addrs \cup {NoAddr}] : f = r.first_bigger
  BY <1>1
<1>10. Rg!NextIn(u, a) = (IF n = Len(u) THEN NoAddr ELSE u[n + 1])
  BY <1>5 DEF Rg!NextIn
<1>11. Rg!NextIn(u, a) \in Rg!Addrs \cup {NoAddr}
  <2>1. CASE n = Len(u)
    BY <1>10, <2>1
  <2>2. CASE n # Len(u)
    <3>1. n + 1 \in 1 .. Len(u)
      BY <1>5, <2>2
    <3> QED
      BY <1>10, <2>2, <3>1, ElementOfSeq
  <2> QED
    BY <2>1, <2>2
<1>12. g = [x \in Rg!Addrs |-> IF x = a THEN NoAddr
                               ELSE IF f[x] = a THEN Rg!NextIn(u, a) ELSE f[x]]
  BY <1>3, <1>8, <1>9 DEF Rg!Relinked
<1>13. g \in [Rg!Addrs -> Rg!Addrs \cup {NoAddr}]
  BY <1>11, <1>12
<1>14. AddrOrdered(t) /\ Items(t) = Items(s) \ {a} /\ Len(s) = Len(t) + 1
  <2>1. AddrOrdered(s) /\ Distinct(s) /\ Len(t) \in Nat
    BY <1>0, <1>2, OrderedDiffer
  <2>2. AddrOrdered(t)
    BY <1>6, <2>1, FewerAddrs
  <2>3. Items(t) = Items(s) \ {s[p]}
    BY <1>6, <2>1, FewerItems
  <2>4. Len(s) = Len(t) + 1
    BY <1>6 DEF OneMore
  <2> QED
    BY <1>4, <2>2, <2>3, <2>4
<1>15. PICK z \in [Rg!Addrs -> Nat] : z = r.size
  BY <1>1
<1>16. SizesListed(u, z, f)
  BY <1>0, <1>3, <1>9, <1>15
<1>17. Items(v) = Items(u) \ {a}
  <2>1. Distinct(u) /\ Len(v) \in Nat
    BY <1>16 DEF SizesListed
  <2>2. Items(v) = Items(u) \ {u[n]}
    BY <1>7, <2>1, FewerItems
  <2> QED
    BY <1>5, <2>2
<1>18. SizesListed(v, z, g)
  <2>1. \A k \in 1 .. Len(u) : u[k] \in Rg!Addrs
    BY <1>3, ElementOfSeq
  <2>2. \A k \in 1 .. Len(u) : z[u[k]] \in Int /\ u[k] # NoAddr
    BY <1>15, <2>1, AddrsAre
  <2>3. ASSUME NEW k \in 1 .. Len(v)
        PROVE  g[v[k]] = IF f[v[k]] = u[n] THEN (IF n = Len(u) THEN NoAddr ELSE u[n + 1]) ELSE f[v[k]]
    <3>1. v[k] \in Items(v) /\ v[k] \in Rg!Addrs
      BY <1>7, <2>3, ElementOfSeq DEF Items
    <3>2. v[k] # a
      BY <1>17, <3>1
    <3> QED
      BY <1>5, <1>10, <1>12, <3>1, <3>2
  <2>4. Len(v) \in Nat
    OBVIOUS
  <2> QED
    BY <1>7, <1>16, <2>2, <2>3, <2>4, FewerSizes
<1>19. PICK q : q = Rg!remove_free_region(r, a)
  OBVIOUS
<1>20. q = [r EXCEPT !.first_bigger = g, !.by_size = v, !.by_addr = t]
  BY <1>2, <1>3, <1>4, <1>5, <1>6, <1>7, <1>8, <1>19 DEF Rg!remove_free_region
<1>21. /\ q \in Allocators /\ q.by_addr = t /\ q.by_size = v /\ q.size = r.size /\ q.first_bigger = g
       /\ q.used = r.used /\ q.unused = r.unused
  BY <1>0, <1>13, <1>20 DEF Allocators
<1>22. Items(v) = Items(t)
  BY <1>0, <1>2, <1>3, <1>14, <1>17
<1>23. Listed(q)
  BY <1>14, <1>15, <1>18, <1>21, <1>22 DEF Listed
<1> QED
  BY <1>2, <1>14, <1>19, <1>21, <1>23 DEF Without

\* Nothing but sizes of regions that are not free, and what is used.
LEMMA StillListed ==
  ASSUME NEW q, Listed(q), NEW r \in Allocators, r.by_addr = q.by_addr, r.by_size = q.by_size,
         r.first_bigger = q.first_bigger, \A x \in Items(q.by_addr) : r.size[x] = q.size[x]
  PROVE  Listed(r)
<1>1. /\ AddrOrdered(q.by_addr) /\ SizesListed(q.by_size, q.size, q.first_bigger)
      /\ Items(q.by_size) = Items(q.by_addr)
  BY DEF Listed
<1>2. SizesListed(q.by_size, r.size, q.first_bigger)
  BY <1>1, SizesSame
<1> QED
  BY <1>1, <1>2 DEF Listed

\* The allocator q is r after the regions a and b, of which g was free, have
\* become a, which is on no list.
JoinedUp(q, r, a, b, g) ==
  /\ Sound(q, {a}) /\ Items(q.by_addr) = Items(r.by_addr) \ {g}
  /\ q.used = r.used /\ q.unused = r.unused + 1 /\ Len(q.by_addr) + 1 = Len(r.by_addr)
  /\ q.size[a] = r.size[a] + r.size[b]
  /\ \A x \in Items(q.by_addr) \cup r.used : q.size[x] = r.size[x]

LEMMA JoinedIs ==
  ASSUME Rg!RegionAssumption, NEW r, NEW o, Sound(r, {o}), NEW g \in Items(r.by_addr),
         NEW a, NEW b, a + r.size[a] = b, (a = g /\ b = o) \/ (a = o /\ b = g)
  PROVE  JoinedUp(Rg!Joined(r, a, b, g), r, a, b, g)
<1>1. PICK q : q = Rg!remove_free_region(r, g)
  OBVIOUS
<1>2. PICK F \in SUBSET Rg!Addrs : F = Items(r.by_addr)
  BY AddrsAre DEF Sound, Listed, Allocators
<1>3. PICK U \in SUBSET Rg!Addrs : U = r.used
  BY DEF Sound, Listed, Allocators
<1>4. PICK z \in [Rg!Addrs -> Nat] : z = r.size
  BY DEF Sound, Listed, Allocators
<1>5. /\ Listed(r) /\ Tiles(F \cup U \cup {o}, z) /\ F \cap U = {} /\ {o} \cap (F \cup U) = {}
      /\ Apart(F, z)
  BY <1>2, <1>3, <1>4 DEF Sound
<1>6. g \in F /\ o \in Rg!Addrs /\ o \notin F /\ o \notin U /\ g \notin U /\ g # o
  BY <1>2, <1>5 DEF Tiles
<1>7. Without(q, r, g)
  BY <1>1, <1>5, RemovedIs
<1>8. /\ Listed(q) /\ Items(q.by_addr) = F \ {g} /\ q.size = z /\ q.used = U
      /\ q.unused = r.unused /\ Len(q.by_addr) + 1 = Len(r.by_addr)
  BY <1>2, <1>3, <1>4, <1>7 DEF Without
<1>9. a \in Rg!Addrs /\ b \in Rg!Addrs /\ a # b
  BY <1>6
<1>10. PICK w : w = [z EXCEPT ![a] = z[a] + z[b], ![b] = 0]
  OBVIOUS
<1>11. /\ w \in [Rg!Addrs -> Nat] /\ w[a] = z[a] + z[b]
       /\ \A x \in Rg!Addrs \ {a, b} : w[x] = z[x]
  BY <1>9, <1>10
<1>12. PICK j : j = Rg!Joined(r, a, b, g)
  OBVIOUS
<1>14. q \in Allocators /\ q.unused \in Int
  BY <1>8 DEF Listed, Allocators
<1>0. PICK n \in Int : n = q.unused + 1
  BY <1>14
<1>13. j = [q EXCEPT !.size = w, !.unused = n]
  BY <1>0, <1>1, <1>4, <1>8, <1>10, <1>12 DEF Rg!Joined
<1>15. /\ j \in Allocators /\ j.by_addr = q.by_addr /\ j.by_size = q.by_size
       /\ j.first_bigger = q.first_bigger /\ j.size = w /\ j.used = U /\ j.unused = r.unused + 1
  <2>1. j \in Allocators
    BY <1>11, <1>13, <1>14 DEF Allocators
  <2>2. /\ j.by_addr = q.by_addr /\ j.by_size = q.by_size /\ j.first_bigger = q.first_bigger
        /\ j.size = w /\ j.used = q.used /\ j.unused = n
    BY <1>13, <1>14 DEF Allocators
  <2> QED
    BY <1>0, <1>8, <2>1, <2>2
<1>16. \A x \in (F \ {g}) \cup U : x \in Rg!Addrs \ {a, b}
  BY <1>6
<1>17. Listed(j)
  <2>1. \A x \in Items(q.by_addr) : j.size[x] = q.size[x]
    BY <1>8, <1>11, <1>15, <1>16
  <2> QED
    BY <1>8, <1>15, <2>1, StillListed
<1>18. Tiles((F \ {g}) \cup U \cup {a}, w)
  <2>1. PICK R : R = F \cup U \cup {o}
    OBVIOUS
  <2>2. Tiles(R, z) /\ a \in R /\ b \in R /\ a + z[a] = b /\ R \subseteq Rg!Addrs
    BY <1>4, <1>5, <1>6, <2>1 DEF Tiles
  <2>3. \A x \in R \ {a, b} : w[x] = z[x]
    BY <1>11, <2>2
  <2>4. Tiles(R \ {b}, w)
    BY <1>11, <2>2, <2>3, JoinTiles
  <2>5. R \ {b} = (F \ {g}) \cup U \cup {a}
    BY <1>6, <2>1
  <2> QED
    BY <2>4, <2>5
<1>19. Apart(F \ {g}, w)
  BY <1>5, <1>11, <1>16 DEF Apart
<1>20. Items(j.by_addr) = F \ {g} /\ j.size = w /\ j.used = U
  BY <1>8, <1>15
<1>21. (F \ {g}) \cap U = {} /\ {a} \cap ((F \ {g}) \cup U) = {}
  BY <1>5, <1>6
<1>22. Sound(j, {a})
  BY <1>17, <1>18, <1>19, <1>20, <1>21 DEF Sound
<1>23. \A x \in (F \ {g}) \cup U : j.size[x] = r.size[x]
  BY <1>4, <1>11, <1>15, <1>16
<1>24. j.size[a] = r.size[a] + r.size[b]
  BY <1>4, <1>11, <1>15
<1>25. Len(j.by_addr) + 1 = Len(r.by_addr) /\ j.unused = r.unused + 1
  BY <1>8, <1>15
<1> QED
  BY <1>2, <1>3, <1>12, <1>20, <1>22, <1>23, <1>24, <1>25 DEF JoinedUp

\* A set of places that has the last one has a first one.
LEMMA FirstPlace ==
  ASSUME NEW l \in Nat, NEW S \in SUBSET (1 .. l), S # {}
  PROVE  Rg!Min(S) \in S /\ \A k \in S : Rg!Min(S) <= k
<1> DEFINE B == {m \in Nat : \A k \in S : m <= k}
<1>1. \E x \in S : \A y \in S : x <= y
  <2> SUFFICES ASSUME \A x \in S : \E y \in S : y < x PROVE FALSE
    OBVIOUS
  <2>1. 0 \in B
    OBVIOUS
  <2>2. ASSUME NEW m \in Nat, m \in B PROVE m + 1 \in B
    <3>1. \A k \in S : m <= k
      BY <2>2
    <3>2. ASSUME NEW k \in S PROVE m + 1 <= k
      <4>1. PICK y \in S : y < k
        OBVIOUS
      <4> QED
        BY <3>1, <4>1
    <3> QED
      BY <3>2
  <2>3. Nat \subseteq B
    <3> HIDE DEF B
    <3> QED
      BY <2>1, <2>2, SetInduction
  <2>4. \A k \in S : l + 1 <= k
    BY <2>3
  <2>5. PICK k : k \in S
    OBVIOUS
  <2>6. k \in Int /\ k <= l
    BY <2>5
  <2> QED
    BY <2>4, <2>5, <2>6
<1>2. Rg!Min(S) = CHOOSE x \in S : \A y \in S : x <= y
  BY DEF Rg!Min
<1> QED
  BY <1>1, <1>2

\* The places that add_free_region() finds.
LEMMA AddrPlaceIs ==
  ASSUME Rg!RegionAssumption, NEW r, Listed(r), NEW a \in Rg!Addrs, a \notin Items(r.by_addr)
  PROVE  /\ Rg!AddrPlace(r, a) \in 1 .. Len(r.by_addr) + 1
         /\ \A k \in 1 .. Len(r.by_addr) : IF k < Rg!AddrPlace(r, a) THEN r.by_addr[k] < a
                                                                    ELSE a < r.by_addr[k]
<1>1. PICK s \in Seq(Rg!Addrs) : s = r.by_addr /\ AddrOrdered(s) /\ a \notin Items(s)
  BY DEF Listed, Allocators
<1>2. PICK l \in Nat : l = Len(s)
  OBVIOUS
<1>3. \A k \in 1 .. l : s[k] \in Int /\ s[k] # a
  <2>1. \A k \in 1 .. l : s[k] \in Rg!Addrs /\ s[k] # a
    BY <1>1, <1>2, ElementOfSeq DEF Items
  <2>2. Rg!Addrs = 0 .. AddrSpace - 1 /\ AddrSpace \in Nat
    BY AddrsAre
  <2> QED
    BY <2>1, <2>2
<1>4. PICK S \in SUBSET (1 .. l + 1) : S = {n \in 1 .. l + 1 : n <= l => s[n] > a}
  OBVIOUS
<1>5. PICK p : p = Rg!Min(S)
  OBVIOUS
<1>6. p \in S /\ \A k \in S : p <= k
  <2>1. l + 1 \in S /\ l + 1 \in Nat
    BY <1>4
  <2> QED
    BY <1>5, <2>1, FirstPlace
<1>7. p = Rg!AddrPlace(r, a)
  BY <1>1, <1>2, <1>4, <1>5 DEF Rg!AddrPlace
<1>8. a \in Int
  BY AddrsAre
<1>9. ASSUME NEW k \in 1 .. l PROVE IF k < p THEN s[k] < a ELSE a < s[k]
  <2>1. CASE k < p
    <3>1. k \notin S /\ k \in 1 .. l + 1
      BY <1>6, <2>1
    <3>2. ~(s[k] > a)
      BY <1>4, <3>1
    <3> QED
      BY <1>3, <1>8, <2>1, <3>2
  <2>2. CASE ~(k < p)
    <3>1. p \in 1 .. l /\ s[p] > a
      BY <1>4, <1>6, <2>2
    <3>2. p = k \/ p < k
      BY <2>2, <3>1
    <3>3. s[p] <= s[k]
      BY <1>1, <1>2, <1>3, <3>1, <3>2 DEF AddrOrdered
    <3> QED
      BY <1>3, <1>8, <2>2, <3>1, <3>3
  <2> QED
    BY <2>1, <2>2
<1> QED
  BY <1>1, <1>2, <1>4, <1>6, <1>7, <1>9

LEMMA SizePlaceIs ==
  ASSUME Rg!RegionAssumption, NEW r, Listed(r), NEW a \in Rg!Addrs
  PROVE  /\ Rg!SizePlace(r, a) \in 1 .. Len(r.by_size) + 1
         /\ \A k \in 1 .. Rg!SizePlace(r, a) - 1 : r.size[r.by_size[k]] < r.size[a]
         /\ Rg!SizePlace(r, a) <= Len(r.by_size) => r.size[r.by_size[Rg!SizePlace(r, a)]] >= r.size[a]
<1>1. PICK s \in Seq(Rg!Addrs) : s = r.by_size
  BY DEF Listed, Allocators
<1>2. PICK z \in [Rg!Addrs -> Nat] : z = r.size
  BY DEF Listed, Allocators
<1>3. PICK l \in Nat : l = Len(s)
  OBVIOUS
<1>4. \A k \in 1 .. l : z[s[k]] \in Int
  BY <1>1, <1>2, <1>3, ElementOfSeq
<1>5. PICK S \in SUBSET (1 .. l + 1) : S = {n \in 1 .. l + 1 : n <= l => z[s[n]] >= z[a]}
  OBVIOUS
<1>6. PICK p : p = Rg!Min(S)
  OBVIOUS
<1>7. p \in S /\ \A k \in S : p <= k
  <2>1. l + 1 \in S /\ l + 1 \in Nat
    BY <1>5
  <2> QED
    BY <1>6, <2>1, FirstPlace
<1>8. p = Rg!SizePlace(r, a)
  BY <1>1, <1>2, <1>3, <1>5, <1>6 DEF Rg!SizePlace
<1>9. z[a] \in Int
  BY <1>2
<1>10. ASSUME NEW k \in 1 .. p - 1 PROVE z[s[k]] < z[a]
  <2>1. k \in 1 .. l /\ k \in 1 .. l + 1 /\ k \notin S
    BY <1>5, <1>7
  <2>2. ~(z[s[k]] >= z[a])
    BY <1>5, <2>1
  <2> QED
    BY <1>4, <1>9, <2>1, <2>2
<1>11. p \in 1 .. l + 1 /\ (p <= l => z[s[p]] >= z[a])
  BY <1>5, <1>7
<1> QED
  BY <1>1, <1>2, <1>3, <1>8, <1>10, <1>11

\* The region that add_free_region() has joined up touches no other.
PutIn(q, r, a) ==
  /\ Sound(q, {}) /\ Items(q.by_addr) = Items(r.by_addr) \cup {a}
  /\ q.used = r.used /\ q.size = r.size /\ q.unused = r.unused
  /\ Len(q.by_addr) = Len(r.by_addr) + 1

LEMMA InsertedIs ==
  ASSUME Rg!RegionAssumption, NEW r, NEW a, Sound(r, {a}),
         \A x \in Items(r.by_addr) : x + r.size[x] # a /\ a + r.size[a] # x
  PROVE  PutIn(Rg!Inserted(r, a), r, a)
<1>0. /\ Listed(r) /\ r \in Allocators /\ a \in Rg!Addrs /\ a \notin Items(r.by_addr) /\ a # NoAddr
      /\ AddrOrdered(r.by_addr) /\ SizesListed(r.by_size, r.size, r.first_bigger)
      /\ Items(r.by_size) = Items(r.by_addr)
  BY AddrsAre DEF Sound, Listed, Tiles
<1>1. /\ r.by_addr \in Seq(Rg!Addrs) /\ r.by_size \in Seq(Rg!Addrs) /\ r.size \in [Rg!Addrs -> Nat]
      /\ r.first_bigger \in [Rg!Addrs -> Rg!Addrs \cup {NoAddr}]
      /\ r.used \in SUBSET Rg!Addrs /\ r.unused \in Int
  BY <1>0 DEF Allocators
<1>2. PICK s \in Seq(Rg!Addrs) : s = r.by_addr
  BY <1>1
<1>3. PICK u \in Seq(Rg!Addrs) : u = r.by_size
  BY <1>1
<1>4. PICK z \in [Rg!Addrs -> Nat] : z = r.size
  BY <1>1
<1>5. PICK f \in [Rg!Addrs -> Rg!Addrs \cup {NoAddr}] : f = r.first_bigger
  BY <1>1
<1>6. PICK p \in 1 .. Len(s) + 1 :
         /\ p = Rg!AddrPlace(r, a)
         /\ \A k \in 1 .. Len(s) : IF k < p THEN s[k] < a ELSE a < s[k]
  BY <1>0, <1>2, AddrPlaceIs
<1>7. PICK n \in 1 .. Len(u) + 1 :
         /\ n = Rg!SizePlace(r, a) /\ \A k \in 1 .. n - 1 : z[u[k]] < z[a]
         /\ n <= Len(u) => z[u[n]] >= z[a]
  BY <1>0, <1>3, <1>4, SizePlaceIs
<1>8. PICK t \in Seq(Rg!Addrs) : t = Rg!InsertAt(s, p, a) /\ t[p] = a /\ OneMore(s, t, p)
  BY <1>0, <1>6, InsertIs
<1>9. PICK v \in Seq(Rg!Addrs) : v = Rg!InsertAt(u, n, a) /\ v[n] = a /\ OneMore(u, v, n)
  BY <1>0, <1>7, InsertIs
<1>10. PICK g : g = [x \in Rg!Addrs |->
          IF x = a THEN Rg!Bigger(r, a, n)
          ELSE IF (\E m \in 1 .. n - 1 : u[m] = x) /\ (f[x] = NoAddr \/ z[f[x]] >= z[a]) THEN a
          ELSE f[x]]
  OBVIOUS
<1>11. PICK q : q = Rg!Inserted(r, a)
  OBVIOUS
<1>12. q = [r EXCEPT !.by_addr = t, !.by_size = v, !.first_bigger = g]
  BY <1>2, <1>3, <1>4, <1>5, <1>6, <1>7, <1>8, <1>9, <1>10, <1>11 DEF Rg!Inserted
<1>13. Rg!Bigger(r, a, n) = (IF n > Len(u) THEN NoAddr ELSE IF z[u[n]] > z[a] THEN u[n] ELSE f[u[n]])
  BY <1>3, <1>4, <1>5 DEF Rg!Bigger
<1>14. Rg!Bigger(r, a, n) \in Rg!Addrs \cup {NoAddr}
  <2>1. CASE n > Len(u)
    BY <1>13, <2>1
  <2>2. CASE ~(n > Len(u))
    <3>1. u[n] \in Rg!Addrs
      <4>1. n \in 1 .. Len(u)
        BY <1>7, <2>2
      <4> QED
        BY <4>1, ElementOfSeq
    <3> QED
      BY <1>5, <1>13, <2>2, <3>1
  <2> QED
    BY <2>1, <2>2
<1>15. g \in [Rg!Addrs -> Rg!Addrs \cup {NoAddr}]
  BY <1>0, <1>5, <1>10, <1>14
<1>16. AddrOrdered(t) /\ Items(t) = Items(s) \cup {a} /\ Len(t) = Len(s) + 1
  <2>1. AddrOrdered(s) /\ Distinct(s) /\ Len(s) \in Nat /\ a \notin Items(s)
    BY <1>0, <1>2, OrderedDiffer
  <2>5. \A k \in 1 .. Len(s) : IF k < p THEN s[k] < t[p] ELSE t[p] < s[k]
    BY <1>6, <1>8
  <2>2. AddrOrdered(t)
    BY <1>8, <2>1, <2>5, MoreAddrs
  <2>3. Items(t) = Items(s) \cup {t[p]}
    BY <1>8, <2>1, MoreItems
  <2>4. Len(t) = Len(s) + 1
    BY <1>8 DEF OneMore
  <2> QED
    BY <1>8, <2>2, <2>3, <2>4
<1>17. SizesListed(u, z, f) /\ Distinct(u) /\ a \notin Items(u) /\ Len(u) \in Nat
  BY <1>0, <1>3, <1>4, <1>5 DEF SizesListed
<1>18. Items(v) = Items(u) \cup {a}
  <2>1. Items(v) = Items(u) \cup {v[n]}
    BY <1>9, <1>17, MoreItems
  <2> QED
    BY <1>9, <2>1
<1>19. SizesListed(v, z, g)
  <2>1. \A k \in 1 .. Len(u) : u[k] \in Rg!Addrs /\ u[k] # a
    BY <1>3, <1>17, ElementOfSeq DEF Items
  <2>2. /\ \A k \in 1 .. Len(u) : z[u[k]] \in Int
        /\ \A k \in 1 .. Len(u) : u[k] # NoAddr
        /\ z[a] \in Int
    <3>1. NoAddr \notin Rg!Addrs
      BY AddrsAre
    <3>2. ASSUME NEW x \in Rg!Addrs PROVE z[x] \in Int
      BY <1>4
    <3> QED
      BY <1>0, <2>1, <3>1, <3>2
  <2>3. g[a] = (IF n > Len(u) THEN NoAddr ELSE IF z[u[n]] > z[a] THEN u[n] ELSE f[u[n]])
    BY <1>0, <1>10, <1>13
  <2>4. ASSUME NEW k \in 1 .. Len(u)
        PROVE  g[u[k]] = IF k < n /\ (f[u[k]] = NoAddr \/ z[f[u[k]]] >= z[a]) THEN a ELSE f[u[k]]
    <3>1. (\E m \in 1 .. n - 1 : u[m] = u[k]) <=> k < n
      <4>1. ASSUME NEW m \in 1 .. n - 1, u[m] = u[k] PROVE k < n
        <5>1. m \in 1 .. Len(u)
          BY <1>7, <1>17
        <5>2. m = k
          BY <1>17, <4>1, <5>1 DEF Distinct
        <5> QED
          BY <1>7, <5>2
      <4>2. ASSUME k < n PROVE k \in 1 .. n - 1
        BY <1>7, <4>2
      <4> QED
        BY <4>1, <4>2
    <3> QED
      BY <1>10, <2>1, <3>1
  <2>5. a # NoAddr
    BY <1>0
  <2> QED
    <3>1. OneMore(u, v, n) /\ Len(u) \in Nat /\ v[n] = a /\ a \notin Items(u)
      BY <1>9, <1>17
    <3>2. SizesListed(u, z, f) /\ (\A k \in 1 .. n - 1 : z[u[k]] < z[a]) /\ (n <= Len(u) => z[u[n]] >= z[a])
      BY <1>7, <1>17
    <3> QED
      <4>1. PutBySize(u, v, n, a, z, f, g)
        BY <2>2, <2>3, <2>4, <2>5, <3>1, <3>2 DEF PutBySize
      <4> QED
        BY <4>1, MoreSizes
<1>20. /\ q \in Allocators /\ q.by_addr = t /\ q.by_size = v /\ q.size = z /\ q.first_bigger = g
       /\ q.used = r.used /\ q.unused = r.unused
  BY <1>0, <1>4, <1>12, <1>15 DEF Allocators
<1>21. Items(v) = Items(t)
  BY <1>0, <1>2, <1>3, <1>16, <1>18
<1>22. Listed(q)
  BY <1>16, <1>19, <1>20, <1>21 DEF Listed
<1>23. /\ Tiles(Items(s) \cup r.used \cup {a}, z) /\ Items(s) \cap r.used = {}
       /\ {a} \cap (Items(s) \cup r.used) = {} /\ Apart(Items(s), z)
       /\ \A x \in Items(s) : x + z[x] # a /\ a + z[a] # x
  BY <1>2, <1>4 DEF Sound
<1>24. z[a] > 0 /\ z[a] \in Nat /\ a \in Nat
  <2>1. z[a] > 0
    BY <1>23 DEF Tiles
  <2> QED
    BY <1>0, <1>4, <2>1, AddrsAre
<1>25. Apart(Items(t), z)
  BY <1>16, <1>23, <1>24 DEF Apart
<1>26. Tiles(Items(t) \cup r.used \cup {}, z) /\ Items(t) \cap r.used = {}
  <2>1. Items(t) \cup r.used \cup {} = Items(s) \cup r.used \cup {a}
    BY <1>16
  <2> QED
    BY <1>16, <1>23, <2>1
<1>27. Sound(q, {})
  BY <1>20, <1>22, <1>25, <1>26 DEF Sound
<1> QED
  BY <1>2, <1>4, <1>11, <1>16, <1>20, <1>27 DEF PutIn

LEMMA ToSetIs ==
  ASSUME NEW S, NEW s \in Seq(S)
  PROVE  Rg!ToSet(s) = Items(s)
BY DEF Rg!ToSet, Items

\* What a sound allocator has, for arithmetic.
LEMMA SoundTypes ==
  ASSUME Rg!RegionAssumption, NEW r, NEW S, Sound(r, S)
  PROVE  /\ Items(r.by_addr) \cup r.used \cup S \subseteq Rg!Addrs /\ r.size \in [Rg!Addrs -> Nat]
         /\ r.by_addr \in Seq(Rg!Addrs) /\ r.by_size \in Seq(Rg!Addrs) /\ Len(r.by_addr) \in Nat
         /\ Rg!Addrs \subseteq Nat /\ r.unused \in Int /\ r \in Allocators
         /\ \A x \in Items(r.by_addr) \cup r.used \cup S :
              x \in Nat /\ r.size[x] \in Nat /\ r.size[x] > 0
<1>1. Tiles(Items(r.by_addr) \cup r.used \cup S, r.size) /\ r \in Allocators
  BY DEF Sound, Listed
<1>2. r.size \in [Rg!Addrs -> Nat] /\ r.unused \in Int
      /\ r.by_addr \in Seq(Rg!Addrs) /\ r.by_size \in Seq(Rg!Addrs)
  BY <1>1 DEF Allocators
<1>3. Rg!Addrs \subseteq Nat
  BY AddrsAre
<1>4. Items(r.by_addr) \cup r.used \cup S \subseteq Rg!Addrs
  BY <1>1 DEF Tiles
<1>5. ASSUME NEW x \in Items(r.by_addr) \cup r.used \cup S PROVE r.size[x] > 0
  BY <1>1 DEF Tiles
<1>6. ASSUME NEW x \in Items(r.by_addr) \cup r.used \cup S
      PROVE  x \in Nat /\ r.size[x] \in Nat /\ r.size[x] > 0
  BY <1>2, <1>3, <1>4, <1>5
<1>7. Len(r.by_addr) \in Nat
  BY <1>2
<1> QED
  BY <1>1, <1>2, <1>3, <1>4, <1>6, <1>7

\* The first half of add_free_region(): q is r after a, which is on no list, has
\* become part of b.
LeftJoined(q, r, a, b) ==
  /\ Sound(q, {b}) /\ b <= a /\ b + q.size[b] = a + r.size[a]
  /\ Items(q.by_addr) \subseteq Items(r.by_addr) /\ q.used = r.used
  /\ \A x \in Items(q.by_addr) \cup r.used : q.size[x] = r.size[x]
  /\ q.unused + Len(q.by_addr) = r.unused + Len(r.by_addr) /\ q.unused >= r.unused
  /\ (\E x \in Items(r.by_addr) : x + r.size[x] = a) => q.unused >= r.unused + 1
  /\ \A x \in Items(q.by_addr) : x + q.size[x] # b

\* And the whole of it.
Added(q, r, a) ==
  /\ Sound(q, {}) /\ q.used = r.used /\ \A x \in r.used : q.size[x] = r.size[x]
  /\ q.unused + Len(q.by_addr) = r.unused + Len(r.by_addr) + 1 /\ q.unused >= r.unused
  /\ (\E x \in Items(r.by_addr) : x + r.size[x] = a \/ a + r.size[a] = x)
       => q.unused >= r.unused + 1
  /\ \E b \in Items(q.by_addr) : b <= a /\ a + r.size[a] <= b + q.size[b]

Before(r, a) == {x \in Items(r.by_addr) : x + r.size[x] = a}
JoinsTo(r, a) == IF Before(r, a) = {} THEN a ELSE Rg!Max(Before(r, a))
FirstHalf(r, a) ==
  IF Before(r, a) = {} THEN r ELSE Rg!Joined(r, JoinsTo(r, a), a, JoinsTo(r, a))

LEMMA LeftJoinedIs ==
  ASSUME Rg!RegionAssumption, NEW r, NEW a, Sound(r, {a})
  PROVE  LeftJoined(FirstHalf(r, a), r, a, JoinsTo(r, a))
<1>1. /\ \A x \in Items(r.by_addr) \cup {a} : x \in Nat /\ r.size[x] \in Nat /\ r.size[x] > 0
      /\ r.unused \in Int /\ r.by_addr \in Seq(Rg!Addrs) /\ Len(r.by_addr) \in Nat
  BY SoundTypes
<1>4. a \in Nat /\ r.size[a] \in Nat /\ r.unused \in Int /\ Len(r.by_addr) \in Nat
  BY <1>1
<1>5. PICK b : b = JoinsTo(r, a)
  OBVIOUS
<1>6. PICK q : q = FirstHalf(r, a)
  OBVIOUS
<1>2. CASE Before(r, a) = {}
  <2>1. b = a /\ q = r /\ \A x \in Items(r.by_addr) : x + r.size[x] # a
    BY <1>2, <1>5, <1>6 DEF Before, JoinsTo, FirstHalf
  <2>2. a <= a /\ r.unused >= r.unused
    BY <1>4
  <2> QED
    BY <1>5, <1>6, <2>1, <2>2 DEF LeftJoined
<1>3. CASE Before(r, a) # {}
  <2>1. PICK c \in Items(r.by_addr) : c + r.size[c] = a
    BY <1>3 DEF Before
  <2>2. ASSUME NEW x \in Items(r.by_addr), x + r.size[x] = a PROVE x = c
    <3>1. \A y, v \in Items(r.by_addr) : y < v => y + r.size[y] <= v
      BY DEF Sound, Tiles
    <3>2. x \in Nat /\ c \in Nat /\ r.size[x] \in Nat /\ r.size[c] \in Nat /\ r.size[c] > 0 /\ r.size[x] > 0
      BY <1>1
    <3>3. x < c => x + r.size[x] <= c
      BY <3>1
    <3>4. c < x => c + r.size[c] <= x
      BY <3>1
    <3> QED
      BY <2>1, <2>2, <3>2, <3>3, <3>4
  <2>3. Before(r, a) = {c}
    BY <2>1, <2>2 DEF Before
  <2>4. b = c
    <3>1. Rg!Max({c}) = c
      <4>1. c >= c
        BY <1>1
      <4> QED
        BY <4>1 DEF Rg!Max
    <3> QED
      BY <1>3, <1>5, <2>3, <3>1 DEF JoinsTo
  <2>5. q = Rg!Joined(r, c, a, c)
    BY <1>3, <1>5, <1>6, <2>4 DEF FirstHalf
  <2>6. JoinedUp(q, r, c, a, c)
    BY <2>1, <2>5, JoinedIs
  <2>7. /\ Sound(q, {c}) /\ Items(q.by_addr) = Items(r.by_addr) \ {c}
        /\ q.used = r.used /\ q.unused = r.unused + 1 /\ Len(q.by_addr) + 1 = Len(r.by_addr)
        /\ q.size[c] = r.size[c] + r.size[a]
        /\ \A x \in Items(q.by_addr) \cup r.used : q.size[x] = r.size[x]
    BY <2>6 DEF JoinedUp
  <2>8. ASSUME NEW x \in Items(q.by_addr) PROVE x + q.size[x] # c
    <3>1. Apart(Items(r.by_addr), r.size) /\ x \in Items(r.by_addr) /\ q.size[x] = r.size[x]
      BY <2>7 DEF Sound
    <3> QED
      BY <2>1, <3>1 DEF Apart
  <2>9. c <= a /\ c + q.size[c] = a + r.size[a]
    <3>1. c \in Nat /\ r.size[c] \in Nat
      BY <1>1, <2>1
    <3> QED
      BY <1>4, <2>1, <2>7, <3>1
  <2>10. q.unused + Len(q.by_addr) = r.unused + Len(r.by_addr) /\ q.unused >= r.unused
         /\ q.unused >= r.unused + 1
    <3>1. q.unused = r.unused + 1 /\ Len(q.by_addr) + 1 = Len(r.by_addr)
      BY <2>7
    <3>2. PICK m \in Int : m = r.unused
      BY <1>4
    <3>3. PICK k \in Nat : k = Len(q.by_addr)
      BY <2>7, SoundTypes
    <3>4. PICK l \in Nat : l = Len(r.by_addr)
      BY <1>4
    <3>5. k + 1 = l /\ q.unused = m + 1
      BY <3>1, <3>2, <3>3, <3>4
    <3>6. (m + 1) + k = m + l /\ m + 1 >= m /\ m + 1 >= m + 1
      BY <3>5
    <3> QED
      BY <3>2, <3>3, <3>4, <3>5, <3>6
  <2> QED
    BY <1>5, <1>6, <2>4, <2>7, <2>8, <2>9, <2>10 DEF LeftJoined
<1> QED
  BY <1>2, <1>3

LEMMA AddIs ==
  ASSUME Rg!RegionAssumption, NEW r, NEW a, Sound(r, {a})
  PROVE  Added(Rg!add_free_region(r, a), r, a)
<1>2. PICK b : b = JoinsTo(r, a)
  OBVIOUS
<1>3. PICK r1 : r1 = FirstHalf(r, a)
  OBVIOUS
<1>4. LeftJoined(r1, r, a, b)
  BY <1>2, <1>3, LeftJoinedIs
<1>5. /\ Sound(r1, {b}) /\ b <= a /\ b + r1.size[b] = a + r.size[a]
      /\ Items(r1.by_addr) \subseteq Items(r.by_addr) /\ r1.used = r.used
      /\ \A x \in Items(r1.by_addr) \cup r.used : r1.size[x] = r.size[x]
      /\ r1.unused + Len(r1.by_addr) = r.unused + Len(r.by_addr) /\ r1.unused >= r.unused
      /\ (\E x \in Items(r.by_addr) : x + r.size[x] = a) => r1.unused >= r.unused + 1
      /\ \A x \in Items(r1.by_addr) : x + r1.size[x] # b
  BY <1>4 DEF LeftJoined
<1>6. PICK after : after = b + r1.size[b]
  OBVIOUS
<1>7. PICK r2 : r2 = IF after \in Items(r1.by_addr) THEN Rg!Joined(r1, b, after, after) ELSE r1
  OBVIOUS
<1>8. PICK q : q = Rg!Inserted(r2, b)
  OBVIOUS
<1>9. r.by_addr \in Seq(Rg!Addrs) /\ r1.by_addr \in Seq(Rg!Addrs)
  BY <1>5, SoundTypes
<1>10. q = Rg!add_free_region(r, a)
  <2>1. Rg!ToSet(r.by_addr) = Items(r.by_addr) /\ Rg!ToSet(r1.by_addr) = Items(r1.by_addr)
    BY <1>9, ToSetIs
  <2> QED
    BY <1>2, <1>3, <1>6, <1>7, <1>8, <2>1
       DEF Rg!add_free_region, Before, JoinsTo, FirstHalf
<1>11. /\ r.unused \in Int /\ r1.unused \in Int /\ Len(r.by_addr) \in Nat /\ Len(r1.by_addr) \in Nat
       /\ a \in Nat /\ b \in Nat /\ r.size[a] \in Nat /\ r1.size[b] \in Nat
       /\ \A x \in Items(r1.by_addr) : x \in Nat /\ r1.size[x] \in Nat
  <2>1. r.unused \in Int /\ Len(r.by_addr) \in Nat /\ a \in Nat /\ r.size[a] \in Nat
    BY SoundTypes
  <2>2. Sound(r1, {b})
    BY <1>5
  <2>3. r1.unused \in Int /\ Len(r1.by_addr) \in Nat
    BY <2>2, SoundTypes
  <2>4. \A x \in Items(r1.by_addr) \cup {b} : x \in Nat /\ r1.size[x] \in Nat
    BY <2>2, SoundTypes
  <2> QED
    BY <2>1, <2>3, <2>4
\* What is put on the lists touches no free region.
<1>12. /\ Sound(r2, {b}) /\ r2.used = r.used /\ b + r2.size[b] >= a + r.size[a]
       /\ \A x \in r.used : r2.size[x] = r.size[x]
       /\ r2.unused + Len(r2.by_addr) = r.unused + Len(r.by_addr) /\ r2.unused >= r1.unused
       /\ after \in Items(r1.by_addr) => r2.unused >= r1.unused + 1
       /\ \A x \in Items(r2.by_addr) : x + r2.size[x] # b /\ b + r2.size[b] # x
  <2>1. CASE after \in Items(r1.by_addr)
    <3>1. r2 = Rg!Joined(r1, b, after, after)
      BY <1>7, <2>1
    <3>2. JoinedUp(r2, r1, b, after, after)
      BY <1>5, <1>6, <2>1, <3>1, JoinedIs
    <3>3. /\ Sound(r2, {b}) /\ Items(r2.by_addr) = Items(r1.by_addr) \ {after}
          /\ r2.used = r1.used /\ r2.unused = r1.unused + 1 /\ Len(r2.by_addr) + 1 = Len(r1.by_addr)
          /\ r2.size[b] = r1.size[b] + r1.size[after]
          /\ \A x \in Items(r2.by_addr) \cup r1.used : r2.size[x] = r1.size[x]
      BY <3>2 DEF JoinedUp
    <3>4. ASSUME NEW x \in Items(r2.by_addr) PROVE x + r2.size[x] # b /\ b + r2.size[b] # x
      <4>1. x \in Items(r1.by_addr) /\ r2.size[x] = r1.size[x] /\ Apart(Items(r1.by_addr), r1.size)
        BY <1>5, <3>3 DEF Sound
      <4>2. after + r1.size[after] # x
        BY <2>1, <4>1 DEF Apart
      <4>3. b + r2.size[b] = after + r1.size[after]
        BY <1>6, <1>11, <2>1, <3>3
      <4> QED
        BY <1>5, <4>1, <4>2, <4>3
    <3>5. b + r2.size[b] >= a + r.size[a]
      <4>1. /\ r2.size[b] = r1.size[b] + r1.size[after] /\ r1.size[after] \in Nat
            /\ r1.size[b] \in Nat /\ b \in Nat /\ b + r1.size[b] = a + r.size[a]
        BY <1>5, <1>11, <2>1, <3>3
      <4> QED
        BY <4>1
    <3>6. PICK k \in Nat : k = Len(r2.by_addr)
      BY <3>3, SoundTypes
    <3>7. PICK l \in Nat : l = Len(r1.by_addr)
      BY <1>11
    <3>8. PICK m \in Nat : m = Len(r.by_addr)
      BY <1>11
    <3>9. r2.unused + Len(r2.by_addr) = r.unused + Len(r.by_addr) /\ r2.unused >= r1.unused
          /\ r2.unused >= r1.unused + 1
      <4>1. /\ r2.unused = r1.unused + 1 /\ Len(r2.by_addr) + 1 = Len(r1.by_addr)
            /\ r1.unused + Len(r1.by_addr) = r.unused + Len(r.by_addr)
            /\ r1.unused \in Int /\ r.unused \in Int
        BY <1>5, <1>11, <3>3
      <4> QED
        BY <3>6, <3>7, <3>8, <4>1
    <3>10. \A x \in r.used : r2.size[x] = r.size[x]
      BY <1>5, <3>3
    <3> QED
      BY <1>5, <3>3, <3>4, <3>5, <3>9, <3>10
  <2>2. CASE after \notin Items(r1.by_addr)
    <3>1. r2 = r1
      BY <1>7, <2>2
    <3>2. a + r.size[a] >= a + r.size[a] /\ r1.unused >= r1.unused
      BY <1>11
    <3> QED
      BY <1>5, <1>6, <2>2, <3>1, <3>2
  <2> QED
    BY <2>1, <2>2
<1>13. PutIn(q, r2, b)
  BY <1>8, <1>12, InsertedIs
<1>14. /\ Sound(q, {}) /\ Items(q.by_addr) = Items(r2.by_addr) \cup {b}
       /\ q.used = r2.used /\ q.size = r2.size /\ q.unused = r2.unused
       /\ Len(q.by_addr) = Len(r2.by_addr) + 1
  BY <1>13 DEF PutIn
<1>15. ASSUME NEW x \in Items(r.by_addr), x + r.size[x] = a \/ a + r.size[a] = x
       PROVE  r2.unused >= r.unused + 1
  <2>1. r2.unused \in Int
    BY <1>12, SoundTypes
  <2>2. CASE x + r.size[x] = a
    <3>1. r1.unused >= r.unused + 1
      BY <1>5, <2>2
    <3> QED
      BY <1>11, <1>12, <2>1, <3>1
  <2>3. CASE a + r.size[a] = x /\ x + r.size[x] # a
    <3>1. CASE Before(r, a) = {}
      <4>1. after \in Items(r1.by_addr)
        BY <1>3, <1>5, <1>6, <2>3, <3>1 DEF FirstHalf
      <4> QED
        BY <1>5, <1>11, <1>12, <2>1, <4>1
    <3>2. CASE Before(r, a) # {}
      <4>1. r1.unused >= r.unused + 1
        BY <1>5, <3>2 DEF Before
      <4> QED
        BY <1>11, <1>12, <2>1, <4>1
    <3> QED
      BY <3>1, <3>2
  <2> QED
    BY <1>15, <2>2, <2>3
<1>16. /\ r2.unused + (Len(r2.by_addr) + 1) = r.unused + Len(r.by_addr) + 1 /\ r2.unused >= r.unused
  <2>1. PICK k \in Nat : k = Len(r2.by_addr)
    <3>1. r2.by_addr \in Seq(Rg!Addrs)
      BY <1>12, SoundTypes
    <3> QED
      BY <3>1
  <2>2. r2.unused \in Int
    BY <1>12, SoundTypes
  <2>3. PICK m \in Nat : m = Len(r.by_addr)
    BY <1>11
  <2> QED
    <3>1. PICK o \in Nat : o = Len(r2.by_addr)
      BY <2>1
    <3>2. PICK n \in Int : n = r2.unused
      BY <2>2
    <3>3. PICK l \in Nat : l = Len(r.by_addr)
      BY <2>3
    <3>4. n + o = r.unused + l /\ n >= r1.unused /\ r1.unused >= r.unused
          /\ r.unused \in Int /\ r1.unused \in Int
      BY <1>5, <1>11, <1>12, <3>1, <3>2, <3>3
    <3>5. n + (o + 1) = r.unused + l + 1 /\ n >= r.unused
      BY <3>1, <3>2, <3>3, <3>4
    <3> QED
      BY <3>1, <3>2, <3>3, <3>5
<1>17. b \in Items(q.by_addr) /\ b <= a /\ a + r.size[a] <= b + q.size[b]
  <2>1. r2.size[b] \in Nat
    BY <1>12, SoundTypes
  <2> QED
    BY <1>5, <1>11, <1>12, <1>14, <2>1
<1>18. /\ q.used = r.used /\ q.unused = r2.unused /\ \A x \in r.used : q.size[x] = r.size[x]
       /\ q.unused + Len(q.by_addr) = r.unused + Len(r.by_addr) + 1
  BY <1>12, <1>14, <1>16
<1> QED
  BY <1>10, <1>14, <1>15, <1>16, <1>17, <1>18 DEF Added

-----------------------------------------------------------------------------
(***************************************************************************)
(* What is asked for.                                                      *)
(***************************************************************************)

\* The search follows the pointers, from the first region by size on.
Follows(f, x) == IF x = NoAddr THEN NoAddr ELSE f[x]
ChainFrom(c, l, x, f) == c = [n \in 1 .. l + 1 |-> IF n = 1 THEN x ELSE Follows(f, c[n - 1])]

LEMMA ChainExists ==
  ASSUME NEW l \in Nat, NEW A, NEW x \in A, NEW f, \A y \in A : Follows(f, y) \in A
  PROVE  \E c : ChainFrom(c, l, x, f)
<1> DEFINE Good(g, m) == g[1] = x /\ \A n \in 2 .. m + 1 : g[n] = Follows(f, g[n - 1])
           B == {m \in Nat : \E g \in [1 .. m + 1 -> A] : Good(g, m)}
<1>1. 0 \in B
  <2>1. [n \in 1 .. 0 + 1 |-> x] \in [1 .. 0 + 1 -> A] /\ Good([n \in 1 .. 0 + 1 |-> x], 0)
    OBVIOUS
  <2> QED
    BY <2>1
<1>2. ASSUME NEW m \in Nat, m \in B PROVE m + 1 \in B
  <2>1. PICK g \in [1 .. m + 1 -> A] : Good(g, m)
    BY <1>2
  <2>2. PICK h : h = [n \in 1 .. m + 1 + 1 |-> IF n = m + 1 + 1 THEN Follows(f, g[m + 1]) ELSE g[n]]
    OBVIOUS
  <2>3. \A n \in 1 .. m + 1 + 1 : n = m + 1 + 1 \/ n \in 1 .. m + 1
    OBVIOUS
  <2>4. Follows(f, g[m + 1]) \in A
    <3>1. m + 1 \in 1 .. m + 1
      OBVIOUS
    <3> QED
      BY <2>1, <3>1
  <2>5. h \in [1 .. m + 1 + 1 -> A]
    BY <2>1, <2>2, <2>3, <2>4
  <2>6. h[1] = x
    <3>1. 1 \in 1 .. m + 1 + 1 /\ 1 # m + 1 + 1
      OBVIOUS
    <3> QED
      BY <2>1, <2>2, <3>1
  <2>7. ASSUME NEW n \in 2 .. m + 1 + 1 PROVE h[n] = Follows(f, h[n - 1])
    <3>1. n \in 1 .. m + 1 + 1 /\ n - 1 \in 1 .. m + 1 + 1 /\ n - 1 # m + 1 + 1
      OBVIOUS
    <3>2. h[n - 1] = g[n - 1]
      BY <2>2, <3>1
    <3>3. CASE n = m + 1 + 1
      <4>1. h[n] = Follows(f, g[m + 1]) /\ n - 1 = m + 1
        BY <2>2, <3>1, <3>3
      <4> QED
        BY <3>2, <4>1
    <3>4. CASE n # m + 1 + 1
      <4>1. n \in 2 .. m + 1 /\ h[n] = g[n]
        BY <2>2, <3>1, <3>4
      <4> QED
        BY <2>1, <3>2, <4>1
    <3> QED
      BY <3>3, <3>4
  <2>8. Good(h, m + 1)
    BY <2>6, <2>7
  <2> HIDE DEF Good
  <2> QED
    BY <2>5, <2>8
<1>3. l \in B
  <2> HIDE DEF B
  <2>1. Nat \subseteq B
    BY <1>1, <1>2, SetInduction
  <2> QED
    BY <2>1
<1>4. PICK g \in [1 .. l + 1 -> A] : Good(g, l)
  BY <1>3
<1>5. ASSUME NEW n \in 1 .. l + 1 PROVE g[n] = IF n = 1 THEN x ELSE Follows(f, g[n - 1])
  <2>1. n = 1 \/ n \in 2 .. l + 1
    OBVIOUS
  <2> QED
    BY <1>4, <2>1
<1>6. g = [n \in 1 .. l + 1 |-> g[n]]
  BY <1>4
<1>7. ChainFrom(g, l, x, f)
  <2> HIDE DEF Good, B
  <2> QED
    BY <1>5, <1>6 DEF ChainFrom
<1> QED
  BY <1>7

LEMMA ChainStays ==
  ASSUME NEW l \in Nat, NEW A, NEW x \in A, NEW f, \A y \in A : Follows(f, y) \in A,
         NEW c, ChainFrom(c, l, x, f)
  PROVE  c[1] = x /\ \A n \in 1 .. l + 1 : c[n] \in A
<1> DEFINE B == {m \in Nat : m <= l => c[m + 1] \in A}
<1>1. \A n \in 1 .. l + 1 : c[n] = IF n = 1 THEN x ELSE Follows(f, c[n - 1])
  BY DEF ChainFrom
<1>2. c[1] = x
  <2>1. 1 \in 1 .. l + 1
    OBVIOUS
  <2> QED
    BY <1>1, <2>1
<1>3. 0 \in B
  BY <1>2
<1>4. ASSUME NEW m \in Nat, m \in B PROVE m + 1 \in B
  <2>1. CASE m + 1 <= l
    <3>1. c[m + 1] \in A
      BY <1>4, <2>1
    <3>2. (m + 1) + 1 \in 1 .. l + 1 /\ (m + 1) + 1 # 1 /\ ((m + 1) + 1) - 1 = m + 1
      BY <2>1
    <3>3. c[(m + 1) + 1] = Follows(f, c[m + 1])
      BY <1>1, <3>2
    <3> QED
      BY <3>1, <3>3
  <2>2. CASE ~(m + 1 <= l)
    BY <2>2
  <2> QED
    BY <2>1, <2>2
<1>5. Nat \subseteq B
  <2> HIDE DEF B
  <2> QED
    BY <1>3, <1>4, SetInduction
<1>6. ASSUME NEW n \in 1 .. l + 1 PROVE c[n] \in A
  <2>1. n - 1 \in Nat /\ n - 1 <= l /\ (n - 1) + 1 = n
    OBVIOUS
  <2> QED
    BY <1>5, <2>1
<1> QED
  BY <1>2, <1>6

\* Either no region is large enough for the search, and none is free if a page
\* is asked for, or it finds a free one that is.
LEMMA ChosenIs ==
  ASSUME Rg!RegionAssumption, NEW r, Sound(r, {}), NEW sz \in Nat
  PROVE  /\ \/ Rg!Chosen(r, sz) = NoAddr
            \/ Rg!Chosen(r, sz) \in Items(r.by_addr) /\ r.size[Rg!Chosen(r, sz)] >= sz
         /\ sz = 1 /\ Rg!Chosen(r, sz) = NoAddr => r.by_addr = <<>>
<1>0. /\ r \in Allocators /\ SizesListed(r.by_size, r.size, r.first_bigger)
      /\ Items(r.by_size) = Items(r.by_addr)
  BY DEF Sound, Listed
<1>1. PICK s \in Seq(Rg!Addrs) : s = r.by_addr
  BY <1>0 DEF Allocators
<1>2. PICK u \in Seq(Rg!Addrs) : u = r.by_size
  BY <1>0 DEF Allocators
<1>3. PICK l \in Nat : l = Len(u)
  OBVIOUS
<1>4. PICK f : f = r.first_bigger
  OBVIOUS
<1>5. PICK A : A = Items(u) \cup {NoAddr}
  OBVIOUS
<1>6. PICK x : x = IF u = <<>> THEN NoAddr ELSE Head(u)
  OBVIOUS
<1>7. x \in A /\ (x = NoAddr => u = <<>>)
  <2>1. CASE u = <<>>
    BY <1>5, <1>6, <2>1
  <2>2. CASE u # <<>>
    <3>1. Head(u) = u[1] /\ 1 \in 1 .. Len(u) /\ u[1] \in Rg!Addrs
      BY <2>2, EmptySeq, HeadTailProperties, ElementOfSeq
    <3>2. u[1] # NoAddr
      BY <3>1, AddrsAre
    <3> QED
      BY <1>5, <1>6, <2>2, <3>1, <3>2 DEF Items
  <2> QED
    BY <2>1, <2>2
<1>8. ASSUME NEW y \in A PROVE Follows(f, y) \in A
  <2>1. CASE y = NoAddr
    BY <1>5, <2>1 DEF Follows
  <2>2. CASE y # NoAddr
    <3>1. PICK n \in 1 .. Len(u) : y = u[n]
      BY <1>5, <1>8, <2>2 DEF Items
    <3>2. IsFirstBigger(u, r.size, y, f[y])
      BY <1>0, <1>2, <1>4, <3>1 DEF SizesListed, BiggerExact
    <3>3. f[y] = NoAddr \/ f[y] \in Items(u)
      BY <3>2 DEF IsFirstBigger, Items
    <3> QED
      BY <1>5, <2>2, <3>3 DEF Follows
  <2> QED
    BY <2>1, <2>2
<1>9. PICK c : c = Rg!Chain(r)
  OBVIOUS
<1>10. ChainFrom(c, l, x, f)
  <2>1. c = CHOOSE g : ChainFrom(g, l, x, f)
    BY <1>2, <1>3, <1>4, <1>6, <1>9 DEF Rg!Chain, ChainFrom, Follows
  <2>2. \E g : ChainFrom(g, l, x, f)
    BY <1>7, <1>8, ChainExists
  <2> QED
    BY <2>1, <2>2
<1>11. c[1] = x /\ \A n \in 1 .. l + 1 : c[n] \in A
  BY <1>7, <1>8, <1>10, ChainStays
<1>12. PICK S \in SUBSET (1 .. l + 1) :
         S = {n \in 1 .. l + 1 : c[n] # NoAddr /\ r.size[c[n]] >= sz}
  OBVIOUS
<1>13. Rg!Chosen(r, sz) = IF S = {} THEN NoAddr ELSE c[Rg!Min(S)]
  BY <1>2, <1>3, <1>9, <1>12 DEF Rg!Chosen
<1>14. CASE S = {}
  <2>1. Rg!Chosen(r, sz) = NoAddr
    BY <1>13, <1>14
  <2>2. ASSUME sz = 1 PROVE r.by_addr = <<>>
    <3>1. 1 \in 1 .. l + 1 /\ 1 \notin S
      BY <1>14
    <3>2. x = NoAddr \/ ~(r.size[x] >= 1)
      BY <1>11, <1>12, <2>2, <3>1
    <3>3. CASE x # NoAddr
      <4>1. x \in Items(r.by_addr)
        BY <1>0, <1>2, <1>5, <1>7, <3>3
      <4>2. r.size[x] \in Nat /\ r.size[x] > 0
        BY <4>1, SoundTypes
      <4> QED
        BY <3>2, <3>3, <4>2
    <3>4. CASE x = NoAddr
      <4>1. Items(u) = {}
        BY <1>7, <3>4 DEF Items
      <4>2. Items(s) = {}
        BY <1>0, <1>1, <1>2, <4>1
      <4>3. Len(s) = 0
        <5>1. ASSUME Len(s) # 0 PROVE FALSE
          <6>1. 1 \in 1 .. Len(s)
            BY <5>1
          <6> QED
            BY <4>2, <6>1 DEF Items
        <5> QED
          BY <5>1
      <4> QED
        BY <1>1, <4>3, EmptySeq
    <3> QED
      BY <3>3, <3>4
  <2> QED
    BY <2>1, <2>2
<1>15. CASE S # {}
  <2>1. Rg!Min(S) \in S
    <3>1. l + 1 \in Nat
      OBVIOUS
    <3> QED
      BY <1>15, <3>1, FirstPlace
  <2>2. PICK m \in 1 .. l + 1 : m = Rg!Min(S) /\ c[m] # NoAddr /\ r.size[c[m]] >= sz
    BY <1>12, <2>1
  <2>3. c[m] \in Items(r.by_addr) /\ c[m] # NoAddr
    BY <1>0, <1>2, <1>5, <1>11, <2>2
  <2>4. Rg!Chosen(r, sz) = c[m]
    BY <1>13, <1>15, <2>2
  <2> QED
    BY <2>2, <2>3, <2>4
<1> QED
  BY <1>14, <1>15

\* The allocator q is r after a has been allocated: a descriptor is used up, and
\* is only missing if a was cut off a free region that is still there.
Allocated(q, a, r) ==
  /\ Sound(q, {}) /\ a \in Rg!Addrs \ r.used /\ q.used = r.used \cup {a}
  /\ q.unused + Len(q.by_addr) + 1 = r.unused + Len(r.by_addr)
  /\ q.unused >= r.unused - 1
  /\ q.unused < r.unused => \E x \in Items(q.by_addr) : x + q.size[x] = a \/ a + q.size[a] = x

\* The region i is cut into a, which is used, and x, which is on no list yet.
CutUp(r, i, a, x, sz) ==
  [Rg!remove_free_region(r, i) EXCEPT !.used = @ \cup {a}, !.unused = @ - 1,
                !.size = [@ EXCEPT ![x] = r.size[i] - sz, ![a] = sz]]

Parts(r, i, a, x, sz) ==
  /\ Sound(r, {}) /\ i \in Items(r.by_addr) /\ sz \in Nat \ {0} /\ sz < r.size[i]
  /\ \/ a = i /\ x = i + sz
     \/ x = i /\ a = i + (r.size[i] - sz)

IsCut(q, r, i, a, x, sz) ==
  /\ Sound(q, {x}) /\ a \in Rg!Addrs \ r.used /\ q.used = r.used \cup {a}
  /\ q.unused = r.unused - 1 /\ Len(q.by_addr) + 1 = Len(r.by_addr)
  /\ q.size[a] = sz /\ q.size[x] = r.size[i] - sz

LEMMA CutIs ==
  ASSUME Rg!RegionAssumption, NEW r, NEW i, NEW a, NEW x, NEW sz, Parts(r, i, a, x, sz)
  PROVE  IsCut(CutUp(r, i, a, x, sz), r, i, a, x, sz)
<1> SUFFICES ASSUME
             Sound(r, {}), i \in Items(r.by_addr), sz \in Nat \ {0}, sz < r.size[i],
             (a = i /\ x = i + sz) \/ (x = i /\ a = i + (r.size[i] - sz))
      PROVE  IsCut(CutUp(r, i, a, x, sz), r, i, a, x, sz)
  BY DEF Parts
<1>1. PICK q : q = Rg!remove_free_region(r, i)
  OBVIOUS
<1>2. PICK F \in SUBSET Rg!Addrs : F = Items(r.by_addr)
  BY SoundTypes
<1>3. PICK U \in SUBSET Rg!Addrs : U = r.used
  BY SoundTypes
<1>4. PICK z \in [Rg!Addrs -> Nat] : z = r.size
  BY SoundTypes
<1>5. Listed(r) /\ Tiles(F \cup U, z) /\ F \cap U = {} /\ Apart(F, z)
  <2>1. F \cup U \cup {} = F \cup U
    OBVIOUS
  <2> QED
    BY <1>2, <1>3, <1>4, <2>1 DEF Sound
<1>6. Without(q, r, i)
  BY <1>1, <1>5, RemovedIs
<1>7. /\ Listed(q) /\ q \in Allocators /\ Items(q.by_addr) = F \ {i} /\ q.size = z /\ q.used = U
      /\ q.unused = r.unused /\ Len(q.by_addr) + 1 = Len(r.by_addr) /\ q.unused \in Int
  <2>1. r.unused \in Int
    BY SoundTypes
  <2> QED
    BY <1>2, <1>3, <1>4, <1>6, <2>1 DEF Without, Listed
<1>8. PICK left \in Nat : left = z[i] - sz /\ left > 0 /\ left + sz = z[i]
  <2>1. z[i] \in Nat /\ sz \in Nat /\ sz < z[i]
    BY <1>2, <1>4
  <2> QED
    BY <2>1
<1>9. AddrSpace \in Nat /\ Rg!Addrs = 0 .. AddrSpace - 1 /\ i \in Nat /\ i \in F /\ sz > 0 /\ z[i] \in Nat
      /\ i + z[i] <= AddrSpace
  BY <1>2, <1>4, <1>5, AddrsAre DEF Tiles
<1>10. a \in Rg!Addrs /\ x \in Rg!Addrs /\ a # x
  <2>1. i + sz \in Rg!Addrs /\ i + left \in Rg!Addrs /\ i \in Rg!Addrs /\ i + sz # i /\ i + left # i
    <3>1. PICK m \in Nat, zi \in Nat : m = AddrSpace /\ zi = z[i] /\ i + zi <= m
      BY <1>9
    <3>2. left + sz = zi /\ left > 0 /\ sz > 0 /\ sz \in Nat /\ i \in Nat
      BY <1>2, <1>8, <1>9, <3>1
    <3>3. i + sz \in 0 .. m - 1 /\ i + left \in 0 .. m - 1 /\ i + sz # i /\ i + left # i
      BY <3>1, <3>2
    <3> QED
      BY <1>9, <3>1, <3>3
  <2> QED
    BY <1>4, <1>8, <2>1
<1>11. PICK w \in [Rg!Addrs -> Nat] : /\ w = [z EXCEPT ![x] = left, ![a] = sz]
                                      /\ w[x] = left /\ w[a] = sz
                                      /\ \A y \in Rg!Addrs \ {a, x} : w[y] = z[y]
  <2>1. PICK w : w = [z EXCEPT ![x] = left, ![a] = sz]
    OBVIOUS
  <2> QED
    BY <1>8, <1>10, <2>1
<1>12. PICK n \in Int : n = q.unused - 1
  BY <1>7
<1>13. PICK j : j = CutUp(r, i, a, x, sz)
  OBVIOUS
<1>14. j = [q EXCEPT !.used = U \cup {a}, !.unused = n, !.size = w]
  BY <1>1, <1>4, <1>7, <1>8, <1>11, <1>12, <1>13 DEF CutUp
<1>15. /\ j \in Allocators /\ j.by_addr = q.by_addr /\ j.by_size = q.by_size
       /\ j.first_bigger = q.first_bigger /\ j.size = w /\ j.used = U \cup {a} /\ j.unused = n
  <2>1. j \in Allocators
    BY <1>7, <1>10, <1>14 DEF Allocators
  <2> QED
    BY <1>7, <1>14, <2>1 DEF Allocators
\* The one of the two that is not i.
<1>16. PICK b \in {a, x} : {a, x} = {i, b} /\ b = i + w[i] /\ w[i] > 0 /\ w[b] > 0 /\ w[i] + w[b] = z[i]
  <2>1. CASE a = i /\ x = i + sz
    BY <1>8, <1>9, <1>11, <2>1
  <2>2. CASE x = i /\ a = i + (r.size[i] - sz)
    BY <1>4, <1>8, <1>9, <1>11, <2>2
  <2> QED
    BY <2>1, <2>2
<1>17. Tiles(F \cup U \cup {b}, w) /\ b \notin F \cup U
  <2>1. PICK R : R = F \cup U
    OBVIOUS
  <2>2. Tiles(R, z) /\ i \in R /\ b \in Rg!Addrs /\ R \subseteq Rg!Addrs
    BY <1>5, <1>9, <1>10, <2>1 DEF Tiles
  <2>3. \A y \in R \ {i} : ~(i < y /\ y < i + z[i])
    <3>1. ASSUME NEW y \in R \ {i}, i < y PROVE i + z[i] <= y
      BY <2>2, <3>1 DEF Tiles
    <3>2. \A y \in R \ {i} : y \in Nat
      BY <1>9, <2>2
    <3> QED
      BY <1>9, <3>1, <3>2
  <2>4. b \in Nat /\ i < b /\ b < i + z[i]
    <3>1. w[i] \in Nat /\ w[b] \in Nat
      BY <1>2, <1>9, <1>11, <2>2
    <3>2. b = i + w[i] /\ w[i] > 0 /\ w[b] > 0 /\ w[i] + w[b] = z[i]
      BY <1>16
    <3>3. PICK m \in Nat : m = w[i]
      BY <3>1
    <3>4. PICK k \in Nat : k = w[b]
      BY <3>1
    <3>5. PICK d \in Nat : d = z[i]
      BY <1>9
    <3>6. b = i + m /\ m > 0 /\ k > 0 /\ m + k = d /\ i \in Nat
      BY <1>9, <3>2, <3>3, <3>4, <3>5
    <3>7. i + m \in Nat /\ i < i + m /\ i + m < i + d
      BY <3>6
    <3> QED
      BY <3>5, <3>6, <3>7
  <2>5. \A y \in R \ {i} : w[y] = z[y]
    <3>1. \A y \in R \ {i} : y # b
      BY <2>3, <2>4
    <3> QED
      BY <1>11, <1>16, <2>2, <3>1
  <2>6. Tiles(R \cup {b}, w) /\ b \notin R
    <3>1. w[i] > 0 /\ b = i + w[i] /\ w[b] > 0 /\ w[i] + w[b] = z[i] /\ w \in [Rg!Addrs -> Nat]
      BY <1>11, <1>16
    <3> QED
      <4>1. Tiles(R, z) /\ i \in R /\ b \in Rg!Addrs /\ z \in [Rg!Addrs -> Nat]
        BY <1>4, <2>2
      <4> QED
        <5>1. CutAt(R, z, i, b, w)
          BY <2>5, <3>1, <4>1 DEF CutAt
        <5> QED
          BY <5>1, SplitTiles
  <2> QED
    BY <2>1, <2>6
<1>18. \A y \in F \ {i} : w[y] = z[y]
  <2>1. \A y \in F \ {i} : y \in Rg!Addrs \ {a, x}
    BY <1>2, <1>16, <1>17
  <2> QED
    BY <1>11, <2>1
<1>19. Listed(j)
  <2>1. \A y \in Items(q.by_addr) : j.size[y] = q.size[y]
    BY <1>7, <1>15, <1>18
  <2> QED
    BY <1>7, <1>15, <2>1, StillListed
<1>20. i \notin U /\ a \notin U
  BY <1>5, <1>9, <1>16, <1>17
<1>21. Tiles((F \ {i}) \cup (U \cup {a}) \cup {x}, w)
  <2>1. (F \ {i}) \cup (U \cup {a}) \cup {x} = F \cup U \cup {b}
    BY <1>9, <1>16
  <2> QED
    BY <1>17, <2>1
<1>22. (F \ {i}) \cap (U \cup {a}) = {} /\ {x} \cap ((F \ {i}) \cup (U \cup {a})) = {}
  <2>1. x \notin U
    BY <1>16, <1>17, <1>20
  <2> QED
    BY <1>5, <1>10, <1>16, <1>17, <1>20, <2>1
<1>23. Apart(F \ {i}, w)
  BY <1>5, <1>18 DEF Apart
<1>24. Items(j.by_addr) = F \ {i}
  BY <1>7, <1>15
<1>25. Sound(j, {x})
  BY <1>15, <1>19, <1>21, <1>22, <1>23, <1>24 DEF Sound
<1> QED
  BY <1>3, <1>4, <1>7, <1>8, <1>10, <1>11, <1>12, <1>13, <1>15, <1>20, <1>25 DEF IsCut

\* A region that fits is taken whole.
LEMMA TakenWhole ==
  ASSUME Rg!RegionAssumption, NEW r, Sound(r, {}), NEW i \in Items(r.by_addr),
         NEW q, q = [Rg!remove_free_region(r, i) EXCEPT !.used = @ \cup {i}]
  PROVE  Allocated(q, i, r) /\ q.unused = r.unused
<1>1. PICK p : p = Rg!remove_free_region(r, i)
  OBVIOUS
<1>2. PICK F \in SUBSET Rg!Addrs : F = Items(r.by_addr)
  BY SoundTypes
<1>3. PICK U \in SUBSET Rg!Addrs : U = r.used
  BY SoundTypes
<1>4. PICK z \in [Rg!Addrs -> Nat] : z = r.size
  BY SoundTypes
<1>5. Listed(r) /\ Tiles(F \cup U, z) /\ F \cap U = {} /\ Apart(F, z)
  <2>1. F \cup U \cup {} = F \cup U
    OBVIOUS
  <2> QED
    BY <1>2, <1>3, <1>4, <2>1 DEF Sound
<1>6. Without(p, r, i)
  BY <1>1, <1>5, RemovedIs
<1>7. /\ Listed(p) /\ p \in Allocators /\ Items(p.by_addr) = F \ {i} /\ p.size = z /\ p.used = U
      /\ p.unused = r.unused /\ Len(p.by_addr) + 1 = Len(r.by_addr) /\ r.unused \in Int
  <2>1. r.unused \in Int
    BY SoundTypes
  <2> QED
    BY <1>2, <1>3, <1>4, <1>6, <2>1 DEF Without, Listed
<1>8. i \in F /\ i \in Rg!Addrs /\ i \notin U
  BY <1>2, <1>5
<1>9. q = [p EXCEPT !.used = U \cup {i}]
  BY <1>1, <1>7
<1>10. /\ q \in Allocators /\ q.by_addr = p.by_addr /\ q.by_size = p.by_size
       /\ q.first_bigger = p.first_bigger /\ q.size = z /\ q.used = U \cup {i} /\ q.unused = p.unused
  <2>1. U \cup {i} \in SUBSET Rg!Addrs
    BY <1>8
  <2>2. q \in Allocators
    BY <1>7, <1>9, <2>1 DEF Allocators
  <2>3. /\ q.by_addr = p.by_addr /\ q.by_size = p.by_size /\ q.first_bigger = p.first_bigger
        /\ q.size = p.size /\ q.used = U \cup {i} /\ q.unused = p.unused
    BY <1>7, <1>9 DEF Allocators
  <2> QED
    BY <1>7, <2>2, <2>3
<1>11. Listed(q)
  <2>1. \A y \in Items(p.by_addr) : q.size[y] = p.size[y]
    BY <1>7, <1>10
  <2> QED
    BY <1>7, <1>10, <2>1, StillListed
<1>12. Tiles((F \ {i}) \cup (U \cup {i}) \cup {}, z)
  <2>1. (F \ {i}) \cup (U \cup {i}) \cup {} = F \cup U
    BY <1>8
  <2> QED
    BY <1>5, <2>1
<1>13. (F \ {i}) \cap (U \cup {i}) = {} /\ Apart(F \ {i}, z)
  BY <1>5 DEF Apart
<1>14. Items(q.by_addr) = F \ {i}
  BY <1>7, <1>10
<1>15. Sound(q, {})
  BY <1>10, <1>11, <1>12, <1>13, <1>14 DEF Sound
<1>16. q.unused = r.unused /\ Len(q.by_addr) + 1 = Len(r.by_addr) /\ Len(q.by_addr) \in Nat
  BY <1>7, <1>10, <1>15, SoundTypes
<1>17. q.unused + Len(q.by_addr) + 1 = r.unused + Len(r.by_addr) /\ q.unused >= r.unused - 1
       /\ ~(q.unused < r.unused)
  <2>1. PICK k \in Nat : k = Len(q.by_addr)
    BY <1>16
  <2>2. PICK m \in Int : m = r.unused
    BY <1>7
  <2>3. m + k + 1 = m + (k + 1) /\ m >= m - 1 /\ ~(m < m)
    OBVIOUS
  <2> QED
    BY <1>16, <2>1, <2>2, <2>3
<1> QED
  BY <1>3, <1>8, <1>10, <1>15, <1>16, <1>17 DEF Allocated

\* The rest of a region that is cut touches what was cut off it, or has become
\* part of a region that does.
LEMMA CutOff ==
  ASSUME Rg!RegionAssumption, NEW r, NEW i, NEW a, NEW x, NEW sz, Parts(r, i, a, x, sz)
  PROVE  /\ Allocated(Rg!add_free_region(CutUp(r, i, a, x, sz), x), a, r)
         /\ Rg!add_free_region(CutUp(r, i, a, x, sz), x).unused >= r.unused - 1
<1>0. /\ Sound(r, {}) /\ i \in Items(r.by_addr) /\ sz \in Nat \ {0} /\ sz < r.size[i]
      /\ (a = i /\ x = i + sz) \/ (x = i /\ a = i + (r.size[i] - sz))
  BY DEF Parts
<1>1. PICK j : j = CutUp(r, i, a, x, sz)
  OBVIOUS
<1>2. /\ Sound(j, {x}) /\ a \in Rg!Addrs \ r.used /\ j.used = r.used \cup {a}
      /\ j.unused = r.unused - 1 /\ Len(j.by_addr) + 1 = Len(r.by_addr)
      /\ j.size[a] = sz /\ j.size[x] = r.size[i] - sz
  <2>1. IsCut(j, r, i, a, x, sz)
    BY <1>1, CutIs
  <2> QED
    BY <2>1 DEF IsCut
<1>3. PICK q : q = Rg!add_free_region(j, x)
  OBVIOUS
<1>4. Added(q, j, x)
  BY <1>2, <1>3, AddIs
<1>5. /\ Sound(q, {}) /\ q.used = j.used /\ (\A y \in j.used : q.size[y] = j.size[y])
      /\ q.unused + Len(q.by_addr) = j.unused + Len(j.by_addr) + 1 /\ q.unused >= j.unused
  BY <1>4 DEF Added
<1>6. PICK b \in Items(q.by_addr) : b <= x /\ x + j.size[x] <= b + q.size[b]
  BY <1>4 DEF Added
<1>7. r.unused \in Int /\ Len(r.by_addr) \in Nat
  BY <1>0, SoundTypes
<1>8. j.unused \in Int /\ Len(j.by_addr) \in Nat
  BY <1>2, SoundTypes
<1>9. q.unused \in Int /\ Len(q.by_addr) \in Nat
  BY <1>5, SoundTypes
<1>10. q.unused + Len(q.by_addr) + 1 = r.unused + Len(r.by_addr) /\ q.unused >= r.unused - 1
  <2>1. PICK k \in Nat : k = Len(r.by_addr)
    BY <1>7
  <2>2. PICK l \in Nat : l = Len(j.by_addr)
    BY <1>8
  <2>3. PICK m \in Nat : m = Len(q.by_addr)
    BY <1>9
  <2>4. l + 1 = k /\ j.unused = r.unused - 1 /\ q.unused + m = j.unused + l + 1 /\ q.unused >= j.unused
    BY <1>2, <1>5, <2>1, <2>2, <2>3
  <2>5. q.unused + m + 1 = r.unused + k /\ q.unused >= r.unused - 1
    BY <1>7, <1>8, <1>9, <2>4
  <2> QED
    BY <2>1, <2>3, <2>5
<1>11. b + q.size[b] = a \/ a + q.size[a] = b
  <2>1. a \in j.used /\ a \in q.used /\ q.size[a] = sz
    BY <1>2, <1>5
  <2>2. Items(q.by_addr) \cap q.used = {} /\ Tiles(Items(q.by_addr) \cup q.used \cup {}, q.size)
    BY <1>5 DEF Sound
  <2>3. a # b /\ a \in Nat /\ b \in Nat /\ q.size[b] \in Nat
    BY <1>5, <1>6, <2>1, <2>2, SoundTypes
  <2>4. (a < b => a + q.size[a] <= b) /\ (b < a => b + q.size[b] <= a)
    BY <1>6, <2>1, <2>2 DEF Tiles
  <2>5. i \in Nat /\ r.size[i] \in Nat /\ sz \in Nat
    BY <1>0, SoundTypes
  <2>6. PICK d \in Nat : d = q.size[b]
    BY <2>3
  <2>7. PICK h \in Nat : h = r.size[i] - sz /\ h > 0
    <3>1. r.size[i] - sz \in Nat /\ r.size[i] - sz > 0
      BY <1>0, <2>5
    <3> QED
      BY <3>1
  <2>8. b <= x /\ x + h <= b + d
    BY <1>2, <1>6, <2>6, <2>7
  <2>9. (a < b => a + sz <= b) /\ (b < a => b + d <= a)
    BY <2>1, <2>4, <2>6
  <2>10. (a = i /\ x = i + sz) \/ (x = i /\ a = i + h)
    BY <1>0, <2>7
  <2>11. b + d = a \/ a + sz = b
    BY <2>3, <2>5, <2>8, <2>9, <2>10
  <2> QED
    BY <2>1, <2>6, <2>11
<1>12. \E y \in Items(q.by_addr) : y + q.size[y] = a \/ a + q.size[a] = y
  BY <1>6, <1>11
<1>13. q.used = r.used \cup {a}
  BY <1>2, <1>5
<1>14. Allocated(q, a, r)
  BY <1>2, <1>5, <1>10, <1>12, <1>13 DEF Allocated
<1> QED
  BY <1>1, <1>3, <1>10, <1>14

\* region_alloc_inner() allocates, or leaves everything as it is.
LEMMA AllocIs ==
  ASSUME Rg!RegionAssumption, NEW r, Sound(r, {}), NEW sz \in Nat \ {0}, NEW ur \in BOOLEAN,
         NEW d, d = Rg!region_alloc_inner(r, sz, ur)
  PROVE  /\ \/ d.addr = NoAddr /\ d.ra = r
            \/ /\ Allocated(d.ra, d.addr, r)
               /\ ~ur /\ r.unused >= ReserveDescs => d.ra.unused >= ReserveDescs
         /\ ur /\ sz = 1 /\ d.addr = NoAddr => r.by_addr = <<>>
<1>1. PICK i : i = Rg!Chosen(r, sz)
  OBVIOUS
<1>2. /\ i = NoAddr \/ (i \in Items(r.by_addr) /\ r.size[i] >= sz)
      /\ sz = 1 /\ i = NoAddr => r.by_addr = <<>>
  BY <1>1, ChosenIs
<1>3. CASE i = NoAddr
  <2>1. d = [addr |-> NoAddr, ra |-> r]
    BY <1>1, <1>3 DEF Rg!region_alloc_inner
  <2> QED
    BY <1>2, <1>3, <2>1
<1>4. CASE i # NoAddr
  <2>1. i \in Items(r.by_addr) /\ r.size[i] >= sz /\ r.size[i] \in Nat /\ i \in Nat /\ r.unused \in Int
    BY <1>2, <1>4, SoundTypes
  <2>2. CASE r.size[i] - sz = 0
    <3>1. PICK q : q = [Rg!remove_free_region(r, i) EXCEPT !.used = @ \cup {i}]
      OBVIOUS
    <3>2. d = [addr |-> i, ra |-> q]
      BY <1>1, <1>4, <2>2, <3>1 DEF Rg!region_alloc_inner
    <3>3. Allocated(q, i, r) /\ q.unused = r.unused
      BY <2>1, <3>1, TakenWhole
    <3> QED
      BY <1>4, <3>2, <3>3
  <2>3. CASE r.size[i] - sz # 0 /\ Rg!Scarce(r) /\ ~ur
    <3>1. d = [addr |-> NoAddr, ra |-> r]
      BY <1>1, <1>4, <2>3 DEF Rg!region_alloc_inner
    <3> QED
      BY <2>3, <3>1
  <2>4. CASE r.size[i] - sz # 0 /\ ~(Rg!Scarce(r) /\ ~ur)
    <3>1. PICK a : a = IF sz >= BigSize THEN i ELSE i + (r.size[i] - sz)
      OBVIOUS
    <3>2. PICK x : x = IF a = i THEN i + sz ELSE i
      OBVIOUS
    <3>3. sz < r.size[i] /\ i + (r.size[i] - sz) # i
      BY <2>1, <2>4
    <3>4. (a = i /\ x = i + sz) \/ (x = i /\ a = i + (r.size[i] - sz))
      BY <3>1, <3>2, <3>3
    <3>5. PICK q : q = Rg!add_free_region(CutUp(r, i, a, x, sz), x)
      OBVIOUS
    <3>6. d = [addr |-> a, ra |-> q]
      BY <1>1, <1>4, <2>4, <3>1, <3>2, <3>5 DEF Rg!region_alloc_inner, CutUp
    <3>7. Allocated(q, a, r) /\ q.unused >= r.unused - 1
      <4>1. Parts(r, i, a, x, sz)
        BY <2>1, <3>3, <3>4 DEF Parts
      <4> QED
        BY <3>5, <4>1, CutOff
    <3>8. ASSUME ~ur PROVE q.unused >= ReserveDescs
      <4>1. ~(r.unused <= ReserveDescs) /\ ReserveDescs \in Nat
        BY <2>4, <3>8 DEF Rg!Scarce, Rg!RegionAssumption
      <4>2. q.unused \in Int
        BY <3>7, SoundTypes DEF Allocated
      <4> QED
        BY <2>1, <3>7, <4>1, <4>2
    <3>9. a # NoAddr
      BY <3>7, AddrsAre DEF Allocated
    <3> QED
      BY <3>6, <3>7, <3>8, <3>9
  <2> QED
    BY <2>2, <2>3, <2>4
<1> QED
  BY <1>3, <1>4

\* The allocator q is r after a has been freed.
Freed(q, a, r) ==
  /\ Sound(q, {}) /\ q.used = r.used \ {a}
  /\ q.unused + Len(q.by_addr) = r.unused + Len(r.by_addr) + 1 /\ q.unused >= r.unused
  /\ (\E x \in Items(r.by_addr) : x + r.size[x] = a \/ a + r.size[a] = x)
       => q.unused >= r.unused + 1

LEMMA FreeIs ==
  ASSUME Rg!RegionAssumption, NEW r, Sound(r, {}), NEW a \in r.used
  PROVE  Freed(Rg!region_free_inner(r, a), a, r)
<1>1. PICK p : p = [r EXCEPT !.used = @ \ {a}]
  OBVIOUS
<1>2. /\ Listed(r) /\ r \in Allocators /\ Tiles(Items(r.by_addr) \cup r.used \cup {}, r.size)
      /\ Items(r.by_addr) \cap r.used = {} /\ Apart(Items(r.by_addr), r.size)
  BY DEF Sound, Listed
<1>3. /\ p \in Allocators /\ p.by_addr = r.by_addr /\ p.by_size = r.by_size /\ p.size = r.size
      /\ p.first_bigger = r.first_bigger /\ p.used = r.used \ {a} /\ p.unused = r.unused
  <2>1. r.used \ {a} \in SUBSET Rg!Addrs
    BY <1>2 DEF Allocators
  <2>2. p \in Allocators
    BY <1>1, <1>2, <2>1 DEF Allocators
  <2>3. /\ p.by_addr = r.by_addr /\ p.by_size = r.by_size /\ p.size = r.size
        /\ p.first_bigger = r.first_bigger /\ p.used = r.used \ {a} /\ p.unused = r.unused
    BY <1>1, <1>2 DEF Allocators
  <2> QED
    BY <2>2, <2>3
<1>4. Listed(p)
  BY <1>2, <1>3, StillListed
<1>5. Items(r.by_addr) \cup r.used \cup {} = Items(r.by_addr) \cup (r.used \ {a}) \cup {a}
  OBVIOUS
<1>6. /\ Items(r.by_addr) \cap (r.used \ {a}) = {}
      /\ {a} \cap (Items(r.by_addr) \cup (r.used \ {a})) = {}
  BY <1>2
<1>7. Sound(p, {a})
  BY <1>2, <1>3, <1>4, <1>5, <1>6 DEF Sound
<1>8. PICK q : q = Rg!add_free_region(p, a)
  OBVIOUS
<1>9. Added(q, p, a)
  BY <1>7, <1>8, AddIs
<1>10. q = Rg!region_free_inner(r, a)
  BY <1>1, <1>8 DEF Rg!region_free_inner
<1> QED
  BY <1>3, <1>9, <1>10 DEF Added, Freed

-----------------------------------------------------------------------------
(***************************************************************************)
(* The invariant.  Of the allocator between two calls: it is sound, and    *)
(* the descriptors are counted.  It is not enough that the regions fill    *)
(* the space: that a descriptor comes back when a page of descriptors is   *)
(* given back needs that no two free regions touch.                        *)
(***************************************************************************)
Keeps(r, o) ==
  /\ Sound(r, {}) /\ o \subseteq r.used /\ r.unused >= ReserveDescs
  /\ r.unused + Len(r.by_addr) + Cardinality(r.used) = BaseDescs - 1 + DescsPerPage * Cardinality(o)

RgInv ==
  /\ Keeps(Rg!ra, rg_own) /\ rg_panic \in BOOLEAN
  /\ rg_panic => rg_by_addr = <<>>

LEMMA FiniteUsed ==
  ASSUME Rg!RegionAssumption, NEW r, Sound(r, {}), NEW o, o \subseteq r.used
  PROVE  /\ IsFiniteSet(r.used) /\ Cardinality(r.used) \in Nat
         /\ IsFiniteSet(o) /\ Cardinality(o) \in Nat
<1>1. AddrSpace \in Nat \ {0} /\ Rg!Addrs = 0 .. AddrSpace - 1
  BY AddrsAre
<1>2. IsFiniteSet(0 .. AddrSpace - 1)
  BY <1>1, FS_Interval
<1>3. r.used \in SUBSET Rg!Addrs
  BY SoundTypes
<1>4. IsFiniteSet(r.used)
  BY <1>1, <1>2, <1>3, FS_Subset
<1>5. IsFiniteSet(o)
  BY <1>4, FS_Subset
<1> QED
  BY <1>4, <1>5, FS_CardinalityType

\* The sums of descriptors.
LEMMA SumAllocated ==
  ASSUME NEW n \in Int, NEW m \in Int, NEW k \in Int, NEW l \in Int, NEW c \in Int,
         n + l + 1 = m + k
  PROVE  n + l + (c + 1) = m + k + c
OBVIOUS

LEMMA AllocatedKeeps ==
  ASSUME Rg!RegionAssumption, NEW r, NEW o, Keeps(r, o), NEW q, NEW a, Allocated(q, a, r),
         q.unused >= ReserveDescs
  PROVE  Keeps(q, o)
<1>1. /\ Sound(r, {}) /\ o \subseteq r.used
      /\ r.unused + Len(r.by_addr) + Cardinality(r.used) = BaseDescs - 1 + DescsPerPage * Cardinality(o)
  BY DEF Keeps
<1>2. /\ Sound(q, {}) /\ a \in Rg!Addrs \ r.used /\ q.used = r.used \cup {a}
      /\ q.unused + Len(q.by_addr) + 1 = r.unused + Len(r.by_addr)
  BY DEF Allocated
<1>3. IsFiniteSet(r.used) /\ Cardinality(r.used) \in Nat
  BY <1>1, FiniteUsed
<1>4. Cardinality(q.used) = Cardinality(r.used) + 1
  BY <1>2, <1>3, FS_AddElement
<1>5. r.unused \in Int /\ Len(r.by_addr) \in Nat
  BY <1>1, SoundTypes
<1>6. q.unused \in Int /\ Len(q.by_addr) \in Nat
  BY <1>2, SoundTypes
<1>7. q.unused + Len(q.by_addr) + Cardinality(q.used) = r.unused + Len(r.by_addr) + Cardinality(r.used)
  <2>1. PICK c \in Nat : c = Cardinality(r.used)
    BY <1>3
  <2>2. PICK k \in Nat : k = Len(r.by_addr)
    BY <1>5
  <2>3. PICK l \in Nat : l = Len(q.by_addr)
    BY <1>6
  <2>4. q.unused + l + 1 = r.unused + k /\ Cardinality(q.used) = c + 1
    BY <1>2, <1>4, <2>1, <2>2, <2>3
  <2>5. q.unused + l + (c + 1) = r.unused + k + c
    <3>1. PICK n \in Int : n = q.unused
      BY <1>6
    <3>2. PICK m \in Int : m = r.unused
      BY <1>5
    <3>3. n + l + 1 = m + k /\ c \in Int /\ k \in Int /\ l \in Int
      BY <2>1, <2>2, <2>3, <2>4, <3>1, <3>2
    <3>4. n + l + (c + 1) = m + k + c
      BY <3>1, <3>2, <3>3, SumAllocated
    <3> QED
      BY <3>1, <3>2, <3>4
  <2> QED
    BY <2>1, <2>2, <2>3, <2>4, <2>5
<1> QED
  BY <1>1, <1>2, <1>7 DEF Keeps

LEMMA SumFreed ==
  ASSUME NEW n \in Int, NEW m \in Int, NEW k \in Int, NEW l \in Int, NEW c \in Int,
         n + l = m + k + 1
  PROVE  n + l + (c - 1) = m + k + c
OBVIOUS

LEMMA SumKept ==
  ASSUME NEW n \in Int, NEW m \in Int, NEW k \in Int, NEW l \in Int, NEW c \in Int,
         NEW v \in Int, NEW b \in Int, NEW h \in Int, NEW d \in Int,
         m + l + 1 = v + k, v + k + c = b + h, n = m + d
  PROVE  n + l + (c + 1) = b + (h + d)
OBVIOUS

LEMMA FreedKeeps ==
  ASSUME Rg!RegionAssumption, NEW r, NEW o, Keeps(r, o), NEW q, NEW a \in r.used \ o, Freed(q, a, r)
  PROVE  Keeps(q, o)
<1>1. /\ Sound(r, {}) /\ o \subseteq r.used /\ r.unused >= ReserveDescs
      /\ r.unused + Len(r.by_addr) + Cardinality(r.used) = BaseDescs - 1 + DescsPerPage * Cardinality(o)
  BY DEF Keeps
<1>2. /\ Sound(q, {}) /\ q.used = r.used \ {a} /\ q.unused >= r.unused
      /\ q.unused + Len(q.by_addr) = r.unused + Len(r.by_addr) + 1
  BY DEF Freed
<1>3. IsFiniteSet(r.used) /\ Cardinality(r.used) \in Nat
  BY <1>1, FiniteUsed
<1>4. Cardinality(q.used) = Cardinality(r.used) - 1
  BY <1>2, <1>3, FS_RemoveElement
<1>5. r.unused \in Int /\ Len(r.by_addr) \in Nat
  BY <1>1, SoundTypes
<1>6. q.unused \in Int /\ Len(q.by_addr) \in Nat
  BY <1>2, SoundTypes
<1>7. q.unused + Len(q.by_addr) + Cardinality(q.used) = r.unused + Len(r.by_addr) + Cardinality(r.used)
  <2>1. PICK c \in Nat : c = Cardinality(r.used)
    BY <1>3
  <2>2. PICK k \in Nat : k = Len(r.by_addr)
    BY <1>5
  <2>3. PICK l \in Nat : l = Len(q.by_addr)
    BY <1>6
  <2>4. q.unused + l = r.unused + k + 1 /\ Cardinality(q.used) = c - 1
    BY <1>2, <1>4, <2>1, <2>2, <2>3
  <2>5. q.unused + l + (c - 1) = r.unused + k + c
    <3>1. PICK n \in Int : n = q.unused
      BY <1>6
    <3>2. PICK m \in Int : m = r.unused
      BY <1>5
    <3>3. n + l = m + k + 1
      BY <2>4, <3>1, <3>2
    <3>4. n + l + (c - 1) = m + k + c
      <4>1. c \in Int /\ k \in Int /\ l \in Int
        BY <2>1, <2>2, <2>3
      <4> QED
        BY <3>1, <3>2, <3>3, <4>1, SumFreed
    <3> QED
      BY <3>1, <3>2, <3>4
  <2> QED
    BY <2>1, <2>2, <2>3, <2>4, <2>5
<1>8. o \subseteq q.used
  BY <1>1, <1>2
<1>9. q.unused >= ReserveDescs
  BY <1>1, <1>2, <1>5, <1>6 DEF Rg!RegionAssumption
<1> QED
  BY <1>1, <1>2, <1>7, <1>8, <1>9 DEF Keeps

\* region_alloc_inner() without the reserve.
LEMMA InnerKeeps ==
  ASSUME Rg!RegionAssumption, NEW r, NEW o, Keeps(r, o), NEW sz \in Nat \ {0}
  PROVE  Keeps(Rg!region_alloc_inner(r, sz, FALSE).ra, o)
<1>1. PICK d : d = Rg!region_alloc_inner(r, sz, FALSE)
  OBVIOUS
<1>2. Sound(r, {}) /\ r.unused >= ReserveDescs
  BY DEF Keeps
<1>3. \/ d.addr = NoAddr /\ d.ra = r
      \/ /\ Allocated(d.ra, d.addr, r)
         /\ r.unused >= ReserveDescs => d.ra.unused >= ReserveDescs
  <2>1. FALSE \in BOOLEAN /\ ~FALSE
    OBVIOUS
  <2>2. \/ d.addr = NoAddr /\ d.ra = r
        \/ /\ Allocated(d.ra, d.addr, r)
           /\ ~FALSE /\ r.unused >= ReserveDescs => d.ra.unused >= ReserveDescs
    BY <1>1, <1>2, <2>1, AllocIs
  <2> QED
    BY <2>2
<1>4. CASE d.ra = r
  BY <1>1, <1>4
<1>5. CASE Allocated(d.ra, d.addr, r) /\ (r.unused >= ReserveDescs => d.ra.unused >= ReserveDescs)
  BY <1>1, <1>2, <1>5, AllocatedKeeps
<1> QED
  BY <1>3, <1>4, <1>5

\* The page of descriptors is kept, or it is given back and with it the
\* descriptor that it took.
LEMMA PageKeeps ==
  ASSUME Rg!RegionAssumption, NEW r, NEW o, Keeps(r, o),
         Rg!region_alloc_inner(r, 1, TRUE).addr # NoAddr, NEW q \in Rg!WithDescriptors(r)
  PROVE  Keeps(q, o \cup (q.used \ r.used))
<1>1. PICK d : d = Rg!region_alloc_inner(r, 1, TRUE)
  OBVIOUS
<1>2. PICK p : p = d.ra
  OBVIOUS
<1>3. PICK a : a = d.addr
  OBVIOUS
<1>4. /\ Sound(r, {}) /\ o \subseteq r.used /\ r.unused >= ReserveDescs
      /\ r.unused + Len(r.by_addr) + Cardinality(r.used) = BaseDescs - 1 + DescsPerPage * Cardinality(o)
  BY DEF Keeps
<1>5. Allocated(p, a, r)
  <2>1. TRUE \in BOOLEAN /\ 1 \in Nat \ {0}
    OBVIOUS
  <2>2. \/ d.addr = NoAddr /\ d.ra = r
        \/ Allocated(d.ra, d.addr, r)
    BY <1>1, <1>4, <2>1, AllocIs
  <2> QED
    BY <1>1, <1>2, <1>3, <2>2
<1>6. /\ Sound(p, {}) /\ a \in Rg!Addrs \ r.used /\ p.used = r.used \cup {a}
      /\ p.unused + Len(p.by_addr) + 1 = r.unused + Len(r.by_addr)
      /\ p.unused >= r.unused - 1
      /\ p.unused < r.unused => \E x \in Items(p.by_addr) : x + p.size[x] = a \/ a + p.size[a] = x
  BY <1>5 DEF Allocated
<1>7. r.unused \in Int /\ Len(r.by_addr) \in Nat /\ ReserveDescs \in Nat /\ BaseDescs \in Nat
      /\ DescsPerPage \in Nat \ {0}
  BY <1>4, SoundTypes DEF Rg!RegionAssumption
<1>8. p.unused \in Int /\ Len(p.by_addr) \in Nat /\ p \in Allocators
  BY <1>6, SoundTypes
<1>9. IsFiniteSet(r.used) /\ Cardinality(r.used) \in Nat /\ IsFiniteSet(o) /\ Cardinality(o) \in Nat
  BY <1>4, FiniteUsed
<1>10. q = Rg!region_free_inner(p, a) \/ q = [p EXCEPT !.unused = @ + DescsPerPage]
  BY <1>1, <1>2, <1>3 DEF Rg!WithDescriptors
<1>11. PICK k \in Nat : k = Len(r.by_addr)
  BY <1>7
<1>12. PICK l \in Nat : l = Len(p.by_addr)
  BY <1>8
<1>13. PICK c \in Nat : c = Cardinality(r.used)
  BY <1>9
<1>14. PICK e \in Nat : e = Cardinality(o)
  BY <1>9
<1>15. CASE q = Rg!region_free_inner(p, a)
  <2>1. Freed(q, a, p)
    BY <1>6, <1>15, FreeIs
  <2>2. /\ Sound(q, {}) /\ q.used = p.used \ {a} /\ q.unused >= p.unused
        /\ q.unused + Len(q.by_addr) = p.unused + Len(p.by_addr) + 1
        /\ (\E x \in Items(p.by_addr) : x + p.size[x] = a \/ a + p.size[a] = x)
             => q.unused >= p.unused + 1
    BY <2>1 DEF Freed
  <2>3. q.unused \in Int /\ Len(q.by_addr) \in Nat
    BY <2>2, SoundTypes
  <2>4. q.unused >= ReserveDescs
    <3>1. CASE p.unused < r.unused
      <4>1. q.unused >= p.unused + 1
        BY <1>6, <2>2, <3>1
      <4> QED
        BY <1>4, <1>6, <1>7, <1>8, <2>3, <4>1
    <3>2. CASE ~(p.unused < r.unused)
      BY <1>4, <1>7, <1>8, <2>2, <2>3, <3>2
    <3> QED
      BY <3>1, <3>2
  <2>5. q.used = r.used /\ o \cup (q.used \ r.used) = o
    BY <1>6, <2>2
  <2>6. PICK m \in Nat : m = Len(q.by_addr)
    BY <2>3
  <2>7. q.unused + m = r.unused + k
    <3>1. q.unused + m = p.unused + l + 1 /\ p.unused + l + 1 = r.unused + k
      BY <1>6, <1>11, <1>12, <2>2, <2>6
    <3> QED
      BY <3>1
  <2>8. q.unused + Len(q.by_addr) + Cardinality(q.used) = BaseDescs - 1 + DescsPerPage * Cardinality(o)
    BY <1>4, <1>11, <2>5, <2>6, <2>7
  <2> QED
    BY <1>4, <2>2, <2>4, <2>5, <2>8 DEF Keeps
<1>16. CASE q = [p EXCEPT !.unused = @ + DescsPerPage]
  <2>1. PICK n \in Int : n = p.unused + DescsPerPage
    BY <1>7, <1>8
  <2>2. q = [p EXCEPT !.unused = n]
    BY <1>16, <2>1
  <2>3. /\ q \in Allocators /\ q.by_addr = p.by_addr /\ q.by_size = p.by_size /\ q.size = p.size
        /\ q.first_bigger = p.first_bigger /\ q.used = p.used /\ q.unused = n
    BY <1>8, <2>2 DEF Allocators
  <2>4. Sound(q, {})
    <3>1. Listed(p)
      BY <1>6 DEF Sound
    <3>2. Listed(q)
      BY <2>3, <3>1, StillListed
    <3> QED
      BY <1>6, <2>3, <3>2 DEF Sound
  <2>5. q.used \ r.used = {a} /\ a \notin o /\ a \notin r.used /\ q.used = r.used \cup {a}
    BY <1>4, <1>6, <2>3
  <2>6. Cardinality(o \cup {a}) = e + 1
    BY <1>9, <1>14, <2>5, FS_AddElement
  <2>7. Cardinality(q.used) = c + 1
    BY <1>9, <1>13, <2>5, FS_AddElement
  <2>8. q.unused >= ReserveDescs
    BY <1>4, <1>6, <1>7, <1>8, <2>1, <2>3
  <2>9. n + l + (c + 1) = BaseDescs - 1 + DescsPerPage * (e + 1)
    <3>1. p.unused + l + 1 = r.unused + k /\ r.unused + k + c = BaseDescs - 1 + DescsPerPage * e
      BY <1>4, <1>6, <1>11, <1>12, <1>13, <1>14
    <3>2. DescsPerPage * (e + 1) = DescsPerPage * e + DescsPerPage /\ DescsPerPage * e \in Nat
      BY <1>7
    <3>3. PICK h \in Nat : h = DescsPerPage * e
      BY <3>2
    <3>4. PICK d1 \in Nat : d1 = DescsPerPage
      BY <1>7
    <3>5. PICK b1 \in Int : b1 = BaseDescs - 1
      BY <1>7
    <3>6. PICK m \in Int : m = p.unused
      BY <1>8
    <3>7. PICK v \in Int : v = r.unused
      BY <1>7
    <3>8. m + l + 1 = v + k /\ v + k + c = b1 + h /\ n = m + d1
      BY <2>1, <3>1, <3>3, <3>4, <3>5, <3>6, <3>7
    <3>9. n + l + (c + 1) = b1 + (h + d1)
      <4>1. c \in Int /\ k \in Int /\ l \in Int /\ h \in Int /\ d1 \in Int
        BY <1>11, <1>12, <1>13, <3>3, <3>4
      <4>2. n \in Int /\ m \in Int /\ v \in Int /\ b1 \in Int
        BY <2>1, <3>5, <3>6, <3>7
      <4> QED
        BY <3>8, <4>1, <4>2, SumKept
    <3> QED
      BY <3>2, <3>3, <3>4, <3>5, <3>9
  <2>10. o \cup {a} \subseteq q.used
    BY <1>4, <2>5
  <2>11. q.unused + Len(q.by_addr) + Cardinality(q.used)
           = BaseDescs - 1 + DescsPerPage * Cardinality(o \cup {a})
    BY <1>12, <2>3, <2>6, <2>7, <2>9
  <2> QED
    BY <2>4, <2>5, <2>8, <2>10, <2>11 DEF Keeps
<1> QED
  BY <1>10, <1>15, <1>16

LEMMA RaIs ==
  /\ Rg!ra.by_addr = rg_by_addr /\ Rg!ra.by_size = rg_by_size /\ Rg!ra.size = rg_size
  /\ Rg!ra.first_bigger = rg_bigger /\ Rg!ra.used = rg_used /\ Rg!ra.unused = rg_unused
BY DEF Rg!ra

LEMMA BecomesIs ==
  ASSUME NEW r \in Allocators, Rg!Becomes(r)
  PROVE  Rg!ra' = r
<1>1. r = [by_addr |-> r.by_addr, by_size |-> r.by_size, size |-> r.size,
           first_bigger |-> r.first_bigger, used |-> r.used, unused |-> r.unused]
  BY DEF Allocators
<1>2. Rg!ra' = [by_addr |-> r.by_addr, by_size |-> r.by_size, size |-> r.size,
                first_bigger |-> r.first_bigger, used |-> r.used, unused |-> r.unused]
  BY DEF Rg!Becomes, Rg!ra
<1> QED
  BY <1>1, <1>2

LEMMA OneItem ==
  ASSUME NEW S, NEW t \in S
  PROVE  <<t>> \in Seq(S) /\ Len(<<t>>) = 1 /\ <<t>>[1] = t
OBVIOUS

LEMMA RegionsBegin ==
  ASSUME Rg!RegionAssumption, Rg!Init
  PROVE  RgInv
<1>1. /\ rg_by_addr = <<0>> /\ rg_by_size = <<0>> /\ rg_used = {}
      /\ rg_size = [a \in Rg!Addrs |-> IF a = 0 THEN AddrSpace ELSE 0]
      /\ rg_bigger = [a \in Rg!Addrs |-> NoAddr]
      /\ rg_unused = BaseDescs - 2 /\ rg_own = {} /\ rg_panic = FALSE
  BY DEF Rg!Init, Rg!Addrs
<1>2. PICK r : r = Rg!ra
  OBVIOUS
<1>3. /\ AddrSpace \in Nat \ {0} /\ Rg!Addrs = 0 .. AddrSpace - 1 /\ 0 \in Rg!Addrs
      /\ BaseDescs \in Nat /\ ReserveDescs \in Nat /\ BaseDescs - 2 >= ReserveDescs
      /\ DescsPerPage \in Nat
  BY AddrsAre DEF Rg!RegionAssumption
<1>4. r = [by_addr |-> <<0>>, by_size |-> <<0>>,
           size |-> [a \in Rg!Addrs |-> IF a = 0 THEN AddrSpace ELSE 0],
           first_bigger |-> [a \in Rg!Addrs |-> NoAddr], used |-> {}, unused |-> BaseDescs - 2]
  BY <1>1, <1>2 DEF Rg!ra
<1>5. <<0>> \in Seq(Rg!Addrs) /\ Len(<<0>>) = 1 /\ <<0>>[1] = 0
  BY <1>3, OneItem
<1>6. PICK z \in [Rg!Addrs -> Nat] : z = [a \in Rg!Addrs |-> IF a = 0 THEN AddrSpace ELSE 0]
                                     /\ z[0] = AddrSpace
  <2>1. PICK z : z = [a \in Rg!Addrs |-> IF a = 0 THEN AddrSpace ELSE 0]
    OBVIOUS
  <2>2. z \in [Rg!Addrs -> Nat]
    <3>1. \A a \in Rg!Addrs : (IF a = 0 THEN AddrSpace ELSE 0) \in Nat
      BY <1>3
    <3> QED
      BY <2>1, <3>1
  <2>3. z[0] = AddrSpace
    BY <1>3, <2>1
  <2> QED
    BY <2>1, <2>2, <2>3
<1>7. r \in Allocators
  BY <1>3, <1>4, <1>5, <1>6 DEF Allocators
<1>8. /\ r.by_addr = <<0>> /\ r.by_size = <<0>> /\ r.size = z /\ r.used = {}
      /\ r.first_bigger[0] = NoAddr /\ r.unused = BaseDescs - 2
  BY <1>3, <1>4, <1>6
<1>9. Items(<<0>>) = {0}
  BY <1>5 DEF Items
<1>10. AddrOrdered(<<0>>) /\ Distinct(<<0>>)
  BY <1>5 DEF AddrOrdered, Distinct
<1>11. SizesListed(<<0>>, z, r.first_bigger)
  <2>1. SizeOrdered(<<0>>, z)
    BY <1>5 DEF SizeOrdered
  <2>2. \A n \in 1 .. Len(<<0>>) : n = 1 /\ <<0>>[n] = 0
    BY <1>5
  <2>3. z[0] <= z[0]
    BY <1>3, <1>6
  <2>4. \A m \in 1 .. Len(<<0>>) : z[<<0>>[m]] <= z[0]
    BY <2>2, <2>3
  <2>5. \A n \in 1 .. Len(<<0>>) :
          IsFirstBigger(<<0>>, z, <<0>>[n], r.first_bigger[<<0>>[n]])
    BY <1>8, <2>2, <2>4 DEF IsFirstBigger
  <2> QED
    BY <1>10, <2>1, <2>5 DEF SizesListed, BiggerExact
<1>12. Listed(r)
  BY <1>7, <1>8, <1>10, <1>11 DEF Listed
<1>13. Tiles({0} \cup {} \cup {}, z)
  <2>1. {0} \cup {} \cup {} = {0}
    OBVIOUS
  <2>2. z[0] > 0 /\ 0 + z[0] <= AddrSpace
    BY <1>3, <1>6
  <2>3. ASSUME NEW x \in Rg!Addrs PROVE 0 <= x /\ x < 0 + z[0]
    BY <1>3, <1>6
  <2> QED
    BY <1>3, <2>1, <2>2, <2>3 DEF Tiles
<1>14. Apart({0}, z)
  <2>1. 0 + z[0] # 0
    BY <1>3, <1>6
  <2> QED
    BY <2>1 DEF Apart
<1>15. Sound(r, {})
  <2>1. Items(r.by_addr) = {0} /\ r.used = {} /\ r.size = z
    BY <1>8, <1>9
  <2>2. Tiles(Items(r.by_addr) \cup r.used \cup {}, r.size) /\ Apart(Items(r.by_addr), r.size)
    BY <1>13, <1>14, <2>1
  <2> QED
    BY <1>12, <2>1, <2>2 DEF Sound
<1>16. Cardinality({}) = 0
  BY FS_EmptySet
<1>17. r.unused + Len(r.by_addr) + Cardinality(r.used) = BaseDescs - 1 + DescsPerPage * Cardinality({})
  <2>1. BaseDescs - 2 + 1 + 0 = BaseDescs - 1 + DescsPerPage * 0
    BY <1>3
  <2> QED
    BY <1>5, <1>8, <1>16, <2>1
<1>18. Keeps(r, {})
  BY <1>3, <1>8, <1>15, <1>17 DEF Keeps
<1> QED
  BY <1>1, <1>2, <1>18 DEF RgInv

LEMMA AllocKeeps ==
  ASSUME Rg!RegionAssumption, RgInv, NEW sz \in SizesAsked, Rg!region_alloc(sz)
  PROVE  RgInv'
<1>0. sz \in Nat \ {0}
  BY DEF Rg!RegionAssumption
<1>1. PICK r : r = Rg!ra
  OBVIOUS
<1>2. PICK o : o = rg_own
  OBVIOUS
<1>3. Keeps(r, o) /\ rg_panic = FALSE /\ rg_used = r.used /\ rg_by_addr = r.by_addr
  BY <1>1, <1>2, RaIs DEF RgInv, Rg!region_alloc
<1>4. ASSUME NEW q, Keeps(q, o \cup (q.used \ r.used)),
             Rg!Becomes(Rg!region_alloc_inner(q, sz, FALSE).ra),
             rg_own' = rg_own \cup (q.used \ rg_used), UNCHANGED rg_panic
      PROVE  RgInv'
  <2>1. PICK p : p = Rg!region_alloc_inner(q, sz, FALSE).ra
    OBVIOUS
  <2>2. Keeps(p, o \cup (q.used \ r.used))
    BY <1>0, <1>4, <2>1, InnerKeeps
  <2>3. p \in Allocators
    BY <2>2 DEF Keeps, Sound, Listed
  <2>4. Rg!ra' = p
    BY <1>4, <2>1, <2>3, BecomesIs
  <2>5. rg_own' = o \cup (q.used \ r.used) /\ rg_panic' = FALSE
    BY <1>2, <1>3, <1>4
  <2> QED
    BY <2>2, <2>4, <2>5 DEF RgInv
<1>5. CASE ~Rg!Scarce(r)
  <2>1. Rg!Becomes(Rg!region_alloc_inner(r, sz, FALSE).ra) /\ UNCHANGED <<rg_own, rg_panic>>
    BY <1>1, <1>5 DEF Rg!region_alloc
  <2>2. o \cup (r.used \ r.used) = o /\ rg_own' = rg_own \cup (r.used \ rg_used)
    BY <1>3, <2>1
  <2> QED
    BY <1>3, <1>4, <2>1, <2>2
<1>6. CASE Rg!Scarce(r) /\ Rg!region_alloc_inner(r, 1, TRUE).addr = NoAddr
  <2>1. /\ rg_panic' = TRUE
        /\ UNCHANGED <<rg_by_addr, rg_by_size, rg_size, rg_bigger, rg_used, rg_unused, rg_own>>
    BY <1>1, <1>6 DEF Rg!region_alloc
  <2>2. r.by_addr = <<>>
    <3>1. PICK d : d = Rg!region_alloc_inner(r, 1, TRUE)
      OBVIOUS
    <3>2. TRUE \in BOOLEAN /\ 1 \in Nat \ {0} /\ Sound(r, {})
      BY <1>3 DEF Keeps
    <3>3. TRUE /\ 1 = 1 /\ d.addr = NoAddr => r.by_addr = <<>>
      BY <3>1, <3>2, AllocIs
    <3> QED
      BY <1>6, <3>1, <3>3
  <2>3. Rg!ra' = r
    BY <1>1, <2>1 DEF Rg!ra
  <2> QED
    BY <1>2, <1>3, <2>1, <2>2, <2>3 DEF RgInv
<1>7. CASE Rg!Scarce(r) /\ Rg!region_alloc_inner(r, 1, TRUE).addr # NoAddr
  <2>1. PICK q \in Rg!WithDescriptors(r) :
          /\ Rg!Becomes(Rg!region_alloc_inner(q, sz, FALSE).ra)
          /\ rg_own' = rg_own \cup (q.used \ rg_used)
          /\ UNCHANGED rg_panic
    BY <1>1, <1>7 DEF Rg!region_alloc
  <2>2. Keeps(q, o \cup (q.used \ r.used))
    BY <1>3, <1>7, PageKeeps
  <2> QED
    BY <1>4, <2>1, <2>2
<1> QED
  BY <1>5, <1>6, <1>7

LEMMA FreeKeeps ==
  ASSUME Rg!RegionAssumption, RgInv, NEW a \in Rg!Addrs, Rg!region_free(a)
  PROVE  RgInv'
<1>1. PICK r : r = Rg!ra
  OBVIOUS
<1>2. PICK o : o = rg_own
  OBVIOUS
<1>3. /\ Keeps(r, o) /\ rg_panic = FALSE /\ a \in r.used \ o
      /\ Rg!Becomes(Rg!region_free_inner(r, a)) /\ UNCHANGED <<rg_own, rg_panic>>
  BY <1>1, <1>2, RaIs DEF RgInv, Rg!region_free
<1>4. PICK q : q = Rg!region_free_inner(r, a)
  OBVIOUS
<1>5. Freed(q, a, r)
  <2>1. Sound(r, {}) /\ a \in r.used
    BY <1>3 DEF Keeps
  <2> QED
    BY <1>4, <2>1, FreeIs
<1>6. Keeps(q, o)
  BY <1>3, <1>5, FreedKeeps
<1>7. q \in Allocators
  BY <1>6 DEF Keeps, Sound, Listed
<1>8. Rg!ra' = q
  BY <1>3, <1>4, <1>7, BecomesIs
<1> QED
  BY <1>2, <1>3, <1>6, <1>8 DEF RgInv

LEMMA RegionsStep ==
  ASSUME Rg!RegionAssumption, RgInv, [Rg!Next]_(Rg!vars)
  PROVE  RgInv'
<1>1. ASSUME NEW sz \in SizesAsked, Rg!region_alloc(sz) PROVE RgInv'
  BY <1>1, AllocKeeps
<1>2. ASSUME NEW a \in Rg!Addrs, Rg!region_free(a) PROVE RgInv'
  BY <1>2, FreeKeeps
<1>3. CASE UNCHANGED Rg!vars
  BY <1>3 DEF RgInv, Rg!ra, Rg!vars
<1> QED
  BY <1>1, <1>2, <1>3 DEF Rg!Next

\* What the invariant says, in the words of the model.
LEMMA RegionsFill ==
  ASSUME Rg!RegionAssumption, RgInv
  PROVE  Rg!RegionsExact
<1>1. PICK r : r = Rg!ra
  OBVIOUS
<1>2. Sound(r, {}) /\ rg_by_addr = r.by_addr /\ rg_used = r.used /\ rg_size = r.size
  BY <1>1, RaIs DEF RgInv, Keeps
<1>3. PICK s \in Seq(Rg!Addrs) : s = rg_by_addr
  BY <1>2, SoundTypes
<1>4. PICK F \in SUBSET Rg!Addrs : F = Items(s) /\ F = Rg!ToSet(rg_by_addr)
  BY <1>3, AddrsAre, ToSetIs
<1>5. PICK U \in SUBSET Rg!Addrs : U = rg_used
  BY <1>2, SoundTypes
<1>6. PICK z \in [Rg!Addrs -> Nat] : z = rg_size
  BY <1>2, SoundTypes
<1>7. /\ AddrOrdered(s) /\ Tiles(F \cup U, z) /\ F \cap U = {} /\ Apart(F, z)
  <2>1. F \cup U \cup {} = F \cup U
    OBVIOUS
  <2> QED
    BY <1>2, <1>3, <1>4, <1>5, <1>6, <2>1 DEF Sound, Listed
<1>8. Rg!Addrs = 0 .. AddrSpace - 1 /\ AddrSpace \in Nat
  BY AddrsAre
<1>9. Rg!IsInjective(rg_by_addr)
  <2>1. Distinct(s)
    BY <1>3, <1>7, OrderedDiffer
  <2> QED
    BY <1>3, <2>1 DEF Distinct, Rg!IsInjective
<1>10. \A m, n \in DOMAIN rg_by_addr : m < n => rg_by_addr[m] < rg_by_addr[n]
  BY <1>3, <1>7 DEF AddrOrdered
<1>11. \A a \in F \cup U : Rg!Extent(a) = a .. a + z[a] - 1 /\ a \in Nat /\ z[a] \in Nat
  BY <1>6, <1>8 DEF Rg!Extent
<1>12. UNION {Rg!Extent(a) : a \in F \cup U} = Rg!Addrs
  <2>1. ASSUME NEW a \in F \cup U, NEW x \in Rg!Extent(a) PROVE x \in Rg!Addrs
    <3>1. a + z[a] <= AddrSpace
      BY <1>7 DEF Tiles
    <3>2. x \in a .. a + z[a] - 1 /\ a \in Nat /\ z[a] \in Nat
      BY <1>11, <2>1
    <3>3. PICK d \in Nat : d = z[a]
      BY <3>2
    <3>4. x \in Int /\ a <= x /\ x <= a + d - 1 /\ a + d <= AddrSpace
      BY <3>1, <3>2, <3>3
    <3> QED
      BY <1>8, <3>2, <3>3, <3>4
  <2>2. ASSUME NEW x \in Rg!Addrs PROVE \E a \in F \cup U : x \in Rg!Extent(a)
    <3>1. PICK a \in F \cup U : a <= x /\ x < a + z[a]
      BY <1>7 DEF Tiles
    <3>2. x \in Int
      BY <1>8
    <3>3. x \in a .. a + z[a] - 1
      BY <1>11, <3>1, <3>2
    <3> QED
      BY <1>11, <3>1, <3>3
  <2> QED
    BY <2>1, <2>2
<1>13. ASSUME NEW a \in F \cup U, NEW b \in F \cup U, a # b PROVE Rg!Extent(a) \cap Rg!Extent(b) = {}
  <2>1. a < b \/ b < a
    BY <1>11, <1>13
  <2>2. (a < b => a + z[a] <= b) /\ (b < a => b + z[b] <= a)
    BY <1>7 DEF Tiles
  <2>3. PICK d \in Nat : d = z[a]
    BY <1>11
  <2>4. PICK e \in Nat : e = z[b]
    BY <1>11
  <2>5. (a .. a + d - 1) \cap (b .. b + e - 1) = {}
    BY <1>11, <2>1, <2>2, <2>3, <2>4
  <2> QED
    BY <1>11, <2>3, <2>4, <2>5
<1>14. \A a, b \in F : a + z[a] # b
  BY <1>7 DEF Apart
<1> QED
  BY <1>4, <1>5, <1>6, <1>7, <1>9, <1>10, <1>12, <1>13, <1>14 DEF Rg!RegionsExact

LEMMA RegionsListed ==
  ASSUME Rg!RegionAssumption, RgInv
  PROVE  Rg!ListsAgree
<1>1. PICK r : r = Rg!ra
  OBVIOUS
<1>2. Sound(r, {}) /\ rg_by_addr = r.by_addr /\ rg_by_size = r.by_size /\ rg_size = r.size
      /\ rg_bigger = r.first_bigger
  BY <1>1, RaIs DEF RgInv, Keeps
<1>3. PICK s \in Seq(Rg!Addrs) : s = rg_by_addr
  BY <1>2, SoundTypes
<1>4. PICK u \in Seq(Rg!Addrs) : u = rg_by_size
  BY <1>2, SoundTypes
<1>5. PICK z \in [Rg!Addrs -> Nat] : z = rg_size
  BY <1>2, SoundTypes
<1>6. PICK l \in Nat : l = Len(u) /\ DOMAIN u = 1 .. l
  BY <1>4
<1>7. SizesListed(u, z, rg_bigger) /\ Items(u) = Items(s)
  BY <1>2, <1>3, <1>4, <1>5 DEF Sound, Listed
<1>8. Distinct(u) /\ SizeOrdered(u, z) /\ BiggerExact(u, z, rg_bigger)
  BY <1>7 DEF SizesListed
<1>9. Rg!IsInjective(u)
  BY <1>6, <1>8 DEF Distinct, Rg!IsInjective
<1>10. Rg!ToSet(u) = Rg!ToSet(s)
  BY <1>3, <1>4, <1>7, ToSetIs
<1>11. \A n \in 1 .. l : z[u[n]] \in Nat
  BY <1>4, <1>5, <1>6, ElementOfSeq
<1>12. ASSUME NEW n \in 1 .. l, NEW m \in 1 .. n PROVE z[u[m]] <= z[u[n]]
  <2>1. m \in 1 .. l /\ (m = n \/ m < n)
    BY <1>6
  <2>2. CASE m = n
    BY <1>11, <2>2
  <2>3. CASE m < n
    BY <1>6, <1>8, <2>1, <2>3 DEF SizeOrdered
  <2> QED
    BY <2>1, <2>2, <2>3
<1>13. ASSUME NEW n \in 1 .. l, NEW S, S = {m \in 1 .. l : z[u[m]] > z[u[n]]}
       PROVE  rg_bigger[u[n]] = IF S = {} THEN NoAddr ELSE u[Rg!Min(S)]
  <2>1. PICK y : y = rg_bigger[u[n]]
    OBVIOUS
  <2>2. IsFirstBigger(u, z, u[n], y)
    BY <1>6, <1>8, <2>1 DEF BiggerExact
  <2>3. CASE y = NoAddr /\ \A m \in 1 .. Len(u) : z[u[m]] <= z[u[n]]
    <3>1. S = {}
      BY <1>6, <1>11, <1>13, <2>3
    <3> QED
      BY <2>1, <2>3, <3>1
  <2>4. ASSUME NEW k \in 1 .. Len(u), y = u[k], z[u[k]] > z[u[n]],
               \A m \in 1 .. k - 1 : z[u[m]] <= z[u[n]]
        PROVE  y = IF S = {} THEN NoAddr ELSE u[Rg!Min(S)]
    <3>1. k \in S /\ S \in SUBSET (1 .. l)
      BY <1>6, <1>13, <2>4
    <3>2. Rg!Min(S) \in S /\ Rg!Min(S) <= k
      <4>1. l \in Nat /\ S # {}
        BY <1>6, <3>1
      <4> QED
        BY <3>1, <4>1, FirstPlace
    <3>3. PICK m \in 1 .. l : m = Rg!Min(S) /\ z[u[m]] > z[u[n]] /\ m <= k
      BY <1>13, <3>1, <3>2
    <3>4. ~(m \in 1 .. k - 1)
      <4>1. ~(z[u[m]] <= z[u[n]])
        BY <1>11, <3>3
      <4> QED
        BY <2>4, <4>1
    <3>5. m = k
      <4>1. k \in Int /\ m \in Int /\ 1 <= m /\ m <= k
        BY <1>6, <2>4, <3>3
      <4>2. ~(m < k)
        BY <3>4, <4>1
      <4> QED
        BY <4>1, <4>2
    <3> QED
      BY <2>4, <3>1, <3>3, <3>5
  <2> QED
    BY <2>1, <2>2, <2>3, <2>4 DEF IsFirstBigger
<1>14. ASSUME NEW n \in DOMAIN rg_by_size
       PROVE  LET larger == {m \in DOMAIN rg_by_size : rg_size[rg_by_size[m]] > rg_size[rg_by_size[n]]}
              IN /\ \A m \in 1 .. n : rg_size[rg_by_size[m]] <= rg_size[rg_by_size[n]]
                 /\ rg_bigger[rg_by_size[n]] =
                      IF larger = {} THEN NoAddr ELSE rg_by_size[Rg!Min(larger)]
  <2> DEFINE larger == {m \in DOMAIN rg_by_size : rg_size[rg_by_size[m]] > rg_size[rg_by_size[n]]}
  <2>1. n \in 1 .. l
    BY <1>4, <1>6
  <2>2. larger = {m \in 1 .. l : z[u[m]] > z[u[n]]}
    BY <1>4, <1>5, <1>6
  <2>3. \A m \in 1 .. n : rg_size[rg_by_size[m]] <= rg_size[rg_by_size[n]]
    BY <1>4, <1>5, <1>12, <2>1
  <2>4. PICK S : S = larger
    OBVIOUS
  <2>5. rg_bigger[u[n]] = IF S = {} THEN NoAddr ELSE u[Rg!Min(S)]
    BY <1>13, <2>1, <2>2, <2>4
  <2>6. rg_bigger[rg_by_size[n]] = IF larger = {} THEN NoAddr ELSE rg_by_size[Rg!Min(larger)]
    BY <1>4, <2>4, <2>5
  <2> HIDE DEF larger
  <2> QED
    BY <2>3, <2>6 DEF larger
<1> QED
  BY <1>3, <1>4, <1>9, <1>10, <1>14 DEF Rg!ListsAgree

LEMMA RgCardinality == \A S : Rg!Cardinality(S) = Cardinality(S)
BY DEF Rg!Cardinality, Cardinality

LEMMA RegionsCounted ==
  ASSUME RgInv
  PROVE  Rg!DescriptorsSuffice
<1>1. /\ rg_unused >= ReserveDescs /\ (rg_panic => rg_by_addr = <<>>)
      /\ rg_unused + Len(rg_by_addr) + Cardinality(rg_used)
           = BaseDescs - 1 + DescsPerPage * Cardinality(rg_own)
  BY RaIs DEF RgInv, Keeps
<1>2. Rg!Cardinality(rg_used) = Cardinality(rg_used) /\ Rg!Cardinality(rg_own) = Cardinality(rg_own)
  BY RgCardinality
<1> QED
  BY <1>1, <1>2 DEF Rg!DescriptorsSuffice

-----------------------------------------------------------------------------
(***************************************************************************)
(* Whatever is allocated and freed, and whether frames are there or not:   *)
(* each page of the kernel's space is in one region, the free ones are     *)
(* listed in order and by size and touch no other, and there are always    *)
(* descriptors for the next page of them: what region_alloc.c has its two  *)
(* lists and its reserve for.                                              *)
(***************************************************************************)
THEOREM RegionsStayWhole ==
  ASSUME Rg!RegionAssumption
  PROVE  Rg!Init /\ [][Rg!Next]_(Rg!vars)
           => [](Rg!RegionsExact /\ Rg!ListsAgree /\ Rg!DescriptorsSuffice)
<1>1. Rg!Init => RgInv
  BY RegionsBegin
<1>2. RgInv /\ [Rg!Next]_(Rg!vars) => RgInv'
  BY RegionsStep
<1>3. RgInv => Rg!RegionsExact /\ Rg!ListsAgree /\ Rg!DescriptorsSuffice
  BY RegionsFill, RegionsListed, RegionsCounted
<1> QED
  BY <1>1, <1>2, <1>3, PTL

-----------------------------------------------------------------------------
\* The parts of module KernelSpace stay apart.
LEMMA SpaceApart ==
  ASSUME NEW d, [SpaceNext]_<<which, space_vars>>
  PROVE  (which = d => which' = d) /\ (which # d => which' # d)
BY DEF SpaceNext

(***************************************************************************)
(* The kernel's half of the address space (module KernelSpace), whichever  *)
(* of its parts a behaviour exercises: regions partition it, their lists   *)
(* agree and descriptors suffice (region_alloc.c), and what is mapped in   *)
(* it is found through every directory (paging.c), for any space, sizes,   *)
(* directories, tables and threads.                                        *)
(***************************************************************************)
THEOREM KernelSpaceIsExact == SpaceSpec => []RegionsExact
<1>1. SpaceSpec => [](which = "regions" => Rg!RegionsExact /\ Rg!ListsAgree /\ Rg!DescriptorsSuffice)
  <2>1. SpaceInit /\ which = "regions" => Rg!Init
    BY DEF SpaceInit
  <2>2. which = "regions" /\ [SpaceNext]_<<which, space_vars>> => [Rg!Next]_(Rg!vars)
    BY DEF SpaceNext, space_vars, region_vars, Rg!vars
  <2>3. which = "regions" /\ [SpaceNext]_<<which, space_vars>> => (which = "regions")'
    BY SpaceApart
  <2>4. ~ (which = "regions") /\ [SpaceNext]_<<which, space_vars>> => ~ (which = "regions")'
    BY SpaceApart
  <2>5. Rg!Init /\ [][Rg!Next]_(Rg!vars) => [](Rg!RegionsExact /\ Rg!ListsAgree /\ Rg!DescriptorsSuffice)
    BY RegionsStayWhole, SpaceAssumption
  <2> QED
    BY <2>1, <2>2, <2>3, <2>4, <2>5, PTL DEF SpaceSpec
<1>2. SpaceSpec => [](which = "paging" => Pd!PagingExact)
  <2>1. SpaceInit /\ which = "paging" => Pd!Init
    BY DEF SpaceInit
  <2>2. which = "paging" /\ [SpaceNext]_<<which, space_vars>> => [Pd!Next]_(Pd!vars)
    BY DEF SpaceNext, space_vars, dir_vars, Pd!vars
  <2>3. which = "paging" /\ [SpaceNext]_<<which, space_vars>> => (which = "paging")'
    BY SpaceApart
  <2>4. ~ (which = "paging") /\ [SpaceNext]_<<which, space_vars>> => ~ (which = "paging")'
    BY SpaceApart
  <2>5. Pd!Init /\ [][Pd!Next]_(Pd!vars) => []Pd!PagingExact
    BY DirectoriesAreExact, SpaceAssumption
  <2> QED
    BY <2>1, <2>2, <2>3, <2>4, <2>5, PTL DEF SpaceSpec
<1> QED
  BY <1>1, <1>2, PTL DEF RegionsExact
=============================================================================
