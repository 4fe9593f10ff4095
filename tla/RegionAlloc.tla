---------------------------- MODULE RegionAlloc ----------------------------
(***************************************************************************)
(* The allocator of kernel address space, common/libkogata/region_alloc.c: *)
(* free regions listed by address and by size, with first_bigger pointers  *)
(* that skip regions of equal size, and descriptors that are taken from    *)
(* pages of their own.  Sizes and addresses are in pages.  Every operation *)
(* runs under ra_mutex, so each is one step.                               *)
(***************************************************************************)
EXTENDS Integers, Sequences, SequencesExt, FiniteSetsExt

CONSTANTS
  Space,        \* pages to allocate from
  Sizes,        \* sizes that are asked for
  BigSize,      \* 0x4000: larger regions are taken from the beginning
  Base,         \* N_BASE_DESCRIPTORS, 12 in the code
  Reserve,      \* N_RESERVE_DESCRIPTORS, 2 in the code
  PerPage,      \* descriptors in a page
  None

\* Two descriptors are taken before the first call.
RegionAssumption ==
  /\ Space \in Nat \ {0} /\ Sizes \subseteq Nat \ {0} /\ BigSize \in Nat
  /\ Reserve \in Nat /\ Base \in Nat /\ Base - 2 >= Reserve /\ PerPage \in Nat \ {0}
  /\ None \notin 0 .. Space - 1

VARIABLES
  by_addr,      \* the addresses on the list by address
  by_size,      \* the addresses on the list by size
  size,         \* the size of the region at an address, free or used
  first_bigger, \* of the free regions: an address, or None
  used,         \* the addresses of the used regions
  unused,       \* n_unused_descriptors
  own,          \* history: the used regions that hold descriptors
  panic         \* an ASSERT failed

vars == <<by_addr, by_size, size, first_bigger, used, unused,
          own, panic>>

Addrs == 0 .. Space - 1
ra == [by_addr |-> by_addr, by_size |-> by_size, size |-> size,
       first_bigger |-> first_bigger, used |-> used, unused |-> unused]

\* One descriptor is for the free region, one for the reserved one before it.
Init ==
  /\ by_addr = <<0>> /\ by_size = <<0>> /\ used = {}
  /\ size = [a \in Addrs |-> IF a = 0 THEN Space ELSE 0]
  /\ first_bigger = [a \in Addrs |-> None]
  /\ unused = Base - 2 /\ own = {} /\ panic = FALSE

\* Where a region is on a list, and the one behind it.
Place(s, a) == CHOOSE n \in DOMAIN s : s[n] = a
NextIn(s, a) == IF Place(s, a) = Len(s) THEN None ELSE s[Place(s, a) + 1]

\* Regions that point to the one removed point to the next one, which may
\* have the same size; the mutation forgets them.
Relinked_Not(r, a) == [r.first_bigger EXCEPT ![a] = None]
Relinked(r, a) ==
  [x \in Addrs |-> IF x = a THEN None
                   ELSE IF r.first_bigger[x] = a THEN NextIn(r.by_size, a)
                   ELSE r.first_bigger[x]]

remove_free_region(r, a) ==
  [r EXCEPT !.first_bigger = Relinked(r, a),
            !.by_size = RemoveAt(@, Place(@, a)), !.by_addr = RemoveAt(@, Place(@, a))]

\* add_free_region(), the lists: a region is put in front of the first one of a
\* higher address, and of the first one that is not smaller.
AddrPlace(r, a) == Min({n \in 1 .. Len(r.by_addr) + 1 : n <= Len(r.by_addr) => r.by_addr[n] > a})
SizePlace(r, a) ==
  Min({n \in 1 .. Len(r.by_size) + 1 : n <= Len(r.by_size) => r.size[r.by_size[n]] >= r.size[a]})
Bigger(r, a, n) ==
  IF n > Len(r.by_size) THEN None
  ELSE IF r.size[r.by_size[n]] > r.size[a] THEN r.by_size[n]
  ELSE r.first_bigger[r.by_size[n]]
Inserted(r, a) ==
  LET n == SizePlace(r, a)
      Sees(x) == r.first_bigger[x] = None \/ r.size[r.first_bigger[x]] >= r.size[a]
  IN [r EXCEPT
        !.by_addr = InsertAt(@, AddrPlace(r, a), a),
        !.by_size = InsertAt(@, n, a),
        !.first_bigger = [x \in Addrs |->
           IF x = a THEN Bigger(r, a, n)
           ELSE IF (\E m \in 1 .. n - 1 : r.by_size[m] = x) /\ Sees(x) THEN a
           ELSE @[x]]]

\* add_free_region(): a region is joined to the free one that ends where it
\* begins, then to the one that begins where it ends; gone is the one of the two
\* that was free.
Joined(r, a, b, gone) ==
  [remove_free_region(r, gone) EXCEPT
     !.size = [@ EXCEPT ![a] = r.size[a] + r.size[b], ![b] = 0], !.unused = @ + 1]

add_free_region(r, a) ==
  LET before == {x \in ToSet(r.by_addr) : x + r.size[x] = a}
      b == IF before = {} THEN a ELSE Max(before)
      r1 == IF before = {} THEN r ELSE Joined(r, b, a, b)
      after == b + r1.size[b]
  IN Inserted(IF after \in ToSet(r1.by_addr) THEN Joined(r1, b, after, after) ELSE r1, b)

\* Of the first region by size and those reached by first_bigger the first
\* that is large enough.
Chain(r) ==
  LET chain[n \in 1 .. Len(r.by_size) + 1] ==
        IF n = 1 THEN (IF r.by_size = <<>> THEN None ELSE Head(r.by_size))
        ELSE IF chain[n - 1] = None THEN None ELSE r.first_bigger[chain[n - 1]]
  IN chain
Chosen(r, sz) ==
  LET fits == {n \in 1 .. Len(r.by_size) + 1 : Chain(r)[n] # None /\ r.size[Chain(r)[n]] >= sz}
  IN IF fits = {} THEN None ELSE Chain(r)[Min(fits)]

\* n_unused_descriptors <= N_RESERVE_DESCRIPTORS
Scarce(r) == r.unused <= Reserve

\* region_alloc_inner(): the address, and the allocator after it.
region_alloc_inner(r, sz, use_reserve) ==
  LET i == Chosen(r, sz)
      left == r.size[i] - sz
      a == IF left = 0 \/ sz >= BigSize THEN i ELSE i + left
      x == IF a = i THEN i + sz ELSE i
      cut == [remove_free_region(r, i) EXCEPT !.used = @ \cup {a}, !.unused = @ - 1,
                !.size = [@ EXCEPT ![x] = left, ![a] = sz]]
  IN IF i = None THEN [addr |-> None, ra |-> r]
     ELSE IF left = 0
     THEN [addr |-> i, ra |-> [remove_free_region(r, i) EXCEPT !.used = @ \cup {i}]]
     ELSE IF Scarce(r) /\ ~use_reserve THEN [addr |-> None, ra |-> r]
     ELSE [addr |-> a, ra |-> add_free_region(cut, x)]

region_free_inner(r, a) == add_free_region([r EXCEPT !.used = @ \ {a}], a)

Becomes(r) ==
  /\ by_addr' = r.by_addr /\ by_size' = r.by_size /\ size' = r.size
  /\ first_bigger' = r.first_bigger /\ used' = r.used /\ unused' = r.unused

\* The first part of region_alloc(): a page of descriptors, unless its frame
\* cannot be mapped.
WithDescriptors(r) ==
  LET d == region_alloc_inner(r, 1, TRUE) IN
  {region_free_inner(d.ra, d.addr), [d.ra EXCEPT !.unused = @ + PerPage]}

region_alloc(sz) ==
  /\ ~panic
  /\ IF Scarce(ra)
     THEN IF region_alloc_inner(ra, 1, TRUE).addr = None
          THEN panic' = TRUE /\ UNCHANGED <<by_addr, by_size, size, first_bigger,
                                            used, unused, own>>
          ELSE \E r \in WithDescriptors(ra) :
                 /\ Becomes(region_alloc_inner(r, sz, FALSE).ra)
                 /\ own' = own \cup (r.used \ used)
                 /\ UNCHANGED panic
     ELSE /\ Becomes(region_alloc_inner(ra, sz, FALSE).ra)
          /\ UNCHANGED <<own, panic>>

\* The users of the allocator free what they got.
region_free(a) ==
  /\ ~panic /\ a \in used \ own
  /\ Becomes(region_free_inner(ra, a))
  /\ UNCHANGED <<own, panic>>

Next == (\E s \in Sizes : region_alloc(s)) \/ (\E a \in Addrs : region_free(a))

-----------------------------------------------------------------------------
(***************************************************************************)
(* Every page of the space belongs to exactly one free or used region, the *)
(* free ones are listed in order, and no two of them touch: space given    *)
(* back piece by piece can be allocated whole again.                       *)
(***************************************************************************)
Extent(a) == a .. a + size[a] - 1
RegionsExact ==
  LET free == ToSet(by_addr) IN
  /\ IsInjective(by_addr) /\ free \cap used = {}
  /\ \A m, n \in DOMAIN by_addr : m < n => by_addr[m] < by_addr[n]
  /\ UNION {Extent(a) : a \in free \cup used} = Addrs
  /\ \A a, b \in free \cup used : a # b => Extent(a) \cap Extent(b) = {}
  /\ \A a, b \in free : a + size[a] # b

(***************************************************************************)
(* The list by size holds the same regions in the order of their sizes and *)
(* each first_bigger is the first larger one: the search that follows them *)
(* finds a best fit whenever there is one.                                 *)
(***************************************************************************)
ListsAgree ==
  /\ IsInjective(by_size) /\ ToSet(by_size) = ToSet(by_addr)
  /\ \A n \in DOMAIN by_size :
       LET larger == {m \in DOMAIN by_size : size[by_size[m]] > size[by_size[n]]}
       IN /\ \A m \in 1 .. n : size[by_size[m]] <= size[by_size[n]]
          /\ first_bigger[by_size[n]] =
               IF larger = {} THEN None ELSE by_size[Min(larger)]

(***************************************************************************)
(* No descriptor is lost, and between calls there are always as many       *)
(* unused ones as the next page of descriptors may need, frames or not;    *)
(* the ASSERT that this page finds a region fails only when no free region *)
(* is left.                                                                *)
(***************************************************************************)
DescriptorsSuffice ==
  /\ unused >= Reserve
  /\ unused + Len(by_addr) + Cardinality(used) = Base - 1 + PerPage * Cardinality(own)
  /\ panic => by_addr = <<>>
=============================================================================
