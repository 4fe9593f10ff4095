----------------------------- MODULE SlabAlloc -----------------------------
(***************************************************************************)
(* The heap, common/libkogata/slab_alloc.c: objects of a few sizes are cut *)
(* from caches, larger ones are blocks of their own, and the descriptors   *)
(* of both are cut from further blocks.  A block is what alloc_fun()       *)
(* returns; it may also return nothing.  malloc() and free() call these    *)
(* functions under a mutex (core/kmalloc.c), so each is one step.          *)
(***************************************************************************)
EXTENDS Integers, Sequences, SequencesExt, FiniteSetsExt

CONSTANTS
  PerCache,   \* of each size, in increasing order, the objects in a cache
  Blocks,     \* the blocks of the page allocator, numbered
  Initial,    \* descriptors in the first page, besides the allocator itself
  PerPage     \* descriptors in a page, at least 2

\* Every cache holds an object, every page of descriptors one to give.
SlabAssumption ==
  /\ PerCache \in Seq(Nat \ {0}) /\ Blocks \subseteq Nat
  /\ Initial \in Nat /\ PerPage \in Nat \ {0, 1}

VARIABLES
  caches,     \* per size the list of caches, [block, free]: free is the stack
              \* of free objects
  regions,    \* all_regions, [block, descriptors]
  spare,      \* the number of free descriptors
  blocks,     \* history: the blocks that alloc_fun() returned
  live        \* history: what is allocated, <<block, object>>

vars == <<caches, regions, spare, blocks, live>>

Types == DOMAIN PerCache
Whole == 0    \* the object of a block that was allocated directly

Init ==
  /\ caches = [t \in Types |-> <<>>] /\ regions = <<>>
  /\ spare = Initial /\ blocks = {} /\ live = {}

\* The state without the history, on which the functions below work.
heap == [caches |-> caches, regions |-> regions, spare |-> spare, blocks |-> blocks]
Becomes(h) ==
  /\ caches' = h.caches /\ regions' = h.regions /\ spare' = h.spare
  /\ blocks' = h.blocks

\* alloc_fun(): a block that is not in use; which one makes no difference.
Obtained(h) == LET unused == Blocks \ h.blocks IN
  IF unused = {} THEN {} ELSE {[h EXCEPT !.blocks = @ \cup {Min(unused)}]}
NewBlock(h, h1) == CHOOSE b \in h1.blocks : b \notin h.blocks

\* take_descriptor(): the heaps that have one more spare descriptor taken; the
\* page of descriptors keeps one for itself.  None when there is no block.
take_descriptor(h) ==
  IF h.spare > 0 THEN {[h EXCEPT !.spare = @ - 1]}
  ELSE {[h1 EXCEPT !.spare = PerPage - 2,
                   !.regions = <<[block |-> NewBlock(h, h1), descriptors |-> TRUE]>> \o @] :
          h1 \in Obtained(h)}

\* The first cache of the list with a free object; 0 without one.
WithFree(h, t) == SelectInSeq(h.caches[t], LAMBDA c : c.free # <<>>)

\* The objects of a new cache.
NewCache(t, b) == [block |-> b, free |-> [n \in 1 .. PerCache[t] |-> n]]
WithCache(h, t) ==
  {[h1 EXCEPT !.caches[t] = <<NewCache(t, NewBlock(h, h1))>> \o @] : h1 \in Obtained(h)}

\* An allocation that fails keeps what take_descriptor() did, and gives the
\* descriptor back.
Failed_Keeps(h) == h
Failed(h) == [h EXCEPT !.spare = @ + 1]

Nothing == <<>>
Result(h, x) == [heap |-> h, object |-> x]

Pop(h, t) ==
  LET n == WithFree(h, t)  c == h.caches[t][n] IN
  Result([h EXCEPT !.caches[t][n].free = Tail(@)], <<c.block, Head(c.free)>>)

\* More than the largest type: a block of its own.
WithBlock(h) ==
  {LET b == NewBlock(h, h1) IN
     Result([h1 EXCEPT !.regions = <<[block |-> b, descriptors |-> FALSE]>> \o @], <<b, Whole>>) :
   h1 \in Obtained(h)}

\* slab_alloc() of an object of type t, or of more than any type: the results.
slab_alloc(h, t) ==
  IF t # Whole /\ WithFree(h, t) # 0 THEN {Pop(h, t)}
  ELSE (IF h.spare = 0 THEN {Result(h, Nothing)} ELSE {})
       \cup UNION {{Result(Failed(h1), Nothing)}
                   \cup (IF t = Whole THEN WithBlock(h1)
                         ELSE {Pop(h2, t) : h2 \in WithCache(h1, t)}) :
                  h1 \in take_descriptor(h)}

Alloc(t) == \E r \in slab_alloc(heap, t) :
  Becomes(r.heap) /\ live' = live \cup ({r.object} \ {Nothing})

\* A cache all of whose objects are free again leaves the list.
Emptied(c, t) == Len(c.free) = PerCache[t]

\* slab_free() of an object of a cache.
FreeObject(h, t, n, o) ==
  LET c == [h.caches[t][n] EXCEPT !.free = <<o>> \o @] IN
  IF Emptied(c, t)
  THEN [h EXCEPT !.caches[t] = RemoveAt(@, n), !.spare = @ + 1, !.blocks = @ \ {c.block}]
  ELSE [h EXCEPT !.caches[t][n] = c]

\* slab_free() of a block of its own.
FreeWhole(h, b) ==
  [h EXCEPT !.regions = RemoveAt(@, SelectInSeq(@, LAMBDA r : r.block = b)),
            !.spare = @ + 1, !.blocks = @ \ {b}]

\* The caches there are, by type and place in its list.
CachesOf(h) == UNION {{<<t, n>> : n \in DOMAIN h.caches[t]} : t \in Types}

Freed(h, x) ==
  LET in == {y \in CachesOf(h) : h.caches[y[1]][y[2]].block = x[1]}
  IN IF in = {} THEN FreeWhole(h, x[1])
     ELSE LET y == CHOOSE z \in in : TRUE IN FreeObject(h, y[1], y[2], x[2])

slab_free(x) == Becomes(Freed(heap, x)) /\ live' = live \ {x}

\* slab_realloc() to another size: the new object first, then the old is freed;
\* the old one stays when there is no memory.
TypeOf(x) == IF x[2] = Whole THEN Whole
             ELSE CHOOSE t \in Types : \E n \in DOMAIN caches[t] : caches[t][n].block = x[1]

slab_realloc(x, t) == (t = Whole \/ t # TypeOf(x)) /\ \E r \in slab_alloc(heap, t) :
  /\ Becomes(IF r.object = Nothing THEN r.heap ELSE Freed(r.heap, x))
  /\ live' = IF r.object = Nothing THEN live ELSE (live \ {x}) \cup {r.object}

Next ==
  \/ \E t \in Types \cup {Whole} : Alloc(t) \/ \E x \in live : slab_realloc(x, t)
  \/ \E x \in live : slab_free(x)

-----------------------------------------------------------------------------
(***************************************************************************)
(* What is allocated is in use once, and only once: the objects of a cache *)
(* are its free ones and the live ones, a block serves as one cache or one *)
(* region, live objects lie in blocks that were not given back, and        *)
(* programs, caches and regions account for every block: none is leaked.   *)
(***************************************************************************)
AllCaches == CachesOf(heap)
CacheAt(y) == caches[y[1]][y[2]]
HeapExact ==
  /\ \A y \in AllCaches : LET c == CacheAt(y) IN
       /\ IsInjective(c.free)
       /\ ToSet(c.free) = {o \in 1 .. PerCache[y[1]] : <<c.block, o>> \notin live}
  /\ blocks = {CacheAt(y).block : y \in AllCaches} \cup {regions[n].block : n \in DOMAIN regions}
  /\ Cardinality(blocks) = Cardinality(AllCaches) + Len(regions)
  /\ {b \in blocks : <<b, Whole>> \in live} =
       {r.block : r \in {s \in ToSet(regions) : ~s.descriptors}}

(***************************************************************************)
(* No descriptor is lost by a failed allocation or a cache that went, and  *)
(* a cache that nothing lives in does not stay.                            *)
(***************************************************************************)
DescriptorsExact ==
  /\ spare + Cardinality(AllCaches) + Len(regions) =
       Initial + PerPage * Cardinality({r \in ToSet(regions) : r.descriptors})
  /\ \A y \in AllCaches : Len(CacheAt(y).free) < PerCache[y[1]]
=============================================================================
