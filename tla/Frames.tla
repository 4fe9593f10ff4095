-------------------------------- MODULE Frames --------------------------------
(***************************************************************************)
(* The allocator of physical page frames of src/src/kernel/core/frame.c: a *)
(* bitmap searched word by word from begin_search_at.                      *)
(*                                                                         *)
(* Frame f is bit f % WordBits of word f \div WordBits; frame_bitset is    *)
(* the set of frames whose bit is set.  The whole of frame_alloc() and of  *)
(* frame_free() runs under frame_allocator_mutex, so each is one step.     *)
(* owned is a history variable: which frames each client of the allocator  *)
(* (pager, paging, kmalloc, region and thread code) got and has not given  *)
(* back.  A client only frees frames that it owns.                         *)
(***************************************************************************)
EXTENDS Integers, FiniteSets

CONSTANTS
  WordBits,       \* 32 in the code
  nframes,        \* PAGE_ID(total_ram)
  kernel_pages,   \* the frames of the kernel's image, in use from the start
  protector,      \* the frame of kernel_stack_protector, that is given back
  Clients,
  Sizes           \* the numbers of frames that clients ask for

ASSUME FramesAssumption ==
  /\ WordBits \in Nat \ {0}
  /\ nframes \in Nat
  /\ kernel_pages \in 1 .. nframes
  /\ protector \in 1 .. kernel_pages - 1
  /\ Sizes \subseteq 1 .. WordBits

VARIABLES
  frame_bitset, nused_frames, begin_search_at,
  owned,          \* history
  answer          \* history: what frame_alloc() was asked for and returned, when
                  \* that was the last call

vars == <<frame_bitset, nused_frames, begin_search_at, owned, answer>>

Frames == 0 .. nframes - 1
NoAnswer == [n |-> 0, base |-> 0]

TypeOK ==
  /\ frame_bitset \in SUBSET Frames
  /\ nused_frames \in Nat
  /\ begin_search_at \in 0 .. nframes \div WordBits
  /\ owned \in [Clients -> SUBSET Frames]
  /\ answer \in [n : Nat, base : Nat]

-----------------------------------------------------------------------------
\* INDEX_FROM_BIT
Index(f) == f \div WordBits

\* The words frame_alloc() searches: a last word that is not whole is left out
Words == 0 .. Index(nframes) - 1
Bits(i) == i * WordBits .. i * WordBits + WordBits - 1
Searchable == 0 .. Index(nframes) * WordBits - 1

\* frame_bitset[i] == 0xFFFFFFFF
Full(i) == Bits(i) \subseteq frame_bitset

\* n frames from base on
Run(base, n) == base .. base + n - 1

\* frame_init_allocator(), then paging_setup() that gives back the page that
\* protects the kernel's stack
Init ==
  /\ frame_bitset = (0 .. kernel_pages - 1) \ {protector}
  /\ nused_frames = kernel_pages - 1
  /\ begin_search_at = Index(protector)
  /\ owned = [c \in Clients |-> {}]
  /\ answer = NoAnswer

\* A search that tests the first of the n bits only
Places_FirstBit(n) ==
  {f \in Searchable :
     /\ Index(f) >= begin_search_at
     /\ Index(f + n - 1) = Index(f)
     /\ f \notin frame_bitset}

\* The places where the search for n free frames in one word succeeds
Places(n) ==
  {f \in Searchable :
     /\ Index(f) >= begin_search_at
     /\ Index(f + n - 1) = Index(f)
     /\ Run(f, n) \cap frame_bitset = {}}

First(S) == CHOOSE f \in S : \A g \in S : f <= g

\* begin_search_at moves over the full words it points to.  It is advanced
\* before the search gets any further, so it stops at the first word with a
\* free bit
Advanced ==
  LET rest == {i \in Words : i >= begin_search_at /\ ~ Full(i)}
  IN  IF rest # {} THEN First(rest) ELSE Index(nframes)

frame_alloc(c, n) ==
  /\ begin_search_at' = Advanced
  /\ \/ /\ Places(n) # {}
        /\ LET base == First(Places(n))
           IN  /\ frame_bitset' = frame_bitset \cup Run(base, n)
               /\ owned' = [owned EXCEPT ![c] = @ \cup Run(base, n)]
               /\ answer' = [n |-> n, base |-> base]
        /\ nused_frames' = nused_frames + n
     \/ /\ Places(n) = {}
        /\ answer' = [n |-> n, base |-> 0]
        /\ UNCHANGED <<frame_bitset, nused_frames, owned>>

\* frame_free() that leaves begin_search_at where it is
Hint_Stays(base) == begin_search_at

\* Where the next search begins after frame_free()
Hint(base) == IF Index(base) < begin_search_at THEN Index(base)
              ELSE begin_search_at

\* nused_frames is decremented once for each bit that was set
Counted(base, n) == nused_frames - Cardinality(Run(base, n) \cap frame_bitset)

frame_free(c, base, n) ==
  /\ Run(base, n) \subseteq owned[c]
  /\ frame_bitset' = frame_bitset \ Run(base, n)
  /\ nused_frames' = Counted(base, n)
  /\ begin_search_at' = Hint(base)
  /\ owned' = [owned EXCEPT ![c] = @ \ Run(base, n)]
  /\ answer' = NoAnswer

Next ==
  \E c \in Clients, n \in Sizes :
    \/ frame_alloc(c, n)
    \/ \E base \in owned[c] : frame_free(c, base, n)

Spec == Init /\ [][Next]_vars

-----------------------------------------------------------------------------
(***************************************************************************)
(* Properties.                                                             *)
(***************************************************************************)

\* begin_search_at never skips a word that has a free frame, although it is
\* moved up by searches for runs of other lengths and down by frees.
NothingSkipped == \A i \in Words : i < begin_search_at => Full(i)

\* nused_frames counts the bits that are set.
CountExact == nused_frames = Cardinality(frame_bitset)

\* No frame is in the hands of two clients, or of a client and of the kernel's
\* image, and every frame handed out is marked as used.
Exclusive ==
  /\ \A c \in Clients : owned[c] \subseteq frame_bitset
  /\ \A c \in Clients : owned[c] \cap (0 .. kernel_pages - 1) \subseteq {protector}
  /\ \A c, d \in Clients : c # d => owned[c] \cap owned[d] = {}

\* frame_alloc(1) fails only when every frame that it may search is in use.
\* (A longer run may fail although there is room, in two words.)
FailsOnlyWhenFull ==
  answer.n = 1 /\ answer.base = 0 => Searchable \subseteq frame_bitset
=============================================================================
