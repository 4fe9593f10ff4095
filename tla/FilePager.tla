----------------------------- MODULE FilePager -----------------------------
(***************************************************************************)
(* The contents of a file that a pager holds (user/pager.c): a file in     *)
(* memory, that nullfs reads, writes and truncates through its swap pager, *)
(* or a file of a disc, whose pages a VFS pager reads in.                  *)
(*                                                                         *)
(* fs_write_to_pager() is three sections: the test of the size without     *)
(* the lock, pager_resize(), and pager_do_rw().  Memory and the disc may   *)
(* fail whenever a page is read in.  What a writer writes is its name.     *)
(***************************************************************************)
EXTENDS Integers, Sequences, FiniteSetsExt

CONSTANTS
  Writers,
  PageSize,
  Requests,      \* the <<offset, len>> that are read and written
  DiscSizes,     \* sizes of files on a disc
  None

Units == 0 .. PageSize - 1

\* Offsets and sizes are numbers, there are finitely many, and None is no page.
FilePagerAssumption ==
  /\ PageSize \in Nat \ {0}
  /\ Requests \subseteq Nat \X Nat /\ Requests # {} /\ IsFiniteSet(Requests)
  /\ DiscSizes \subseteq Nat /\ IsFiniteSet(DiscSizes)
  /\ None \notin [Units -> Writers \cup Nat]

VARIABLES
  kind,          \* "ram" or "disc"
  size,          \* pager->size
  pages,         \* pager->pages, with the contents of each
  lock,          \* pager->lock
  th,            \* per writer, the call it is in
  text,          \* history: what has been written since the file was empty
  shrunk,        \* history: a writer has made the file smaller
  spilled        \* history: page_in() has cleared memory that is not the page's

vars == <<kind, size, pages, lock, th, text, shrunk, spilled>>

End(r) == r[1] + r[2]
MaxSize == Max({End(r) : r \in Requests} \cup DiscSizes)
PageNos == 0 .. ((MaxSize - 1) \div PageSize)

Idle == [at |-> "user", request |-> <<0, 0>>, write |-> FALSE]

Init ==
  /\ kind \in {"ram", "disc"}
  /\ size \in IF kind = "ram" THEN {0} ELSE DiscSizes
  /\ pages = [k \in PageNos |-> None]
  /\ lock = None
  /\ th = [w \in Writers |-> Idle]
  /\ text = <<>> /\ shrunk = FALSE /\ spilled = FALSE

At(w, where) == th[w].at = where

\* PAGE_ALIGN_UP, as a number of pages
PagesOf(n) == (n + PageSize - 1) \div PageSize

-----------------------------------------------------------------------------
(* Pages *)

Zero == [i \in Units |-> 0]

(***************************************************************************)
(* vfs_page_in(): expect_len is less than a page at the end of the file,   *)
(* and negative for a page behind it: then memory below the page is        *)
(* cleared, and the page is not entered.                                   *)
(***************************************************************************)
ExpectLen(k) == IF (k + 1) * PageSize > size THEN size - k * PageSize ELSE PageSize
\* The mutation leaves what the frame held behind the end.
Padding_None == None
Padding == 0
Loaded(k) == [i \in Units |-> IF i < ExpectLen(k) THEN k * PageSize + i + 1 ELSE Padding]
Loads(k) == kind = "ram" \/ ExpectLen(k) >= 0
Content(k) == IF kind = "ram" THEN Zero ELSE Loaded(k)

\* page_in(): those that are missing and do not fail are entered.
PageIn(ks, failing) ==
  [k \in PageNos |-> IF k \in ks /\ pages[k] = None /\ k \notin failing /\ Loads(k)
                     THEN Content(k) ELSE pages[k]]

\* proc_usermem_pf() on a page of a region of any size: pager_get_frame()
pager_get_frame == \E k \in PageNos, failing \in {{}, PageNos} :
  /\ kind = "disc" /\ lock = None
  /\ pages' = PageIn({k}, failing)
  /\ spilled' = (spilled \/ (pages[k] = None /\ failing = {} /\ ~Loads(k)))
  /\ UNCHANGED <<kind, size, lock, th, text, shrunk>>

-----------------------------------------------------------------------------
(* Sizes *)

\* pager_resize(): pages that the new size does not reach are released.
Released_Not(n) == pages
Released(n) == [k \in PageNos |-> IF k >= PagesOf(n) THEN None ELSE pages[k]]

pager_resize(n) ==
  /\ lock = None
  /\ pages' = IF PagesOf(n) * PageSize < size THEN Released(n) ELSE pages
  /\ size' = n

\* nullfs_f_open() with FM_TRUNC
truncate ==
  /\ kind = "ram"
  /\ pager_resize(0)
  /\ text' = <<>> /\ shrunk' = FALSE
  /\ UNCHANGED <<kind, lock, th, spilled>>

-----------------------------------------------------------------------------
(* Reading and writing *)

\* fs_write_to_pager(): the test of the size
write(w) == \E r \in Requests :
  /\ kind = "ram" /\ At(w, "user")
  /\ th' = [th EXCEPT ![w] = [at |-> IF End(r) > size THEN "resize" ELSE "rw",
                              request |-> r, write |-> TRUE]]
  /\ UNCHANGED <<kind, size, pages, lock, text, shrunk, spilled>>

Resize(w) ==
  /\ At(w, "resize")
  /\ pager_resize(End(th[w].request))
  /\ shrunk' = (shrunk \/ End(th[w].request) < size)
  /\ th' = [th EXCEPT ![w].at = "rw"]
  /\ UNCHANGED <<kind, lock, text, spilled>>

\* fs_read_from_pager()
read(w) == \E r \in Requests :
  /\ At(w, "user")
  /\ th' = [th EXCEPT ![w] = [at |-> "rw", request |-> r, write |-> FALSE]]
  /\ UNCHANGED <<kind, size, pages, lock, text, shrunk, spilled>>

\* pager_do_rw(): an offset past the end returns with the lock held.
RwPast(w) ==
  /\ At(w, "rw") /\ lock = None
  /\ th[w].request[1] >= size
  /\ lock' = w
  /\ th' = [th EXCEPT ![w] = Idle]
  /\ UNCHANGED <<kind, size, pages, text, shrunk, spilled>>

\* The pages of a call, cut at the file's end, and their contents after a write
Cut(r) == IF End(r) > size THEN size ELSE End(r)
Touched(r) == (r[1] \div PageSize) .. ((Cut(r) - 1) \div PageSize)
Written(ps, r, w) == [k \in PageNos |->
  IF k \in Touched(r)
  THEN [i \in Units |-> IF k * PageSize + i \in r[1] .. Cut(r) - 1 THEN w ELSE ps[k][i]]
  ELSE ps[k]]

\* What the file would be with that: zero where nothing was written
Extended(r, w) == [i \in 1 .. Max({Len(text), Cut(r)}) |->
  IF i - 1 \in r[1] .. Cut(r) - 1 THEN w ELSE IF i <= Len(text) THEN text[i] ELSE 0]

\* The call returns 0 if a page is missing or cannot be mapped, and does the
\* whole of it otherwise.
pager_do_rw(w) == \E failing \in SUBSET PageNos, mapped \in BOOLEAN :
  LET r == th[w].request
      ps == PageIn(Touched(r), failing)
      ok == mapped /\ \A k \in Touched(r) : ps[k] # None
  IN
  /\ At(w, "rw") /\ lock = None /\ r[1] < size
  /\ IF ok /\ th[w].write
     THEN pages' = Written(ps, r, w) /\ text' = Extended(r, w)
     ELSE pages' = ps /\ UNCHANGED text
  /\ th' = [th EXCEPT ![w] = Idle]
  /\ UNCHANGED <<kind, size, lock, shrunk, spilled>>

Next ==
  \/ truncate \/ pager_get_frame
  \/ \E w \in Writers : write(w) \/ Resize(w) \/ read(w) \/ RwPast(w) \/ pager_do_rw(w)

Spec == Init /\ [][Next]_vars

-----------------------------------------------------------------------------
(***************************************************************************)
(* A file in memory holds what the writes that returned have put there,    *)
(* and zeros where a larger size was made for others, whatever truncations *)
(* and failures came between, until a writer resizes it to its own end     *)
(* after another has made it larger (pager.c:506).  A page of a disc's     *)
(* file holds its bytes and, behind them, zeros.                           *)
(***************************************************************************)
Unit(i) == IF pages[i \div PageSize] = None THEN 0 ELSE pages[i \div PageSize][i % PageSize]

FileExact ==
  /\ kind = "ram" /\ ~shrunk =>
       /\ Len(text) <= size
       /\ \A i \in 0 .. size - 1 : Unit(i) = IF i < Len(text) THEN text[i + 1] ELSE 0
  /\ kind = "disc" => \A k \in PageNos, i \in Units :
       pages[k] # None =>
         pages[k][i] = IF k * PageSize + i < size THEN k * PageSize + i + 1 ELSE 0
=============================================================================
