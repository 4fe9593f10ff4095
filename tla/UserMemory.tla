----------------------------- MODULE UserMemory -----------------------------
(***************************************************************************)
(* The memory of user processes: regions (kernel/user/process.c), the      *)
(* pagers behind them (pager.c), the page tables (core/paging.c) and       *)
(* shared memory objects (ipc.c).                                          *)
(*                                                                         *)
(* A process has one thread (process.h: "currently, only one thread per    *)
(* process supported"), so its regions and its private pagers are its own  *)
(* affair.  What two processes share is the free frames and one shared     *)
(* memory object: its handle's reference count, its pager's pages, maps    *)
(* and lock.  Sizes, addresses and offsets are in pages; a process uses    *)
(* addresses that one page table covers.                                   *)
(***************************************************************************)
EXTENDS Integers, FiniteSets

CONSTANTS Procs,      \* processes
          Frames,     \* physical frames
          Slots,      \* per process, the <<addr, size>> it maps things at
          ShmSize,    \* the size of the shared memory object, in pages
          Offsets,    \* offsets in the object that programs map and read at
          NoProc, NoFrame, NoRegion, Shm

(***************************************************************************)
(* mmap() only looks whether the first address is taken (process.c:557);   *)
(* that the rest is free is up to the program.                             *)
(***************************************************************************)
ASSUME SlotsDisjoint ==
  /\ Slots \in [Procs -> SUBSET (Nat \X (Nat \ {0}))]
  /\ \A p \in Procs : \A s, t \in Slots[p] : s # t => s[1] + s[2] <= t[1] \/ t[1] + t[2] <= s[1]

ASSUME MemoryAssumption ==
  /\ ShmSize \in Nat \ {0} /\ Offsets \subseteq Nat
  /\ NoProc \notin Procs /\ Shm \notin Procs /\ NoFrame \notin Frames

AllSlots == UNION {Slots[p] : p \in Procs}
Pages == UNION {s[1] .. (s[1] + s[2] - 1) : s \in AllSlots}

\* The pages of a pager: those of the object, and those regions may reach.
PageOffsets == (0 .. (ShmSize - 1)) \cup
               UNION {UNION {o .. (o + s[2] - 1) : o \in Offsets \cup {0}} : s \in AllSlots}

\* A pager is named by its creator: a private one by process and address.
ShmPager == <<Shm, 0>>
Pagers == {ShmPager} \cup UNION {{p} \X {s[1] : s \in Slots[p]} : p \in Procs}

Regions == [addr : Pages, size : {s[2] : s \in AllSlots}, pager : Pagers,
            offset : Offsets \cup {0}, write : BOOLEAN]

ASSUME NoRegionAssumption == NoRegion \notin Regions

VARIABLES
  regions,    \* proc->regions and regions_idx
  entry,      \* page table entries: what a page maps to, and PTE_RW
  table,      \* the frame of the page table (pd->page[pt])
  pages,      \* pager->pages: the frame of each page
  maps,       \* pager->maps, as <<process, address>>
  lock,       \* the holder of the shared pager's lock
  kept,       \* history: pager_do_rw() returned without unlocking it
  refs,       \* h->refs of the object's handle; 0: there is no object
  fds,        \* the processes that have h in their table of descriptors
  free,       \* the frames frame_alloc() may return
  lost,       \* frames no one will ever free
  th          \* what the thread of each process is doing

vars == <<regions, entry, table, pages, maps, lock, kept, refs, fds, free, lost, th>>

Absent == [frame |-> NoFrame, rw |-> FALSE]

(***************************************************************************)
(* at: "user" (in user mode), "lock" and "copy" (in pager_do_rw), "fault"  *)
(* and "map" (in proc_usermem_pf), "rm_map" (in munmap_inner), "dead" and  *)
(* "panic".  page is the page touched, frame what pager_get_frame()        *)
(* returned, rw whether a fault is one of the kernel in pager_do_rw,       *)
(* offset and write the arguments of that call, region the one that        *)
(* munmap_inner() is busy with, exiting whether process_exit() calls it.   *)
(***************************************************************************)
Idle == [at |-> "user", page |-> 0, frame |-> NoFrame, rw |-> FALSE,
         offset |-> 0, write |-> FALSE, region |-> NoRegion, exiting |-> FALSE]

Init ==
  /\ regions = [p \in Procs |-> {}]
  /\ entry = [p \in Procs |-> [x \in Pages |-> Absent]]
  /\ table = [p \in Procs |-> NoFrame]
  /\ pages = [g \in Pagers |-> [o \in PageOffsets |-> NoFrame]]
  /\ maps = [g \in Pagers |-> {}]
  /\ lock = NoProc /\ kept = FALSE /\ refs = 0 /\ fds = {}
  /\ free = Frames /\ lost = {}
  /\ th = [p \in Procs |-> Idle]

At(p, where) == th[p].at = where
InUser(p) == At(p, "user") /\ ~th[p].exiting
Go(p, where) == th' = [th EXCEPT ![p].at = where]

\* Back to user mode, or to the rest of process_exit().
Back(p) == [Idle EXCEPT !.exiting = th[p].exiting]

\* pager_t.lock: private pagers have no one to contend with.
LockFree(g) == g = ShmPager => lock = NoProc

\* Of the regions that begin at or below the page the highest, if it reaches.
find_user_region(p, page) ==
  LET below == {r \in regions[p] : r.addr <= page}
      r == CHOOSE b \in below : \A c \in below : c.addr <= b.addr
  IN IF below = {} \/ page >= r.addr + r.size THEN NoRegion ELSE r

SizeOf(g) == IF g = ShmPager THEN ShmSize
             ELSE (CHOOSE s \in Slots[g[1]] : s[1] = g[2])[2]

-----------------------------------------------------------------------------
(* Mapping, changing and unmapping. *)

AddRegion(p, r) ==
  /\ regions' = [regions EXCEPT ![p] = @ \cup {r}]
  /\ maps' = [maps EXCEPT ![r.pager] = @ \cup {<<p, r.addr>>}]

mmap(p) == \E s \in Slots[p], w \in BOOLEAN :
  /\ InUser(p)
  /\ find_user_region(p, s[1]) = NoRegion
  /\ AddRegion(p, [addr |-> s[1], size |-> s[2], pager |-> <<p, s[1]>>,
                   offset |-> 0, write |-> w])
  /\ UNCHANGED <<entry, table, pages, lock, kept, refs, fds, free, lost, th>>

RefFile == refs + 1

mmap_file(p) == \E s \in Slots[p], o \in Offsets, w \in BOOLEAN :
  /\ InUser(p) /\ p \in fds
  /\ find_user_region(p, s[1]) = NoRegion
  /\ LockFree(ShmPager)
  /\ AddRegion(p, [addr |-> s[1], size |-> s[2], pager |-> ShmPager,
                   offset |-> o, write |-> w])
  /\ refs' = RefFile
  /\ UNCHANGED <<entry, table, pages, lock, kept, fds, free, lost, th>>

\* mchmap() gives the pages that are mapped already the new mode.
Remapped_Not(e, w) == e
Remapped(e, w) == IF e = Absent THEN e ELSE [e EXCEPT !.rw = w]

mchmap(p) == \E r \in regions[p] :
  LET w == ~r.write IN
  /\ InUser(p)
  /\ regions' = [regions EXCEPT ![p] = (@ \ {r}) \cup {[r EXCEPT !.write = w]}]
  /\ entry' = [entry EXCEPT ![p] = [x \in Pages |->
                 IF x \in r.addr .. (r.addr + r.size - 1)
                 THEN Remapped(@[x], w) ELSE @[x]]]
  /\ UNCHANGED <<table, pages, maps, lock, kept, refs, fds, free, lost, th>>

\* munmap_inner(), first part: the region leaves the index, its pages are
\* unmapped; pager_access() takes the lock for each page that was mapped.
Unmapped_First(p, r) == [x \in Pages |-> IF x = r.addr THEN Absent ELSE entry[p][x]]
Unmapped(p, r) == [x \in Pages |->
  IF x \in r.addr .. (r.addr + r.size - 1) THEN Absent ELSE entry[p][x]]

munmap_inner(p, r) ==
  /\ Unmapped(p, r) # entry[p] => LockFree(r.pager)
  /\ regions' = [regions EXCEPT ![p] = @ \ {r}]
  /\ entry' = [entry EXCEPT ![p] = Unmapped(p, r)]
  /\ th' = [th EXCEPT ![p].at = "rm_map", ![p].region = r]
  /\ UNCHANGED <<table, pages, maps, lock, kept, refs, fds, free, lost>>

munmap(p) == \E r \in regions[p] : InUser(p) /\ munmap_inner(p, r)

(***************************************************************************)
(* delete_pager(): page_release() returns the frames of the pages below    *)
(* the pager's size; those of pages beyond it, which a region may reach,   *)
(* stay allocated for ever.                                                *)
(***************************************************************************)
FramesOf(g, below) == {pages[g][o] : o \in below} \ {NoFrame}
Released(g) == FramesOf(g, 0 .. (SizeOf(g) - 1))

delete_pager(g) ==
  /\ pages' = [pages EXCEPT ![g] = [o \in PageOffsets |-> NoFrame]]
  /\ free' = free \cup Released(g)
  /\ lost' = lost \cup (FramesOf(g, PageOffsets) \ FramesOf(g, 0 .. (SizeOf(g) - 1)))

\* unref_file(): the last one disposes of the node and its pager.
unref_file ==
  /\ refs' = refs - 1
  /\ IF refs = 1 THEN delete_pager(ShmPager) ELSE UNCHANGED <<pages, free, lost>>

\* pager_rm_map(): the region leaves the pager's list.
pager_rm_map_Not(m, p, r) == m
pager_rm_map(m, p, r) == m \ {<<p, r.addr>>}

\* munmap_inner(), second part: pager_rm_map(), then the file or the pager.
rm_map(p) ==
  LET r == th[p].region IN
  /\ At(p, "rm_map") /\ LockFree(r.pager)
  /\ maps' = [maps EXCEPT ![r.pager] = pager_rm_map(@, p, r)]
  /\ IF r.pager = ShmPager THEN unref_file
     ELSE delete_pager(r.pager) /\ UNCHANGED refs
  /\ th' = [th EXCEPT ![p] = Back(p)]
  /\ UNCHANGED <<regions, entry, table, lock, kept, fds>>

-----------------------------------------------------------------------------
(* The shared memory object and its handle. *)

make_shm(p) ==
  /\ InUser(p) /\ refs = 0
  /\ refs' = 1 /\ fds' = {p} /\ lock' = NoProc /\ kept' = FALSE
  /\ UNCHANGED <<regions, entry, table, pages, maps, free, lost, th>>

\* Another process gets the handle, by a token or when it is started.
use_token(p) ==
  /\ InUser(p) /\ refs > 0 /\ fds # {} /\ p \notin fds
  /\ refs' = refs + 1 /\ fds' = fds \cup {p}
  /\ UNCHANGED <<regions, entry, table, pages, maps, lock, kept, free, lost, th>>

close_fd(p) ==
  /\ p \in fds /\ (refs = 1 => LockFree(ShmPager))
  /\ fds' = fds \ {p} /\ unref_file
  /\ UNCHANGED <<regions, entry, table, maps, lock, kept, th>>

close(p) == InUser(p) /\ close_fd(p)

-----------------------------------------------------------------------------
(* Page faults. *)

\* The processor lets an access through when the entry allows it.
Allowed(p, page, w) == entry[p][page] # Absent /\ (w => entry[p][page].rw)

\* The region does not exist or may not be written.
Refused(r, w) == r = NoRegion \/ ~(w => r.write)

\* proc_usermem_pf(), the tests: a fault that nothing explains is a PANIC.
Fault(p, page, w) ==
  LET refused == Refused(find_user_region(p, page), w) IN
  /\ ~Allowed(p, page, w)
  /\ th' = [th EXCEPT ![p] =
       IF refused THEN [Idle EXCEPT !.exiting = TRUE]
       ELSE [@ EXCEPT !.page = page,
                      !.at = IF entry[p][page] = Absent THEN "fault" ELSE "panic"]]
  /\ UNCHANGED <<regions, entry, table, pages, maps, lock, kept, refs, fds, free, lost>>

Touch(p) == \E page \in Pages, w \in BOOLEAN : InUser(p) /\ Fault(p, page, w)

\* page_in of the swap pager: a page that is not there gets a frame.
swap_page_in(g, o) ==
  \/ /\ pages[g][o] # NoFrame
     /\ UNCHANGED <<pages, free>>
  \/ /\ pages[g][o] = NoFrame
     /\ \E f \in free : /\ pages' = [pages EXCEPT ![g][o] = f]
                        /\ free' = free \ {f}

\* The page is to be zeroed first: the last free frame, when the kernel
\* needs one more to map it, is never returned (pager.c:60-61).
FrameLeaks(g, o) ==
  /\ pages[g][o] = NoFrame
  /\ \E f \in free : free = {f} /\ lost' = lost \cup {f}
  /\ free' = {} /\ UNCHANGED pages

\* pager_get_frame(): without a frame the fault waits and tries again.
get_frame(p) ==
  LET r == find_user_region(p, th[p].page)
      o == th[p].page - r.addr + r.offset IN
  /\ At(p, "fault") /\ LockFree(r.pager)
  /\ \/ /\ swap_page_in(r.pager, o) /\ UNCHANGED lost
        /\ th' = [th EXCEPT ![p].at = "map", ![p].frame = pages'[r.pager][o]]
     \/ FrameLeaks(r.pager, o) /\ UNCHANGED th
  /\ UNCHANGED <<regions, entry, table, maps, lock, kept, refs, fds>>

(***************************************************************************)
(* pd_map_page(), which may need a frame for the page table, and waits     *)
(* when there is none.  The fault ends: user code goes on, or the copy of  *)
(* pager_do_rw().                                                          *)
(***************************************************************************)
pd_map_page(p) ==
  LET r == find_user_region(p, th[p].page) IN
  /\ At(p, "map")
  /\ \/ table[p] # NoFrame /\ UNCHANGED <<table, free>>
     \/ /\ table[p] = NoFrame
        /\ \E f \in free : table' = [table EXCEPT ![p] = f] /\ free' = free \ {f}
  /\ entry' = [entry EXCEPT ![p][th[p].page] = [frame |-> th[p].frame, rw |-> r.write]]
  /\ th' = [th EXCEPT ![p] = IF @.rw THEN [@ EXCEPT !.at = "copy", !.frame = NoFrame]
                             ELSE Idle]
  /\ UNCHANGED <<regions, pages, maps, lock, kept, refs, fds, lost>>

-----------------------------------------------------------------------------
(* pager_do_rw(), called by read_sc() and write_sc() on the handle. *)

\* The buffer is one page; reading into it, the kernel writes it.
do_rw(p) == \E o \in Offsets, buf \in Pages, w \in BOOLEAN :
  LET refused == Refused(find_user_region(p, buf), ~w) IN
  /\ InUser(p) /\ p \in fds
  /\ th' = [th EXCEPT ![p] =
       IF refused
       THEN [Idle EXCEPT !.exiting = TRUE]
       ELSE [Idle EXCEPT !.at = "lock", !.rw = TRUE, !.offset = o,
                         !.page = buf, !.write = w]]
  /\ UNCHANGED <<regions, entry, table, pages, maps, lock, kept, refs, fds, free, lost>>

\* end_read: no page, and the lock is returned at once.
Unlocked_Not == lock
Unlocked == NoProc

\* The test of the offset returns with the lock taken (pager.c:422); without
\* a region to map it in, a page or its mapping the call returns nothing.
rw_lock(p) ==
  LET o == th[p].offset IN
  /\ At(p, "lock") /\ lock = NoProc
  /\ \/ /\ o >= ShmSize
        /\ lock' = p /\ kept' = TRUE /\ th' = [th EXCEPT ![p] = Idle]
        /\ UNCHANGED <<pages, free, lost>>
     \/ /\ o < ShmSize /\ swap_page_in(ShmPager, o)
        /\ lock' = p /\ Go(p, "copy") /\ UNCHANGED <<kept, lost>>
     \/ /\ o < ShmSize
        /\ \/ swap_page_in(ShmPager, o) /\ UNCHANGED lost
           \/ FrameLeaks(ShmPager, o)
           \/ UNCHANGED <<pages, free, lost>>
        /\ th' = [th EXCEPT ![p] = Idle] /\ UNCHANGED <<lock, kept>>
  /\ UNCHANGED <<regions, entry, table, maps, refs, fds>>

\* memcpy() faults on the buffer, with the lock held, or ends the call.
CopyFaults(p) == At(p, "copy") /\ Fault(p, th[p].page, ~th[p].write)

rw_end(p) ==
  /\ At(p, "copy") /\ Allowed(p, th[p].page, ~th[p].write)
  /\ lock' = Unlocked
  /\ th' = [th EXCEPT ![p] = Idle]
  /\ UNCHANGED <<regions, entry, table, pages, maps, kept, refs, fds, free, lost>>

-----------------------------------------------------------------------------
(* process_exit(): descriptors, regions, page directory. *)

exit(p) ==
  /\ InUser(p)
  /\ th' = [th EXCEPT ![p].exiting = TRUE]
  /\ UNCHANGED <<regions, entry, table, pages, maps, lock, kept, refs, fds, free, lost>>

ExitFds(p) == th[p].exiting /\ At(p, "user") /\ close_fd(p)

ExitRegions(p) == \E r \in regions[p] :
  th[p].exiting /\ At(p, "user") /\ p \notin fds /\ munmap_inner(p, r)

delete_pagedir(p) ==
  /\ th[p].exiting /\ At(p, "user") /\ p \notin fds /\ regions[p] = {}
  /\ free' = free \cup ({table[p]} \ {NoFrame})
  /\ table' = [table EXCEPT ![p] = NoFrame]
  /\ th' = [th EXCEPT ![p] = [Idle EXCEPT !.at = "dead"]]
  /\ UNCHANGED <<regions, entry, pages, maps, lock, kept, refs, fds, lost>>

Next == \E p \in Procs :
  \/ mmap(p) \/ mmap_file(p) \/ mchmap(p) \/ munmap(p) \/ rm_map(p)
  \/ make_shm(p) \/ use_token(p) \/ close(p)
  \/ Touch(p) \/ get_frame(p) \/ pd_map_page(p)
  \/ do_rw(p) \/ rw_lock(p) \/ CopyFaults(p) \/ rw_end(p)
  \/ exit(p) \/ ExitFds(p) \/ ExitRegions(p) \/ delete_pagedir(p)

Spec == Init /\ [][Next]_vars

-----------------------------------------------------------------------------
Threads ==
  [at : {"user", "lock", "copy", "fault", "map", "rm_map", "dead", "panic"},
   page : Pages \cup {0}, frame : Frames \cup {NoFrame}, rw : BOOLEAN,
   offset : Offsets \cup {0}, write : BOOLEAN,
   region : Regions \cup {NoRegion}, exiting : BOOLEAN]

\* The type invariant.
TypeOK ==
  /\ regions \in [Procs -> SUBSET Regions]
  /\ entry \in [Procs -> [Pages -> [frame : Frames \cup {NoFrame}, rw : BOOLEAN]]]
  /\ table \in [Procs -> Frames \cup {NoFrame}]
  /\ pages \in [Pagers -> [PageOffsets -> Frames \cup {NoFrame}]]
  /\ maps \in [Pagers -> SUBSET (Procs \X Pages)]
  /\ lock \in Procs \cup {NoProc} /\ kept \in BOOLEAN
  /\ refs \in Nat /\ fds \subseteq Procs
  /\ free \subseteq Frames /\ lost \subseteq Frames
  /\ th \in [Procs -> Threads]

(***************************************************************************)
(* Every frame has one owner, across faults, exits and deleted pagers: it  *)
(* is free, a page table, one page of one pager, or lost, to a region that *)
(* reached past the end of its object (process.c:616, pager.c:344) or when *)
(* it could not be mapped to be zeroed (pager.c:60-61).                    *)
(***************************************************************************)
Owners(f) ==
  {<<"free", x>> : x \in free \cap {f}} \cup {<<"lost", x>> : x \in lost \cap {f}}
  \cup {<<"table", p>> : p \in {q \in Procs : table[q] = f}}
  \cup {<<"page", x>> : x \in {y \in Pagers \X PageOffsets : pages[y[1]][y[2]] = f}}
OneOwner == \A f \in Frames : Cardinality(Owners(f)) = 1

(***************************************************************************)
(* What a process can reach is the present contents of its own regions: a  *)
(* mapped page lies in a region and maps the frame that the region's pager *)
(* has for it, whatever other processes unmapped, closed or freed.         *)
(***************************************************************************)
NoStaleMapping == \A p \in Procs, x \in Pages :
  entry[p][x] # Absent =>
    LET r == find_user_region(p, x) IN
    /\ r # NoRegion
    /\ pages[r.pager][x - r.addr + r.offset] = entry[p][x].frame

(***************************************************************************)
(* PANIC("Unexpected fault on present page.") is never reached: entries    *)
(* stay in step with the modes of the regions (process.c:820).             *)
(***************************************************************************)
NoUnexpectedFault == \A p \in Procs : th[p].at # "panic"

(***************************************************************************)
(* The references to the handle are the descriptors and the regions of the *)
(* object, and the maps of a pager are its regions: delete_pager()'s       *)
(* ASSERT(p->maps == 0) holds and no region outlives its pager.            *)
(***************************************************************************)
RegionsOf(p) == regions[p] \cup ({th[p].region} \ {NoRegion})
MapsExact ==
  /\ \A g \in Pagers : maps[g] =
       UNION {{<<p, r.addr>> : r \in {s \in RegionsOf(p) : s.pager = g}} : p \in Procs}
  /\ refs = Cardinality(fds) + Cardinality(maps[ShmPager])

(***************************************************************************)
(* Both together: memory that is in use is referenced, and only then.      *)
(***************************************************************************)
FramesExact == TypeOK /\ OneOwner /\ MapsExact

(***************************************************************************)
(* The lock of the object's pager is held by a thread inside              *)
(* pager_do_rw(), which the user's buffer cannot make leave for            *)
(* process_exit(), and is returned when it ends; only the early return for *)
(* an offset past the end skips the unlock (pager.c:422).                  *)
(***************************************************************************)
LockIsReturned ==
  lock # NoProc /\ ~kept =>
    /\ th[lock].rw /\ th[lock].at \in {"copy", "fault", "map"}
    /\ refs > 0
=============================================================================
