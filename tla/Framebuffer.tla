---------------------------- MODULE Framebuffer ----------------------------
(***************************************************************************)
(* The framebuffer as a file: vesa_set_mode() (dev/vesa.c), the device     *)
(* pager behind it (user/pager.c) and the processes that map it.  A change *)
(* of mode must reach three places: the BIOS, the driver's current_mode,   *)
(* and the pages of the pager in every process.                            *)
(*                                                                         *)
(* Sizes and offsets are in pages; a process has one thread and maps the   *)
(* framebuffer once.  What is drawn, by vesa_clear() too, is not modelled. *)
(***************************************************************************)
EXTENDS Integers

CONSTANTS
  Procs,
  Modes,        \* the modes that were detected
  SizeOf,       \* pitch * width of each, in pages
  PhysOf,       \* phys_fb_addr of each, as a page number
  RegionSize, Offsets,     \* what processes map
  None

\* Sizes and page numbers are numbers, and None is no process.
FramebufferAssumption ==
  /\ SizeOf \in [Modes -> Nat] /\ PhysOf \in [Modes -> Nat]
  /\ RegionSize \in Nat /\ Offsets \subseteq Nat
  /\ None \notin Procs

VARIABLES
  bios,          \* the mode of the display
  v86_mutex,     \* held by a process in a BIOS session
  current_mode, size, phys_offset,   \* the driver's and the pager's state
  pages,         \* pager->pages
  lock,          \* pager->lock
  region,        \* per process, the offset of its region
  entry,         \* per process, what the page with each offset maps to
  th,            \* what the thread of each process is doing
  stale,         \* history: <<process, page>> that a change of mode leaves behind
  beyond,        \* history: pages that it leaves in the table
  crossed        \* history: one change has overtaken another, or is unknown to its caller

vars == <<bios, v86_mutex, current_mode, size, phys_offset, pages, lock, region,
          entry, th, stale, beyond, crossed>>

Pages == UNION {o .. (o + RegionSize - 1) : o \in Offsets}
Idle == [at |-> "user", mode |-> None, page |-> None, frame |-> None]

\* vesa_init_driver() has found a mode that it could set.
Init ==
  /\ bios \in Modes /\ current_mode = bios
  /\ size = SizeOf[bios] /\ phys_offset = PhysOf[bios]
  /\ v86_mutex = None /\ lock = None
  /\ pages = [o \in Pages |-> None]
  /\ region = [p \in Procs |-> None]
  /\ entry = [p \in Procs |-> [o \in Pages |-> None]]
  /\ th = [p \in Procs |-> Idle]
  /\ stale = {} /\ beyond = {} /\ crossed = FALSE

At(p, where) == th[p].at = where
Go(p, where) == th' = [th EXCEPT ![p].at = where]

\* A change that has reached the display but not yet the pager, or never will.
Pending == {p \in Procs : th[p].at \in {"set", "change", "release", "lost"}}

-----------------------------------------------------------------------------
(* vesa_set_mode() *)

v86_begin_session(p) == \E n \in Modes :
  /\ At(p, "user") /\ v86_mutex = None
  /\ v86_mutex' = p
  /\ th' = [th EXCEPT ![p].at = "session", ![p].mode = n]
  /\ UNCHANGED <<bios, current_mode, size, phys_offset, pages, lock, region,
                 entry, stale, beyond, crossed>>

\* The interrupt and the end of the session; a mode that is refused changes nothing.
\* Who does not wait for the answer takes a mode that is set for one that is refused.
v86_bios_int(p) ==
  /\ At(p, "session")
  /\ v86_mutex' = None
  /\ \/ bios' = th[p].mode /\ crossed' = (Pending # {}) /\ Go(p, "set")
     \/ th' = [th EXCEPT ![p] = Idle] /\ UNCHANGED <<bios, crossed>>
     \/ th' = [th EXCEPT ![p] = Idle] /\ bios' = th[p].mode /\ crossed' = TRUE
  /\ UNCHANGED <<current_mode, size, phys_offset, pages, lock, region,
                 entry, stale, beyond>>

SetCurrent(p) ==
  /\ At(p, "set")
  /\ current_mode' = th[p].mode
  /\ Go(p, "change")
  /\ UNCHANGED <<bios, v86_mutex, size, phys_offset, pages, lock, region, entry,
                 stale, beyond, crossed>>

(***************************************************************************)
(* change_device_pager(): pager_unmap() computes the same address for each *)
(* page, it->addr + offset - it->offset with offset 0: the first page of   *)
(* the device, where the region has it.  It looks for it in the directory  *)
(* of it->proc, which mmap_file() has not written: each walk may take the  *)
(* region of a process for its own, for that of another, in which the      *)
(* address may be of any page, or for that of no process at all.  There it *)
(* ends, and the thread with it, in the lock.  Frames that are on their    *)
(* way into a page table are not seen.                                     *)
(***************************************************************************)
Mapped == {q \in Procs : region[q] # None}
Unmapped_Nothing(found) == {}
Unmapped(found) == found \X {0}

\* The pages that are gone, and whether the walks came to an end.
Unmap(p, found, gone, whole) ==
  /\ entry' = [q \in Procs |-> [o \in Pages |-> IF <<q, o>> \in gone THEN None ELSE entry[q][o]]]
  /\ \/ /\ whole
        /\ stale' = {x \in Procs \X Pages :
                        \/ entry'[x[1]][x[2]] # None /\ ~(x[1] \in found /\ x[2] = 0)
                        \/ At(x[1], "map") /\ th[x[1]].page = x[2]}
        /\ Go(p, "release")
     \/ ~whole /\ th' = [th EXCEPT ![p] = [Idle EXCEPT !.at = "lost"]] /\ UNCHANGED stale

Change(p) ==
  /\ At(p, "change") /\ lock = None
  /\ lock' = p
  /\ \E W \in SUBSET Mapped : \E found \in SUBSET W :
       \E astray \in [W \ found -> Procs \X Pages] :
         Unmap(p, found, Unmapped(found) \cup {astray[r] : r \in W \ found}, W = Mapped)
  /\ UNCHANGED <<bios, v86_mutex, current_mode, size, phys_offset, pages, region, beyond,
                 crossed>>

\* device_page_release() for the pages below the size there was
device_page_release_Not == pages
device_page_release == [o \in Pages |-> IF o < size THEN None ELSE pages[o]]

ChangeEnd(p) ==
  /\ At(p, "release")
  /\ pages' = device_page_release
  /\ beyond' = {o \in Pages : o >= size /\ pages[o] # None}
  /\ size' = SizeOf[th[p].mode] /\ phys_offset' = PhysOf[th[p].mode]
  /\ lock' = None
  /\ th' = [th EXCEPT ![p] = Idle]
  /\ UNCHANGED <<bios, v86_mutex, current_mode, region, entry, stale, crossed>>

-----------------------------------------------------------------------------
(* The processes that map it *)

mmap_file(p) == \E o \in Offsets :
  /\ At(p, "user") /\ region[p] = None /\ lock = None
  /\ region' = [region EXCEPT ![p] = o]
  /\ UNCHANGED <<bios, v86_mutex, current_mode, size, phys_offset, pages, lock, entry, th,
                 stale, beyond, crossed>>

munmap(p) ==
  /\ At(p, "user") /\ region[p] # None /\ lock = None
  /\ region' = [region EXCEPT ![p] = None]
  /\ entry' = [entry EXCEPT ![p] = [o \in Pages |-> None]]
  /\ stale' = stale \ ({p} \X Pages)
  /\ UNCHANGED <<bios, v86_mutex, current_mode, size, phys_offset, pages, lock, th, beyond,
                 crossed>>

\* device_page_in() does not look at the size.
Frame(o) == IF pages[o] = None THEN phys_offset + o ELSE pages[o]

\* proc_usermem_pf(): pager_get_frame() under the lock, then pd_map_page()
pager_get_frame(p) == \E o \in Pages :
  /\ At(p, "user") /\ region[p] # None
  /\ o \in region[p] .. (region[p] + RegionSize - 1) /\ entry[p][o] = None
  /\ lock = None
  /\ pages' = [pages EXCEPT ![o] = Frame(o)]
  /\ th' = [th EXCEPT ![p].at = "map", ![p].page = o, ![p].frame = Frame(o)]
  /\ UNCHANGED <<bios, v86_mutex, current_mode, size, phys_offset, lock, region,
                 entry, stale, beyond, crossed>>

pd_map_page(p) ==
  /\ At(p, "map")
  /\ entry' = [entry EXCEPT ![p][th[p].page] = th[p].frame]
  /\ th' = [th EXCEPT ![p] = Idle]
  /\ UNCHANGED <<bios, v86_mutex, current_mode, size, phys_offset, pages, lock, region,
                 stale, beyond, crossed>>

Next == \E p \in Procs :
  \/ v86_begin_session(p) \/ v86_bios_int(p) \/ SetCurrent(p) \/ Change(p) \/ ChangeEnd(p)
  \/ mmap_file(p) \/ munmap(p) \/ pager_get_frame(p) \/ pd_map_page(p)

Spec == Init /\ [][Next]_vars

-----------------------------------------------------------------------------
(***************************************************************************)
(* A process that maps the framebuffer sees the memory of the present      *)
(* mode, but for the pages that pager_unmap() passes over, does not find   *)
(* because mmap_file() has not said whose they are (process.c:616), or     *)
(* that a fault enters behind it (pager.c:329, process.c:832), and those   *)
(* past the size of an earlier mode that stay in the pager's table         *)
(* (pager.c:306); and when no change is under way, or was lost on a region *)
(* of no process, display, driver and pager agree, unless one change was   *)
(* overtaken by another after its session (vesa.c:496), or was made for a  *)
(* caller whose wait in the session was ended early (v86.c:98).            *)
(***************************************************************************)
FramebufferExact ==
  /\ \A o \in Pages : pages[o] # None => pages[o] = phys_offset + o \/ o \in beyond
  /\ \A p \in Procs, o \in Pages : entry[p][o] # None =>
       entry[p][o] = phys_offset + o \/ <<p, o>> \in stale \/ o \in beyond
  /\ Pending = {} /\ ~crossed =>
       current_mode = bios /\ size = SizeOf[bios] /\ phys_offset = PhysOf[bios]
=============================================================================
