------------------------------ MODULE Objects ------------------------------
(***************************************************************************)
(* What the kernel allocates and what it counts references to: the heap    *)
(* (slab_alloc.c), the handles of files, channels and memory (vfs.c,       *)
(* process.c and ipc.c) and the contents of a file (pager.c), each a part  *)
(* of its own.                                                             *)
(***************************************************************************)
EXTENDS Integers, Parts

CONSTANTS Parent, Child, Worker, Handles, Tokens, MaxFd, NoHandle
VARIABLES refs, files, next_fd, alive, token_table, token_lock, proc_lock, hcall

H == INSTANCE Handles WITH None <- NoHandle

CONSTANTS PerCache, Blocks, Initial, PerPage
VARIABLES caches, regions, spare, blocks, live

L == INSTANCE SlabAlloc

CONSTANTS FileWriters, UnitsPerPage, FileRequests, DiscSizes, NoPage
VARIABLES fp_kind, fp_size, fp_pages, fp_lock, fp_th, fp_text, fp_shrunk, fp_spilled

File == INSTANCE FilePager WITH
  Writers <- FileWriters, PageSize <- UnitsPerPage, Requests <- FileRequests, None <- NoPage,
  kind <- fp_kind, size <- fp_size, pages <- fp_pages, lock <- fp_lock, th <- fp_th,
  text <- fp_text, shrunk <- fp_shrunk, spilled <- fp_spilled

ASSUME ObjectsAssumption ==
  H!HandlesAssumption /\ L!SlabAssumption /\ File!FilePagerAssumption

handle_vars == <<refs, files, next_fd, alive, token_table, token_lock, proc_lock, hcall>>
heap_vars == <<caches, regions, spare, blocks, live>>
file_vars == <<fp_kind, fp_size, fp_pages, fp_lock, fp_th, fp_text, fp_shrunk, fp_spilled>>
object_vars == <<handle_vars, heap_vars, file_vars>>

-----------------------------------------------------------------------------
NoHandles == /\ refs = Null /\ files = Null /\ next_fd = Null /\ alive = Null
             /\ token_table = Null /\ token_lock = Null /\ proc_lock = Null /\ hcall = Null
NoHeap == /\ caches = Null /\ regions = Null /\ spare = Null /\ blocks = Null /\ live = Null
NoFile == /\ fp_kind = Null /\ fp_size = Null /\ fp_pages = Null /\ fp_lock = Null
          /\ fp_th = Null /\ fp_text = Null /\ fp_shrunk = Null /\ fp_spilled = Null
NoObjects == NoHandles /\ NoHeap /\ NoFile

ObjectsInit ==
  \/ which = "handles" /\ H!Init /\ NoHeap /\ NoFile
  \/ which = "slab" /\ L!Init /\ NoHandles /\ NoFile
  \/ which = "pager" /\ File!Init /\ NoHandles /\ NoHeap

ObjectsNext ==
  \/ which = "handles" /\ H!Next /\ UNCHANGED <<which, heap_vars, file_vars>>
  \/ which = "slab" /\ L!Next /\ UNCHANGED <<which, handle_vars, file_vars>>
  \/ which = "pager" /\ File!Next /\ UNCHANGED <<which, handle_vars, heap_vars>>

ObjectsSpec == ObjectsInit /\ [][ObjectsNext]_<<which, object_vars>>

\* The heap hands out nothing twice and leaks neither blocks nor descriptors.
HeapExact == which = "slab" => L!HeapExact /\ L!DescriptorsExact

\* A handle has as many references as descriptors, tokens and calls hold it, and
\* is not freed under a call that has only read it from a table; and what a file
\* handle reads is what was written to it, or what the disc has.
HandlesExact ==
  /\ which = "handles" => H!HandlesExact
  /\ which = "pager" => File!FileExact
=============================================================================
