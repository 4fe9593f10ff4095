------------------------------- MODULE PageDirs -------------------------------
(***************************************************************************)
(* Page directories that share the kernel's half of the address space:     *)
(* core/paging.c.  kernel_pd has the kernel's page tables; the directory   *)
(* of a process has a copy of its entries, of which the page fault handler *)
(* adds those that are missing when something behind them is used.  The    *)
(* last entry of a directory should name the directory itself: current_pd  *)
(* and current_pt are what the processor finds by going through it.        *)
(*                                                                         *)
(* Abstractions.  A page of the kernel belongs to one region, so that it   *)
(* is mapped and unmapped by one thread at a time; user pages are those of *)
(* UserMemory, and here there is one table for them in each directory.     *)
(* What a page is mapped to is left out, and so are translations that the  *)
(* processor has kept.  pd_map_page() runs with interrupts off, but        *)
(* frame_alloc() waits for its mutex with yield(): others run meanwhile.   *)
(***************************************************************************)
EXTENDS Integers, FiniteSets

CONSTANTS
  Threads,
  Kernel,       \* kernel_pd_d
  Processes,    \* the directories create_pagedir() makes
  Tables,       \* the entries of the kernel's half
  User,         \* an entry of the user half
  Pages,        \* the pages of a table
  Frames,       \* memory for page tables
  None

\* The directories and the halves of the address space are apart, and None is
\* no frame.
PageDirsAssumption == Kernel \notin Processes /\ User \notin Tables /\ None \notin Frames

Dirs == {Kernel} \cup Processes
Entries == Tables \cup {User}

VARIABLES
  page,      \* page[d][e]: the frame of a page table, or None
  itself,    \* the directory that the last entry of each one names
  made,      \* the directories there are
  mapped,    \* the contents of frames: the pages that a table maps
  free,      \* frames
  inuse,     \* the pages <<table, page>> of the kernel that are mapped, by their regions
  cr3,       \* the directory of each thread
  paging,    \* what each thread is doing
  broken     \* history: what has gone wrong

vars == <<page, itself, made, mapped, free, inuse, cr3, paging, broken>>

Idle == [op |-> "none"]

Init ==
  /\ page = [d \in Dirs |-> [e \in Entries |-> None]]
  /\ itself = [d \in Dirs |-> d]
  /\ made = {Kernel}
  /\ mapped = [f \in Frames |-> {}]
  /\ free = Frames
  /\ inuse = {}
  /\ cr3 = [t \in Threads |-> Kernel]
  /\ paging = [t \in Threads |-> Idle]
  /\ broken = {}

Go(t, c) == paging' = [paging EXCEPT ![t] = c]
current_pd(t) == itself[itself[cr3[t]]]
\* The directory that pd_map_page() and pd_get_entry() look at
Directory(t, e) == IF e \in Tables THEN Kernel ELSE current_pd(t)

\* An access to current_pt[e] by thread t.  If the table is missing in its own
\* directory, the address that faults is behind the last entry, which is unlike
\* that of kernel_pd: the handler copies that one.
Missing(t, e) == page[itself[cr3[t]]][e] = None
MirrorFault(t) ==
  /\ itself' = [itself EXCEPT ![current_pd(t)] = itself[Kernel]]
  /\ broken' = broken \cup {"itself"}

\* current_pt[e].page[p] is set to present, or cleared.
Touch(t, e, p, present) ==
  LET f == IF Missing(t, e) THEN page[Kernel][e] ELSE page[itself[cr3[t]]][e] IN
  /\ mapped' = [mapped EXCEPT ![f] = IF present THEN @ \cup {p} ELSE @ \ {p}]
  /\ IF Missing(t, e) THEN MirrorFault(t) ELSE UNCHANGED <<itself, broken>>

Now(e, p) == IF e \in Tables THEN inuse \cup {<<e, p>>} ELSE inuse
Before(e, p) == IF e \in Tables THEN inuse \ {<<e, p>>} ELSE inuse

\* pd_map_page(), if the table is there
Map(t, e, p) ==
  /\ paging[t] = Idle
  /\ <<e, p>> \notin inuse
  /\ \A u \in Threads : paging[u].op = "map" => <<paging[u].e, paging[u].p>> # <<e, p>> \/ e = User
  /\ e = User => cr3[t] # Kernel
  /\ page[Directory(t, e)][e] # None
  /\ Touch(t, e, p, TRUE)
  /\ inuse' = Now(e, p)
  /\ UNCHANGED <<page, made, free, cr3, paging>>

\* and if it is not: it asks for a frame
MapNew(t, e, p) ==
  /\ paging[t] = Idle
  /\ <<e, p>> \notin inuse
  /\ \A u \in Threads : paging[u].op = "map" => <<paging[u].e, paging[u].p>> # <<e, p>> \/ e = User
  /\ e = User => cr3[t] # Kernel
  /\ page[Directory(t, e)][e] = None
  /\ Go(t, [op |-> "map", e |-> e, p |-> p])
  /\ UNCHANGED <<page, itself, made, mapped, free, inuse, cr3, broken>>

\* The new table goes into both directories, without another look at them.  The
\* mutation puts it into the current one only.
Entered_Once(t, e, f) ==
  IF e \in Tables THEN [page EXCEPT ![current_pd(t)][e] = f]
  ELSE [page EXCEPT ![current_pd(t)][e] = f]
Entered(t, e, f) ==
  IF e \in Tables THEN [page EXCEPT ![current_pd(t)][e] = f, ![Kernel][e] = f]
  ELSE [page EXCEPT ![current_pd(t)][e] = f]
MapTable(t) ==
  LET e == paging[t].e
      p == paging[t].p
  IN
  /\ paging[t].op = "map"
  /\ \E f \in free :
       /\ free' = free \ {f}
       /\ page' = Entered(t, e, f)
       /\ mapped' = [mapped EXCEPT ![f] = {p}]
  /\ broken' = broken \cup (IF page[Directory(t, e)][e] # None THEN {"table"} ELSE {})
  /\ inuse' = Now(e, p)
  /\ Go(t, Idle)
  /\ UNCHANGED <<itself, made, cr3>>
MapFails(t) ==
  /\ paging[t].op = "map"
  /\ Go(t, Idle)
  /\ UNCHANGED <<page, itself, made, mapped, free, inuse, cr3, broken>>

\* pd_unmap_page() (and pd_get_entry(), which looks where this one writes): no
\* table is given back.
Unmap(t, e, p) ==
  /\ paging[t] = Idle
  /\ e \in Tables => <<e, p>> \in inuse
  /\ e = User => cr3[t] # Kernel
  /\ page[Directory(t, e)][e] # None
  /\ Touch(t, e, p, FALSE)
  /\ inuse' = Before(e, p)
  /\ UNCHANGED <<page, made, free, cr3, paging>>

\* A use of a page of the kernel, with the page fault handler: an entry that is
\* not like kernel_pd's is copied, and there is nothing to be done about others.
Reaches(d, e, p) == page[d][e] # None /\ p \in mapped[page[d][e]]
Access(t, e, p) ==
  /\ <<e, p>> \in inuse
  /\ ~ Reaches(cr3[t], e, p)
  /\ IF page[current_pd(t)][e] # page[Kernel][e]
       THEN /\ page' = [page EXCEPT ![current_pd(t)][e] = page[Kernel][e]]
            /\ UNCHANGED broken
       ELSE broken' = broken \cup {"panic"} /\ UNCHANGED page
  /\ UNCHANGED <<itself, made, mapped, free, inuse, cr3, paging>>

\* create_pagedir() copies kernel_pd entry by entry.
CreateBegin(t, d) ==
  /\ paging[t] = Idle
  /\ d \notin made
  /\ \A u \in Threads : paging[u].op = "create" => paging[u].d # d
  /\ Go(t, [op |-> "create", d |-> d, todo |-> Tables])
  /\ page' = [page EXCEPT ![d] = [e \in Entries |-> None]]
  /\ UNCHANGED <<itself, made, mapped, free, inuse, cr3, broken>>
CreateCopy(t) ==
  LET c == paging[t] IN
  /\ c.op = "create"
  /\ \E e \in c.todo : /\ page' = [page EXCEPT ![c.d][e] = page[Kernel][e]]
                       /\ Go(t, [c EXCEPT !.todo = @ \ {e}])
  /\ UNCHANGED <<itself, made, mapped, free, inuse, cr3, broken>>
CreateEnd(t) ==
  LET c == paging[t] IN
  /\ c.op = "create" /\ c.todo = {}
  /\ itself' = [itself EXCEPT ![c.d] = c.d]
  /\ made' = made \cup {c.d}
  /\ Go(t, Idle)
  /\ UNCHANGED <<page, mapped, free, inuse, cr3, broken>>

\* switch_pagedir()
Switch(t, d) ==
  /\ paging[t] = Idle
  /\ d \in made
  /\ cr3' = [cr3 EXCEPT ![t] = d]
  /\ UNCHANGED <<page, itself, made, mapped, free, inuse, paging, broken>>

\* delete_pagedir(), of one that no thread has: the tables of the user half are
\* given back.  The mutation gives all of them back.
Own_All(d) == {page[d][e] : e \in Entries} \ {None}
Own(d) == {page[d][User]} \ {None}
Delete(t, d) ==
  /\ paging[t] = Idle
  /\ d \in made \ {Kernel}
  /\ \A u \in Threads : cr3[u] # d
  /\ free' = free \cup Own(d)
  /\ mapped' = [f \in Frames |-> IF f \in Own(d) THEN {} ELSE mapped[f]]
  /\ made' = made \ {d}
  /\ page' = [page EXCEPT ![d] = [e \in Entries |-> None]]
  /\ UNCHANGED <<itself, inuse, cr3, paging, broken>>

Next ==
  /\ broken = {}
  /\ \E t \in Threads :
       \/ \E e \in Entries, p \in Pages : Map(t, e, p) \/ MapNew(t, e, p) \/ Unmap(t, e, p)
       \/ MapTable(t) \/ MapFails(t)
       \/ \E e \in Tables, p \in Pages : Access(t, e, p)
       \/ \E d \in Processes : CreateBegin(t, d) \/ Switch(t, d) \/ Delete(t, d)
       \/ Switch(t, Kernel)
       \/ CreateCopy(t) \/ CreateEnd(t)

Spec == Init /\ [][Next]_vars

-----------------------------------------------------------------------------
\* Every page of the kernel that is mapped is found through kernel_pd, and a use
\* of it in any directory is answered by the handler; a directory has the
\* kernel's tables, as far as it has any, and user tables of its own, and frames
\* are free or used for one table.  There are two ways out of this: a table that
\* the current directory does not have yet and that is reached through
\* current_pt first ("itself"), and one that another thread has made while
\* frame_alloc() was waiting ("table").
PagingExact ==
  /\ "panic" \notin broken
  /\ broken = {} =>
       /\ \A x \in inuse : Reaches(Kernel, x[1], x[2])
       /\ \A d \in made : itself[d] = d /\ \A e \in Tables : page[d][e] \in {None, page[Kernel][e]}
       /\ \A e, g \in Tables : page[Kernel][e] = page[Kernel][g] => e = g \/ page[Kernel][e] = None
       /\ \A c, d \in made : page[c][User] = page[d][User] => c = d \/ page[c][User] = None
       /\ \A d \in made, e \in Tables : page[d][User] # None => page[d][User] # page[d][e]
       /\ \A d \in made, e \in Entries : page[d][e] \notin free
       /\ page[Kernel][User] = None
=============================================================================
