# kogata: models, checks and proofs

TLA+ models of the kogata system, the TLC configurations that check them on small
instances, and TLAPS proofs of what matters most for every size. Most of them are of the
kernel (`src/src/kernel`, with the parts of `src/src/common/libkogata` it is built on);
some are of the libraries and programs above it. Paths below are relative to the kernel
unless they say otherwise. `PROJECT.json` maps every definition to the lines it models.

## 1. The system

kogata is a micro-kernel-like system for a 32-bit x86 with **one processor**. User
programs live in processes that form a tree, talk over channels and share memory,
and reach files through file systems that are bound per process. The kernel is
multi-threaded and preemptible: that, and not parallelism, is where its difficulty
is. A thread in the kernel is preempted by the timer at level `CL_USER`, is
interrupted but not preempted at `CL_NOSWITCH`, and is left alone from `CL_NOINT`
on; it may give the processor up itself wherever a mutex is taken, because a
mutex is an exchange in a loop around `yield()`.

### 1.1 Inventory

| Component | State it keeps | Operations | Interacts with |
|---|---|---|---|
| Threads and scheduler (`core/thread.c`) | `current_thread`, the run queue linked through `next_in_queue`, the list of waiters, per thread its state, critical level, `waiting_on`, `must_exit` | `new_thread`, `start_thread`, `yield`, `wait_on(_many)`, `resume_on`, `usleep`, `exit`, `kill_thread`, `delete_thread`, `enter/exit_critical`, `run_scheduler` | interrupts call `resume_on`; workers delete threads; everything waits here |
| Workers and time (`core/worker.c`) | tree of tasks by due time, its mutex, `next_task_time`, `time` | `worker_push(_in)`, worker loop, `notify_time_pass` | timer interrupt, `exit`, `usleep`, `select`, process exit |
| Mutexes (`common/libkogata/mutex.c`) | one word | `mutex_lock`, `mutex_try_lock`, `mutex_unlock` | `yield` |
| Interrupts (`core/idt.c`, `interrupt.s`) | handlers | irq, exception and system call entry, "maybe exit" on the way out | scheduler, drivers |
| Channels (`user/ipc.c`) | two rings of bytes with begin and length, a lock, the other side | `make_channel`, read, write, poll, dispose | threads, handles |
| Shared memory, tokens (`user/ipc.c`) | pager; table of tokens | `make_shm`, `gen_token`, `use_token`, expiry | processes |
| Processes (`user/process.c`) | status, parent, children, threads, regions, descriptors, file systems, lock | create, start, add thread, exit, wait, find child, descriptor and fs tables | workers (exit task), threads (kill), VFS, pagers |
| User regions (`user/process.c`) | region lists per process, page directory | `mmap`, `mmap_file`, `mchmap`, `munmap`, page fault | pagers, paging |
| Pagers (`user/pager.c`) | pages of an object, list of maps, lock | swap, VFS and device pagers: page in, read, write, resize | frames, paging |
| Frames (`core/frame.c`) | bitmap, count, search hint | `frame_alloc`, `frame_free` | all memory users |
| Paging (`core/paging.c`) | page directories; the kernel part shared, the last entry the directory itself | map, unmap, switch, create, delete, page fault | frames, regions |
| Kernel regions (`core/region.c`, `common/libkogata/region_alloc.c`) | free and used regions, descriptors | alloc, free | paging, kmalloc |
| Kernel heap (`core/kmalloc.c`, `freemem.c`, `common/libkogata/slab_alloc.c`) | slabs, caches, mutex | malloc, free, realloc, retry | regions, frames |
| Containers (`common/libkogata/{btree,hashtbl}.c`) | trees, tables | add, find, remove, iterate | everywhere |
| VFS (`user/vfs.c`), nullfs, iso9660 | reference counts of file systems, nodes and handles; node locks | open, read, write, walk, delete, move, poll | processes, pagers |
| System calls (`user/syscall.c`), ELF loader | none of their own; `select` keeps a timer task | argument checks and dispatch | all of `user/` |
| Drivers (`dev/`) | transfer state, event buffers, v86 session | irq handlers, block read and write, BIOS calls | `wait_on`, `resume_on` |
| Boot, GDT, debug log | none that changes later | set-up | - |
| C library, main loop, gip, drawing, terminal, init (`src/src/lib`, `src/src/sysbin`, with `common/libc`) | stdio buffers, main loop queues, requests, the terminal's screen | wrappers, strings, `printf`, `mainloop`, gip, drawing, terminal, init | channels, `select` |
| Window manager (`src/src/syslua/lx/tk.lua`, `gui.lua`) | windows in their order, who the mouse is held on, cursor and what it hides | add, remove, redraw, raise, move, resize, scroll, click | drawing, mouse, Lua programs |
| Lua, stb | third-party code | | |

### 1.2 What is hard here

- **Interleaving of threads and interrupts.** Which of a call's steps can be cut by
  the timer, by a device interrupt or by a mutex depends on the level at that point;
  the code drops and raises it inside single functions.
- **Sleep and wake-up.** `wait_on()` keeps no memory of a `resume_on()` that came
  earlier. Everything that tests a condition and then sleeps must close that window:
  channels, drives, the BIOS thread, timers, `process_wait()`.
- **Ends.** A thread, and a process, can end in four ways at once (its own exit, the
  end of its last thread, a kill by the parent, the exit of an ancestor), and its
  memory is given back by a worker while others may still hold pointers.
- **References.** Nodes, file systems, handles, pagers and frames are counted or owned by
  convention; every path, and every failure of `malloc()` on it, must be balanced.
- **Numeric edges.** Ring indices at the wrap, bitmap words, blocks and clipping, counts
  that are cut to eight bits, 64-bit time on a 32-bit machine.

The hazards of `PROJECT.json` list these at their lines, with the properties that
watch them, or the reason why none does.

### 1.3 What makes each part correct

| Part | What holds | Properties | Module |
|---|---|---|---|
| Scheduler | every runnable thread is queued once or running, waiting threads are not reordered, none starves | `RunQueueExact`, `NoReordering`, `StarvationFree` | Threads |
| Run queue | the linked list is a queue | `ImplementsQueue` | RunQueueList |
| exit and workers | a thread is deleted once and only after it has left the processor; a pending task is seen by the timer; exited threads are reclaimed if there was memory for the task that does it | `CleanupFinished`, `PendingIsDue`, `ExitedIsReclaimed` | Threads |
| kill | the killer gets through, no thread is lost or revived | `KillTerminates`, `NoThreadLost`, `ExitNeverReturns` | Kill |
| Sleeping for a time | a sleeper that was given a timer in time has it carried out, and not too early | `SleepExact` | Sleep |
| Channel | a bounded FIFO pipe; no wake-up lost; bytes arrive, writes return | `RingHoldsStream`, `CopiesStand`, `NoLostWakeup`, `ImplementsPipe`, `BytesArrive`, `WriteReturns` | Channel, Pipe |
| Main loop and GIP | messages stay whole, requests are answered, input is read while both programs live | `FramesWhole`, `RequestsExact`, `InputIsRead` | Gip |
| Processes | exits are final, resources outlive threads, children do not outlive parents | `ExitIsFinal`, `NoThreadOutlives`, `NoOrphanAlive` | Processes |
| Descriptors and tokens | a handle has a reference for each descriptor, token and call that holds it, and none too many | `HandlesExact` | Handles |
| VFS nodes | counts are exact, a file is in memory once, assertions hold, a node in use has its item unless it was replaced or came while a delete was under way, locks are ordered but in one place | `RefsExact`, `OnceInMemory`, `AssertsHold`, `DeleteLooksFirst`, `OnlyUnrefDeadlocks` | Vfs |
| Files | the files of a disc are found and listed; what is read of a file, on a disc or in memory, is what was written | `ContainersExact`, `HandlesExact` | Iso9660, FilePager |
| Framebuffer | display, driver and the pages that programs map are of one mode, but for what `stale`, `beyond` and `crossed` name | `DevicesExact` | Framebuffer |
| User memory | every frame has one owner, no process keeps a page that is not its own, no unexpected fault, the lock is returned | `FramesExact`, `NoStaleMapping`, `NoUnexpectedFault`, `LockIsReturned` | UserMemory |
| Frames | no frame has two owners, none is forgotten | `Exclusive`, `FailsOnlyWhenFull` | Frames |
| Page directories, kernel regions | kernel mappings are found in every directory; the address space is partitioned, its lists agree | `RegionsExact` | PageDirs, RegionAlloc |
| Heap | nothing is handed out twice or leaked | `HeapExact` | SlabAlloc |
| Containers | the table is a map, the tree keeps its items and finds them | `ContainersExact` | Hashtbl, Btree |
| Devices | reads end with the right interrupt and give back locks, BIOS answers reach a caller that is neither killed nor woken by an old timer, programs know the keys and buttons as they are | `DevicesExact` | Ide, V86, Input |
| Programs | a file and its buffer hold what was written, drawing paints what was asked for, the terminal's picture is that of its text, strings and numbers are copied, compared and written as they are, the screen shows the windows as they lie and a button acts where it was pressed | `ProgramsExact` | Stdio, Draw, Terminal, Text, Windows |

## 2. Modules and how they correspond to the code

### Threads
The scheduler with `exit()`, the worker threads and `tasks_mutex`. A step is taken
by `current` or by an interrupt. `current = NoThread` is the `hlt` loop of
`run_scheduler()`. `critical_level[t]` is the code's; `InterruptsOn` and
`TimerPreempts` read it as `idt.c` and `threading_irq0_handler()` do, so what can
interrupt what is the code's own rule and not an assumption. A function that can be
cut is several actions, one per stretch that cannot: `start_thread`/`start_enqueue`
(state set with interrupts on, queue changed with them off), `exit`, `ExitLock`,
`ExitPush`, `ExitFinish`, `ExitYield`, and `wait_on_many`/`WakeUp`. `saved` is the
local `st` of the critical section. `ExitNoMemory` and the second case of `ExitPush` are a cleanup task for which there is no
memory, or none for its place in the tree; `unpushed` holds the threads that are lost in this way, because nobody looks at the result (section 4).

Abstractions: the run queue is a sequence (justified by RunQueueList); the list of
waiters is a set, so that `resume_on()` may enqueue the threads it wakes in any
order; tasks are due at once and time is the bit `next_task_time <= time` (delays are in
Sleep). `remove_thread_from_queue()` (`core/thread.c:100-113`) is never called and is left out.

### RunQueue, RunQueueList
RunQueue is the abstract sequence. RunQueueList is the pointer structure:
`enqueue_thread()` and `dequeue_thread()` on `first`, `last` and `next`, with the
stale links of threads outside the queue kept. It refines RunQueue by the mapping
`queue <- AbsQueue`, the nodes met from `first` on.

### Kill
`kill_thread()` as `process_exit()` calls it, on the list of RunQueueList (through
INSTANCE), with its `enqueue_thread()` cut into single stores, because the killer's
level leaves interrupts on. `IrqDuringKill` says whether a device interrupt may come
between the test of the state and the last store: FALSE separates what the loop
guarantees from what the missing `CL_NOINT` breaks. That the cleanup task may not be made or found its place does not matter to the killer, who only waits for `FINISHED`.

### Sleep
`usleep()` and the timeout of `select()` over `worker_push_in()` and one worker's loop. A
task holds what is left until it is due, so that time stays small. The worker's look at
the tasks and what follows it are two steps, as its level allows. `worker_push_in()` may have no memory for the task, which its caller learns, or for its
place in the tree, which its caller does not (`PushLost`).

### Pipe, Channel
Pipe is what a channel promises. Channel is one direction of `ipc.c`: the ring with
both copies of `channel_read()`/`channel_write()`, the lock, rounds that copy and
then move the indices, sleeping, waking, `fctl()` changing the mode in the middle
of calls, and the killing of threads in a call. A byte is its position in the stream,
so that a wrong byte is visible. `sent` and `received` are history variables, and
the refinement to Pipe keeps them.

### Gip
giosrv and one client on a channel in each direction, with the main loop
(`src/src/lib/libkogata/mainloop.c`) and the protocol (`gip.c`) on both sides: `select()`, pieces of
headers and bodies, the queue `wr_bufs[]`, commands, replies, notifications and keys.
The channel is a bounded queue of units, which is what Channel shows it to be; a header
is two units so that it can be cut. `gip_send_msg()` drops a message when it has no memory for it as when the queue is full (`gip.c:56-66`): one step
stands for both. A program may end at any moment (`Exits`); its peer then finds `SEL_ERROR` first in every round, does nothing in
`on_error()` and starts again (`Error`).

### Processes, MCProcesses
The life of processes: the system calls, `process_exit()` with its recursion over
children, `process_wait()` and `process_wait_any_child()`, thread creation, killing
and cleanup, executed by threads and workers whose kernel stacks are explicit
sequences of frames. Locks are spin locks: an action that needs one is enabled when
it is free. The process tree is given and a process is created once. Files, memory
and file systems are one resource (`down`). A cleanup task for which there was no memory is one that no worker ever takes up. `tgen` counts the threads that
have lived in a `thread_t`'s memory; `begun`, a history variable, holds the processes that have had a thread.

### Handles
Tables of descriptors, tokens and the calls that move handles between them
(`open`, `make_channel`, `close`, `gen_token`, `use_token`, `bind_fd`, expiry, exit), one step
per section under a mutex. While `process_exit()` holds the lock of the child its threads are gone, so the child begins no call then. A handle that is freed may be given out again, so that a stale pointer
names another file. It rests on one thread per process: `proc_read_fd()` takes no
reference, and with two threads the handle could go meanwhile. `next_fd` is bounded by `MaxFd` and
its overflow is not modelled.

### Vfs, MCVfs
`user/vfs.c` over `nullfs.c`: walks that bring nodes into memory, `unref_fs_node()` and its
chain, create, delete, open, stat and `fs_subfs()`. A step ends wherever a mutex is taken;
`todo` is the stack of `unref_*()` calls, `call` holds the locals of a thread's call (`Call` makes them). `leaked` counts references that
`fs_delete()` loses, `stuck` the directories whose lock `nullfs_d_delete()` keeps. `listed` is how many entries a directory's `items_list`
has, `former` the nodes whose item has been replaced by a new one of the same name, and `freed` those whose item has been deleted: `nullfs_d_create()`
tests for no name, so that a create which races with another, or with the open of a file, hides a file behind an empty one, and a delete whose
entry is not among the first two of the list walks on behind them (`fs_delete_astray`), in memory the model says nothing of: it does not return, and the directory's lock is gone. All of this is
the code's behaviour (section 4), and the properties count with it.

### UserMemory
Regions, page tables, private and shared pagers, and one shared memory object, for processes with one
thread each (`include/process.h:6`). A process has one page table. The frame of the page directory,
accessed and dirty bits, and the reference that a token holds are left out; device pagers are in Framebuffer, and
what the pages of files contain is in FilePager. `SC_MK_SHM` has no entry in the table of system calls
(`user/syscall.c`), so that shared objects are what `make_shm()` promises and not what a program can ask for in this build.
Regions have slots that do not overlap, as the ELF loader and `malloc()` choose them.
`kept` is set by the return at `pager.c:422` that keeps the lock, and `lost` holds the frames that nobody frees: those of pages
past an object's end, and the last free one when `swap_page_in()` needs another to map it (`FrameLeaks`).

### Frames
The bitmap allocator with its search hint. Each call runs under one mutex and is one
action; `frame_bitset` is the set of bits. Runs lie within one word, as the shifted
mask makes them. `owned` and `answer` are history variables.

### PageDirs
The page directories' kernel half: `kernel_pd`, its copies in the directories of processes,
that the page fault handler completes, and the last entry through which `current_pd` and
`current_pt` are reached. `itself[d]` is the directory that entry names, so that
the model sees what the processor would. `pd_map_page()` is cut at `frame_alloc()`, which
waits for a mutex with `yield()`. The histories `itself` and `table` in `broken` are the
two ways out of the property (section 4).

### RegionAlloc, SlabAlloc, Hashtbl, Btree
Data structures whose operations run under one mutex each, so that an operation is a step.
RegionAlloc has the two lists with their `first_bigger` pointers and the reserve of descriptors;
SlabAlloc the caches, regions and descriptors with failures at each allocation; Hashtbl the
chains and the rehash, with and without memory for it; Btree the rotations as they are written,
with the heights the code does not compute again on the way up. Each is compared
with a history variable, the set or the map that it stands for.

### Ide, V86
Ide is the reading of ATAPI drives, with `ide_prewait_irq()` and `ide_wait_irq()`, lines
that drives share, errors, and readers that are killed. V86 is the hand-over between callers of the
BIOS and the one thread that runs it, and the page directory that each caller is in. In both, a thread that sleeps may be resumed by a timer that
an earlier `select()` of it has left behind (`Stray`). `abandoned`, `kept`, `early` and `spoilt` name what the code does wrong (section 4).

### Iso9660
Lookup and listing in a directory and the reading of a file (`fs/iso9660.c`). The actions write
the disc, by the rules of the format; the functions of the code are operators that are
compared with it in every state.

### FilePager
The contents of a file in memory (nullfs over a swap pager) and of a file on a disc (a VFS pager): `page_in` with
failures, `pager_do_rw()`, `pager_resize()`, `fs_write_to_pager()` in its three sections, truncation. A page is the sequence
of its units; `text` is the history of the writes that returned. The early return at `pager.c:422` keeps the lock, here too: nothing
happens afterwards.

### Framebuffer
`vesa_set_mode()`, the device pager and the processes that map it: a change of mode is a BIOS session, the driver's
`current_mode`, and the two halves of `change_device_pager()` under the pager's lock; a fault is
`pager_get_frame()` under that lock and `pd_map_page()` without it. `mmap_file()` leaves the process of its region unwritten, and `pager_unmap()` goes by it:
each region that is walked may be taken for one of its own process, of another one, or of none, in which case the walk does not end, and the pager's lock is kept (`Change`).
A process whose wait for the BIOS was cut short takes a mode that was set for one that was refused. `stale` and `beyond` hold what a change leaves behind,
`crossed` says that one was overtaken or is not known to who made it (section 4).

### Input, Draw, Terminal, Stdio, Text
Input goes from scan codes and mouse packets through the interrupt handlers and buffers to
the modifiers and characters of `keyboard.c`. Draw is the clipping of every call of `draw.c` as a
set of pixels, with where the pixels of a copy from 32 to 24 bits go. Terminal has the characters, cursor and picture of `term_putc()`, of the first screen and of a change of size; a key may come before there is a screen. Stdio is
one FILE with its buffer, on a regular file or on a channel that takes a part of a write. Text has the functions of
`common/libc/string.c` and `printf.c` that have a boundary, and `parse_cmdline()` of init, each beside what it is to compute;
`Otherwise` names the calls for which the code does something else (section 4).

### Windows
The window manager of `tk.lua` on the screen, with the pointer and cursor of `gui.lua`. An action is one event of the mouse or a call of
`wm:add()` or `wm:remove()`, with the whole chain of handlers and redraws it leads to: Lua runs it to its end. A pixel holds the window
it shows and the place, size and scroll position that the window was drawn with, so that a pixel not drawn again after a change is
told from one that was; regions are computed by the code's own `region_operation()`. A window's content is a widget that can be
clicked, or a box with a corner to resize and scroll bars. `unsure`, `both` and `"torn"` name what two buttons at once, and a window that
comes or goes meanwhile, do to `left_click_valid`, `moving` and `mouse_win` (section 4).

### Parts, Devices, Objects, Timers, KernelSpace
Modules that need no company are put side by side, `which` (module Parts) saying the one that a behaviour exercises; they share no state, so that this
is the disjoint union of their instances. Devices has Ide, V86, Framebuffer and Input (keyboard and mouse, two parts); Objects has Handles, SlabAlloc and
FilePager; Timers has Sleep; KernelSpace has RegionAlloc and PageDirs. Constants stay constants here, so that theorems speak of these modules, and their
properties (`DevicesExact`, `HeapExact`, `HandlesExact`, `SleepExact`, `RegionsExact`) are what the runs check and what is proved.

### MCKernel, MCMemory
MCKernel extends Frames, Devices, Objects and Timers for one run and adds the parts about which nothing is proved (RunQueueList apart): RunQueueList, Hashtbl, Btree, Iso9660,
Stdio, Draw, Terminal, Text and Windows, on the variables `x1` to `x15`. A property of the run is a conjunction over the parts it is about.
MCMemory does the same with UserMemory and KernelSpace.

### ThreadsProofs, KillProofs, ChannelProofs, GipProofs, FramesProofs, UserMemoryProofs, ProcessesProofs, VfsProofs
The theorems of section 5. Each is about the module it is named for, and some instantiate others to prove about them as well: ThreadsProofs Sleep,
KillProofs RunQueueList, ChannelProofs V86, Ide, Framebuffer and Input (through Devices), FramesProofs Handles, SlabAlloc and FilePager (through Objects), UserMemoryProofs PageDirs
and RegionAlloc (through KernelSpace).

## 3. Runs

| Run | Instance | What it shows | Distinct states |
|---|---|---|---|
| `threads` | 2 clients, 1 worker, 1 object that devices also resume | `RunQueueExact`, `CleanupFinished`, `PendingIsDue`, `NoReordering`; `StarvationFree` and `ExitedIsReclaimed` under `FairSpec` | 3,184 |
| `kill` | 3 threads of the process and the killer | `ExitNeverReturns`, `NoThreadLost`, `KillTerminates` | 9,155 |
| `kill_irq` | 2 threads, interrupts everywhere | **violation** of `ExitNeverReturns` (finding 1) | |
| `channel` | ring of 2, 1 reader, 2 writers of which one may be killed, requests of 3, 4 bytes, both modes | `RingHoldsStream`, `CopiesStand`, `NoLostWakeup`, `ImplementsPipe`; `BytesArrive` and `WriteReturns` under `StreamSpec` | 36,916 |
| `channel_kill` | ring of 2, 1 reader, 1 writer | **violation** of `KilledLeaves` (finding 2) | |
| `kernel` | MCKernel, see below | `Exclusive`, `FailsOnlyWhenFull`, `ImplementsQueue`, `ContainersExact`, `HeapExact`, `DevicesExact`, `SleepExact`, `HandlesExact`, `ProgramsExact` | 1.95 million |
| `processes` | init with a child that has a child, 4 thread slots, 2 workers; the grandchild makes threads | `NoThreadOutlives`, `NoOrphanAlive`, `ExitIsFinal` | 472,552 |
| `process_exit_stuck` | init and one child, kill against `mmap()` | **violation** of `ExitCompletes` (finding 3) | |
| `process_wait_lost` | init and one child, wait against exit | **violation** of `WaitReturns` (finding 4) | |
| `vfs` | 2 threads, 3 nodes, a directory and a file, a file system made from the directory, items that are made twice | `RefsExact`, `OnceInMemory`, `AssertsHold`, `OnlyUnrefDeadlocks`, `DeleteLooksFirst` | 548,162 |
| `memory` | 2 processes, 3 frames, a region of two pages and one of one, a shared object of one page; the kernel's regions and page directories, see below | `FramesExact`, `NoStaleMapping`, `NoUnexpectedFault`, `LockIsReturned`, `RegionsExact` | 1.32 million |
| `gip` | channels of 2 units, 2 queued writes, 1 key, 2 commands, one program that may end | `FramesWhole`, `RequestsExact`, and `InputIsRead` under fairness | 189,926 |

Every property of a passing run has one mutant or more in `PROJECT.json`: a definition with one
detail of the code lost (a test, a reset, a modulo, an end of the queue) under which
the same run finds that property violated. The mutated forms stand before the
definitions they vary and are used by nothing else. For a property that is put together of several
modules there is a mutant in each of these modules.

### Bounds, and why they are enough
- **Threads**: two clients interfere, and the worker that deletes one of them is the third thread
  beside them. One object suffices for waking: objects only meet in `wait_on_many()`, where an
  object never woken behaves as one not waited on. The safety properties are also proved for any number.
- **Channel**: a request is longer than the ring, so that every call takes several rounds and the ring is met full, empty and
  wrapped; two writers contend for one slot. The refinement and the invariants are also proved
  for any size and any number of threads. `MaxBytes` bounds the stream by refusing to *begin* a write that would pass it.
- **Kill**: three threads cover a victim in front of, behind and beside another one. The invariants are also proved for any number.
- **Processes**: a chain of three shows every pair of a process, its parent and its
  grandparent exiting at once. `MaxThreads` = 1 means that a thread_t is not used
  again for another thread after it has been freed: what a stale pointer to a
  *reused* one does is described in section 4. `Threaded` lets only the leaf have several
  threads. The properties are also proved for any tree of processes, any workers, any number of thread_t's and any reuse of them but the one described there, with single-threaded parents. `Syscalls` gives each process the calls it makes: init creates, starts, kills and
  polls, its child does all a parent and a child can do, the grandchild has no
  children to act on.
- **Vfs**: the root, a directory and a file are a node, its parent and its grandparent; two threads are the race that
  each lock is for. `MaxLeaks` = 1 bounds the references that `fs_delete()` loses, `Room` the entries of a list of items: three in the root, of which one (`Others`) is
  never asked for, so that an item may be replaced and then lie behind the second entry, where a delete goes astray. The names of directory and file are the same
  so that both file systems can be asked for the same paths; `MCAsked` are the calls that are made. `View` leaves out what a call has left behind in a thread that is in none. The properties are also proved for any threads, nodes and paths, with one file system
  made from the other.
- **UserMemory**: three frames are a page table, a page of its own and a shared one, so that memory runs out at every point;
  offsets 0 and 1 of an object of one page are within and past its end. The properties are also proved for any processes, frames, region slots
  and size of the object.
- **Gip**: a channel of two units holds one header, or the end of one message and half of the next header; the two places of the queue are filled by
  one command's answer and a notification. The invariants are also proved for any sizes and any number of commands.
- **Kernel** and the kernel's half of **memory**, instance by instance:
  - frames: 10 in words of 3 bits: three whole words and one that is not searched; the kernel's image of 4
    ends inside the second word and the page given back lies in the first; 2 clients, runs of 1 and 2;
  - run queue: 4 threads (the refinement is also proved for any number);
  - hash table: keys 1, 2, 3 and 5 and a first size of 2: collisions, and growth and shrinking between them;
  - tree: keys 1 and 2, up to 5 items: equal keys on both sides of a rotation, and removal of an inner item;
  - regions: 8 pages of address space, sizes 1 to 3, descriptors from pages of two; heap: 4 blocks, 2 kinds of objects (both also proved for any);
  - page directories: 2 of processes, 2 kernel tables, 2 threads, 3 frames (also proved for any);
  - drives: 2 readers of 2 drives on one line, up to 2 blocks where a count holds only 0 and 1; BIOS: 3 callers (both also proved for any);
  - time: 2 sleepers with delays up to 1 and 2 tasks each: two timers due at once, one left over from an earlier call (also proved for any sleepers and delays);
  - handles: a parent, a child and a worker, 2 handles, 1 token, 2 descriptors (that no count is wrong is also proved for any number of each); disc: 2 blocks of 6 units with records of 2 and 3, so that the first block is full or has a gap;
  - stdio: a buffer of 2 bytes and up to 4 bytes of text; keyboard and mouse (also proved for any): a shift, a key sent after 0xE0 and a letter, and a buffer of 1; a byte of 2 bits,
    with movements that it holds, that it does not hold and that overflow, and a buffer of 2;
  - files: pages of 2 units, writes within the first page, across its end and behind a hole, files of a disc of 1 to 3 units (also proved for any writers, pages and requests); framebuffer: 2 processes with regions of one page at either of two offsets, modes of 1 and of 3 pages (also proved for any);
  - drawing: a picture of 5 by 3 and three regions, inside and across its edges, coordinates from -2 to 5; terminal: 2 lines by 3 and 3 by 2, tabs of 2, escape sequences of up to 4;
  - text: memory of 8 bytes, that is a word, a rest and an overlap of each kind; strings of up to 3 of two characters, formats of up to 2
    directives with 5 numbers at the edges of signs and digits, a `%` at the end, buffers of 0, 1, 3 and 20, numbers of 2 hexadecimal digits; command lines of up to 6 of a space, an equals sign and a letter;
  - windows: a screen of 3 by 4 with a cursor of 2 by 1; two windows that overlap, one of which may be removed, or a box whose content is larger than it; borders of 0
    and a title of 1. `Limits` bounds where windows go and how large they get.

Deadlock is checked for Threads and Kill (the scheduler always has its timer). It is off where the system may really stop: Channel when `MaxBytes`
are through, Processes when all have ended, Vfs where `unref_fs_node()` and `fs_walk_one()` block each other (`OnlyUnrefDeadlocks`
says that nothing else does) or when no file system is left, MCMemory when its processes have exited or kernel memory has run out, Gip when no key and
no command is left, and MCKernel, where several instances stop at the code's own panic or known defect.

### Fairness, and why the code justifies it
- **Threads**: the processor executes, so an action inside a kernel call is not put
  off for ever; the timer ticks. Strong fairness is used where an action is enabled
  again and again: the tick does not always fall into critical sections, a spinning
  `mutex_lock()` does not always meet the moment when the lock is held, and the task
  tree is ordered by time, so no task is overtaken for ever. Nothing obliges a thread
  to make a call, except that its critical sections end.
- **Channel**: weak fairness per thread and step, which is what `StarvationFree` of Threads gives
  to a runnable thread, and strong fairness of taking the lock: a thread that finds it free again and again
  takes it. A schedule in which the timer only ever dispatches it while another holds the lock is possible in principle.
  `FairCalls`, part of `StreamSpec`, assumes that readers and writers keep calling: the two stream properties are about that.
- **Processes**: weak fairness per thread, exit and worker.
- **Gip**: weak fairness of the two programs; nobody has to type or to command.
- **Kill**: as Threads. The system call of a thread that must exit gets to its end
  (`SF` on `maybe_exit`): calls that do not are finding 2.

## 4. Findings

Four disagreements between the code and what its comments say are runs that TLC finds violated:

1. **kill_thread() and interrupts** (`core/thread.c:413-425`, run `kill_irq`). The
   level is `CL_NOSWITCH`, so a driver's handler may resume the victim between the
   test of its state and its queueing. It is then linked twice and is dispatched
   after `exit()`, whose `yield()` is "expected never to return!" (`thread.c:376`).
2. **Killed in a blocking read or write** (`user/ipc.c:142, 198`, run
   `channel_kill`). The result of `wait_on()` is ignored, so the killed thread sleeps
   again, and so on. `include/thread.h:65` asks for termination "as soon as possible".
3. **Exit against a system call** (`user/process.c:195-210`, run
   `process_exit_stuck`). `process_exit()` holds `p->lock` while it waits for threads,
   and a thread that spins on `p->lock` cannot leave the kernel. `include/process.h:70`:
   "all its ressources are freed immediately".
4. **Lost wake-up in process_wait()** (`user/process.c:342-363`, run
   `process_wait_lost`). The status is tested under the parent's lock, which
   `process_exit()` does not take: a child that exits in between has notified nobody.
   `include/process.h:91`: "waits for exit and frees process_t structure".

Other defects were met while modelling. The models have them, and where they would make a property
false a history variable names the event, and the property says what holds apart from it. No property is
weakened in any other way; each of these variables is set by one action, at the line given.

| Where | What happens | In the model |
|---|---|---|
| `core/paging.c:88-90` | an access through `current_pt` to a table that the current directory lacks copies `kernel_pd`'s mirror entry over the directory's own | PageDirs, `"itself"` |
| `core/paging.c:212-221` | `frame_alloc()` yields; a table that another thread has entered meanwhile is replaced | PageDirs, `"table"` |
| `core/thread.c:343-348` | `usleep()` pushes its timer, then waits: if it is carried out first, the thread sleeps without one; a `select()` timer left over ends a later sleep | Sleep, `untimed`, `stray` |
| `common/libkogata/btree.c:130-131`, `core/worker.c:86` | `btree_add()` may have no memory and return false; `worker_push_in()` ignores it, lowers `next_task_time` and returns true: `usleep()` waits for ever | Sleep, `untimed` (`PushIsLost`) |
| `core/worker.c:77-78, 86`, `core/thread.c:371` | without memory for the cleanup task or its place in the tree, `exit()` goes on: the thread is never reclaimed | Threads, `unpushed` |
| `user/pager.c:422` | returns with the lock held: a read at the end of a file is enough | UserMemory, `kept`; FilePager, `RwPast` |
| `user/pager.c:505` | the size is tested without the lock: a writer makes a file smaller that another has made larger meanwhile | FilePager, `shrunk` |
| `user/pager.c:154` | a page behind the end of a disc's file has a negative `expect_len`: memory below the page's zone is cleared, the fault is tried again for ever | FilePager, `spilled` |
| `user/pager.c:329` | `pager_unmap()` computes one address for all pages: the others stay mapped | Framebuffer, `stale` |
| `user/process.c:834` | a frame from before a change of mode is mapped after it | Framebuffer, `stale` |
| `user/pager.c:289, 308` | pages past the device's size are entered, and stay after a change | Framebuffer, `beyond` |
| `dev/vesa.c:494-500` | driver and pager are changed after the BIOS session: of two changes, one may win on the display and the other one in the driver | Framebuffer, `crossed` |
| `user/process.c:616-640` | `mmap_file()` does not set `r->proc`, which `pager_unmap()` follows (`user/pager.c:325-326`): a change of mode unmaps pages of anybody, or never returns from the pager's lock | Framebuffer, `Change`: `stale`, `"lost"` |
| `user/process.c:616` | pages past an object's end are paged in and never freed | UserMemory, `lost` |
| `user/pager.c:60-61` | a frame that `swap_page_in()` cannot map, to clear it, is not given back | UserMemory, `lost` (`FrameLeaks`) |
| `user/vfs.c` `fs_delete()` | a file in memory: the reference to its parent is not dropped | Vfs, `leaked` |
| `user/nullfs.c` `nullfs_d_delete()` | a directory that is not empty keeps its lock | Vfs, `stuck` |
| `user/vfs.c:340-345` | `fs_delete()` looks for a node in memory before it takes the lock: one that is opened or walked to meanwhile is deleted in use, which `include/vfs.h:76` guarantees never to happen; the walk's own look behind that is of a freed item | Vfs, `seen`, `freed` |
| `user/nullfs.c:359, 397`, `common/libkogata/hashtbl.c:97-98` | `nullfs_d_create()` does not test whether the name is taken: the item is replaced and its entry stays in `items_list`. Two opens with `FM_CREATE` that race lose a file | Vfs, `former` |
| `user/nullfs.c:306` | the search in `items_list` steps with `it++` instead of `it = it->next`: an entry behind the second is looked for in memory behind the items | Vfs, `fs_delete_astray`, `stuck` |
| `user/nullfs.c:168` | `nullfs_add_node()` never drops its reference to the directory | not modelled: drivers call it when they start, and the directory stays |
| `user/vfs.c:150` | `unref_fs_node()` locks node and parent in the opposite order of `fs_walk_one()` | Vfs, `OnlyUnrefDeadlocks` |
| `fs/iso9660.c:202, 307` | a record of length 0 ends the directory, though it only fills up a block: files behind it are not found | Iso9660, `Beyond` |
| `dev/pciide.c:427` | an error between `ide_prewait_irq()` and `ide_wait_irq()` keeps the line's mutex | Ide, `abandoned` |
| `dev/pciide.c:744` | the number of blocks is cut to eight bits, the length reported is not | Ide, `numsects` |
| `dev/v86.c:96-99` | a killed caller ends its session while its call still runs: the next one may get the answer | V86, `spoilt` |
| `dev/v86.c:98` | the caller waits on itself, as the timers of `select()` do (`user/syscall.c:342`): one left over ends the wait before the BIOS has answered, and the call may answer the next session; `vesa_set_mode()` takes a mode that is set for one that is refused | V86, `early`, `spoilt`; Framebuffer, `crossed` |
| `dev/v86.c:39, 58` | a session that cannot begin keeps the mutex, and after 58 the caller stays in `v86_pagedir` | V86, `kept`, `in_v86` |
| `dev/pckbdmouse.c:48, 173` | events are lost when a buffer is full; movements of 128 or more are read as negative, packets that overflow dropped with their buttons | Input, `unknown`, `dropped`, `Misread` |
| `src/src/lib/libkogata/keyboard.c:110` | releasing one of two keys of a modifier releases it | Input, `crossed` |
| `src/src/lib/libkogata/gip.c:56-64` | a message, a reply too, is dropped when the queue is full or memory short | Gip, dropped replies |
| `src/src/lib/libkogata/mainloop.c:105-108` | `SEL_ERROR` comes before `SEL_READ`, and `on_error()` does nothing: what a peer sent before it ended is never read, and the loop spins | Gip, `gone`, `Error` |
| `user/ipc.c:218` | `channel_poll()` waits on the own side for room that the other side makes: what is queued waits for the next event | Gip, `Sleeps`; no property claims it |
| `src/src/lib/libc/stdio.c:336, 476, 502` | a part that was written is written again; seeks go on without the pending output or do not count it | Stdio, `lost` |
| `src/src/lib/libkogata/draw.c:197` | a vertical line is cut at the picture's width; copies and text left of or above their region are not cut | Draw, `Misdrawn` |
| `src/src/lib/libkogata/draw.c:402, 420` | a copy from 32 to 24 bits begins its lines at `x * 4`; one between other models draws nothing | Draw, `Misdrawn` |
| `src/src/sysbin/terminal/main.c:270, 338` | a tab goes past the last column, the cursor is kept after a change of size, an escape sequence may be longer than its buffer | Terminal, `overrun` |
| `src/src/sysbin/terminal/main.c:350-365` | a key before the first `buffer_info` is put on a screen of no size, through the null pointer `scr_chars` | Terminal, `TooEarly`, `overrun` |
| `src/src/common/libc/string.c:96` | `memmove()` to a later address copies bytes 1 to `count` instead of 0 to `count - 1` | Text, `Otherwise` |
| `src/src/common/libc/string.c:178` | the empty string is not found in an empty one | Text, `Otherwise` |
| `src/src/common/libc/printf.c:95, 123` | `%ud` writes nothing and takes no argument; `%c` ends the output | Text, `Otherwise` |
| `src/src/common/libc/printf.c:26, 169-170` | with a length of 0, `len - 1` wraps and everything is written; a `%` at the end of the format is followed by what lies behind it | Text, `Otherwise` |
| `src/src/sysbin/init/main.c:27` | spaces at the end of the command line add a pair of empty strings | Text, `Otherwise` |
| `src/src/syslua/lx/tk.lua:601-615` | `wm:remove()` redraws nothing; a window that is removed while the mouse is held on it comes back when a second button is pressed | Windows, `Gone`, `"torn"` |
| `src/src/syslua/lx/tk.lua:574` | the release of any button ends a window's move, and `left_click_valid` outlives the button: with two buttons, a widget may be clicked that was not pressed | Windows, `both`, `unsure` |

One defect is in Processes but outside its run: a killed thread's memory is freed while the task that cleans up after it is still pending (`user/process.c:211`, `core/thread.c:351-361`). When the heap
gives that memory to a new thread of another process, the task takes the one for the other and deletes a thread that runs. TLC finds this in 37 steps, as a violation of
`NoThreadOutlives`, when `MCProcesses.cfg` is given `MaxThreads = 2` and three slots. With `CleanedFirst` (section 5) conjoined to `Next`, which forbids just this, the same instance has 626,694 states and no violation;
the theorems show that it is the only way the property can fail.

Read, but outside the models: `ide_vfs_write()` passes position and count in the opposite order of `ide_write_sectors()`
(`dev/pciide.c:763, 472`); `setvbuf()` does not set `out_buf_size`; `make_key()` returns nothing for codes from 128 on, so that
half of `ctrlkeys` is not reached, and caps lock is handled only if `ralt_is_mod`; `fs_move()` within one directory takes one lock twice (`user/vfs.c:371`);
a read or write whose buffer is an absent page of the object itself waits in the fault for the lock that it holds (`user/pager.c:400, 439, 446`);
`mmap()` compares only the first address with the regions there are (`user/process.c:557`); `vfs_page_release()` tests `PTE_DIRTY` in a word whose flag is `PAGE_DIRTY` (`:231`), and `pager_do_rw()` does
not set that flag for what it writes (`:443`); a framebuffer's size is taken as pitch times width (`dev/vesa.c:497`).
In the libraries: `strcat()` begins on the last character of its destination (`src/src/common/libc/string.c:43`); `%llx` shows 32 bits.
In Lua: `pcmouse_handler` unpacks `ev` again instead of the bytes it has read (`src/src/syslua/lx/gui.lua:68`), so that drained events repeat the
first one; `tk.init()` passes on an undefined `char` (`tk.lua:229`); `tk.widget:resize()` ignores the height when there is no width (`tk.lua:144`); a box has no smallest size.

## 5. Proofs

All theorems are proved with TLAPS for every value of the constants that satisfies
the module's ASSUME, and rest on nothing else; those of ProcessesProofs have two hypotheses more, which they state, and those about
Kill one. Modules that are instantiated state their assumptions as formulas (`HandlesAssumption`, `SlabAssumption`, `FilePagerAssumption`, `V86Assumption`, `IdeAssumption`,
`FramebufferAssumption`, `InputAssumption`, `PageDirsAssumption`, `RegionAssumption`): a theorem about one of them has it as its hypothesis, and Devices, Objects, Timers and
KernelSpace assume them of their instances (`DevicesAssumption`, `ObjectsAssumption`, `TimersAssumption`, `SpaceAssumption`), which TLC evaluates in the runs. That the
parts of a module stay apart (`DevicesApart` and others) then makes each theorem about a part one about the property that the run checks: `DevicesAreExact`, `ReferencesAreExact`,
`KernelHeapIsExact`, `SleepersWake` and `KernelSpaceIsExact`.

**ThreadsProofs** (`ThreadsAssumption`: finite disjoint sets of threads, `NoThread`
outside). `TypeCorrect`, `RunQueueIsExact`, `OnlyRunnableDispatched`, `CleanupIsSafe`,
`TasksMutexExcludes`, `PendingTasksAreDue`, `QueueKeepsOrder`. The inductive invariant `IInv` adds to the
stated ones: `Control` (what a control point says of the state; without it an action
could queue a thread that already is), `Starting` (a thread between `new_thread()`
and its queueing has one owner; otherwise it could be queued twice), `Exiting` (from
the push of the cleanup task to `FINISHED` the thread holds the processor: the reason
why the worker cannot delete a thread that still runs, and exactly what the critical
section in `exit()` is for) and `CurrentRuns`. Lemmas on sequences without repetition
(`ConcatDistinct` and others) carry the run queue; one lemma (on `run_scheduler`)
serves every action that gives up the processor. `OnlyRunnableDispatched` and
`QueueKeepsOrder` are action properties proved from the same invariant: the second, that two threads that stay in
the queue keep their order, needs that the queue has no repetition, as a removal takes the first occurrence out.

`TimersAreKept` is `SleepExact` of module Sleep, and `SleepersWake` that of Timers. The invariant adds that `next_task_time` is never later than the first task, at any moment and not only when
the worker sleeps (`Early`: a push lowers it, and the worker's own look sets it to the least), that the task a worker has taken is due (`Due`), and, per thread, that the task
with the number of its present call is not due before its delay is over (`Timed`): numbers tell it from tasks that an earlier `select()` left behind,
which is why `SleepIsLong` must except `stray`. A push that finds no place in the tree lowers the time like any other and leaves its caller in `untimed`. That the worker's look finds a first task at all is the well-foundedness of numbers (`LeastNumber`).

**KillProofs** (`KillAssumption`: finitely many threads, the killer and `NoThread` are none of them). `ListIsQueue`, `NoThreadIsLost` and
`ExitIsFinal`. A list is described by the sequence of its threads (`Lists`), and a lemma for each operation of the list
says which sequence comes out. `ListIsQueue` is the refinement: RunQueueList computes the queue with `Node`, a recursive function on
numbers, and `NodeIs` proves by induction that its n-th node is the n-th thread of the sequence. The induction is `SetInduction`:
a set with 0 and with every successor has all numbers. The inductive invariant of Kill (`KillInv`) says whose list it is at every point of `enqueue_thread()` and of the kill,
where the list is in parts; it holds as long as no device interrupts between the test of `kill_thread()` and its `enqueue_thread()` (`~IrqDuringKill`), and
the run `kill_irq` shows that both theorems are false without this hypothesis.

**ChannelProofs** (`ChannelAssumption`: a ring of at least one byte, readers and
writers distinct). `ChannelTypes`, `RingIsExact`, `OneThreadInside`, `CopiesAreSafe`,
`NoWakeupLost` and `ChannelIsPipe`, the refinement of Pipe. The ring's
contents are not inductive alone, because a round copies first and moves the indices
later: `CopiesStand` says what holds in between and `LockExcludes` that one thread
only is there. `FilledSlots`, `TakenBytes` and `BeginMoves` do the index arithmetic;
in the refinement `ReadCommit` is `Pipe!Read`, `WriteCommit` is `Pipe!Write`, and
every other action is a stutter.

Its other parts are about devices; each proves a conjunct of `DevicesExact`, and `DevicesAreExact` has all of them.
- `BiosAnswers` (`V86Assumption`: `None` is no caller) is `V86Exact`. The invariant `BiosInv` adds that a caller holds the mutex from the beginning of its session to the end,
  also when it is killed in between, so that a step of one caller finds all others outside (`Alone`); and that who has started the thread has seen it wait by `v86_retval`
  before anyone resumes it (`StartIsAwaited`). Who is in `early` has left its wait by an old timer, and only for a caller that neither this nor a kill befell is the answer claimed.
- `DrivesAnswer` (`IdeAssumption`) is `DriverExact`. By `DiskInv`, `wait_irq` of a line names its holder or nobody, and the drive is busy as long as it names a reader that is
  about to sleep or sleeps: this is why the interrupt must still come. That a read is whole is a sum: the blocks a reader has and those its drive has left are those it asked
  for, modulo the width of the count. An interrupt ends the wait of the line's holder only, and the line's lock is what makes this a reader of that drive.
- `FramebufferIsExact` (`FramebufferAssumption`) is `FramebufferExact`. `FbInv` says what the pager's two loops leave between them: every page that a process has entered, or has asked
  the pager for and is about to enter, is in `stale` before the pages change (`Releasing`), also a page that a walk has looked for in the wrong process; and that as long as no change has overtaken another there is at most one under way,
  to the mode the display has (`OneChange`).
- `KeysAreKnown` and `MovesAreRead` (`InputAssumption`: scan codes are bytes, and none but the escape is sent as 0xE0) are `KeyboardExact` and `MouseExact`. What a program knows is inductive only
  together with what is on its way: of the events of a modifier in the buffer the last one is what counts (`IsLast`), after it the key whose bytes are still to interrupt (`Coming`);
  so `ModifierKnown` says it of the status only when the buffer has no such event. `Arrives` is the arithmetic of scan codes with their escape and release bits, which makes the key that
  arrives the one that was typed. For the mouse, the bytes that have interrupted and those that have not are one packet, of the last movement that is not read (`PacketIsMove`), and
  `DeltaReads` is the arithmetic of its sign and byte, for a byte of any width: a movement that fits is read as it was, or is one of `Misread`.

**GipProofs** (`GipConstants`: a channel of at least one unit, the bounds are numbers). `MessagesStayWhole` is `FramesWhole` and `RequestsAreAnswered` is `RequestsExact`. `GInv` adds to them what makes a buffer
that is being filled a part of one message (`Partial`: a third unit is only asked for when the header announces a body), that
the queues do not exceed their places, that only commands go one way and only answers the other, and that a number that was not given yet is nowhere. Lemmas about `FlattenSeq`, which the
library defines by a recursive function, rest on `JoinsExist` and `JoinsOnce`: there is such a function, and only one. `ReadTaken` and `FirstMessage` say that a buffer
that is full is the first message of the stream, `WriteKeeps` and `QueueKeeps` that writing and queueing move units without changing it, and `CountTail` and `CountSent` how
many messages have a number afterwards.

**FramesProofs** (`FramesAssumption`: a positive word size, the kernel's image within
memory, the page given back inside the image). `FramesTypes`, `SearchSkipsNothing`,
`CountIsExact`, `FramesAreExclusive`, `FailureMeansFull`. The invariant adds
`KernelMarked`: the frames of the kernel's image stay marked because no client owns
them. `FailureMeansFull` follows from `NothingSkipped` and where the hint ends.

Its second part is about Handles (`HandlesAssumption`: parent, child and worker differ, `None` is none of the handles and actors, `MaxFd` is a number):
`HandlesInvHolds` and `HandlesAreExact`, which is `HandlesExact` of module Handles, the part of Objects' property of that name that is
about descriptors and tokens. The invariant adds to the counts what a call has read that is still so (`CallInStep`): a handle read without a reference still
has the descriptor it was read from, because only the process itself closes that one, or `process_exit()` when no call is under way (`ExitAlone`); an
entry of the token table without its reference is not used and does not expire, because its maker holds the lock (`Pending`,
`PendingFew`); the two handles of a `make_channel()` differ. Each step changes each set of holders by at most one, and a lemma for each set
(`DescsAdded`, `ToksRemoved`, `CallersMove` and others) says by how much, so that the count is a sum of these.

Its third part is about SlabAlloc (`SlabAssumption`: every size has at least one object in a cache, a page holds at least two descriptors, blocks are numbered).
`HeapIsExact` states `HeapExact` and `DescriptorsExact` of that module, the two parts of Objects' property `HeapExact`. The invariant (`HeapInv`) says of the
lists that they repeat nothing, so that a list is as good as its set, and the rest of sets: `Separate`, a block is that of one cache or one region,
`Contents`, an object is free or live, `Count`, the descriptors, and `Busy`, something lives in every cache. An allocation is a chain of
steps (a descriptor, a cache, an object), and between them the heap is one that has taken descriptors it does not use yet:
`Sound(h, l, n)` counts these, so that each step of the chain, and each way it can fail, is a lemma of its own
(`DescriptorTaken`, `CacheMade`, `BlockMade`, `FailedKeeps`, `PopTakes`). `Busy` alone is broken between them, by the cache that was just
made, and `AllocKeeps` restores it: the object is taken from that cache, because no other had one. `FreeObjectKeeps` and
`FreeWholeKeeps` say that `slab_free()` always finds what it frees, where the code asserts it.

Its fourth part is about FilePager (`FilePagerAssumption`: pages of at least one unit, finitely many requests and sizes, and `None` is no page). `FilesHoldText` is `FileExact`. That
property speaks of a file up to its size, but a writer that makes the file larger makes what lies behind the end part of it. The invariant says of every unit of every page that
there is that it is the text's, or zero behind the text (`TextInPages`), and that no page begins behind the end (`PagesWithin`): this is why a truncation releases all of them, although
`pager_resize()` releases pages only when the old end lies behind the last page that the new one reaches. `CallsBytes` is the arithmetic of the pages a request touches: a unit of the request that is
within the file lies on one of them, and no page behind the end is one; `MaxSizeIs` and `PagesAre` say that there is a page for every unit of every size.

**UserMemoryProofs** (`SlotsDisjoint`, `MemoryAssumption`, `NoRegionAssumption`: the slots of a process do not overlap, an object has at least one page,
the null values are no values). `MemoryIsAccounted`, `MappingsAreFresh`, `FaultsAreExpected`, `LocksComeBack`, all from one
invariant. `FramesExact` is two facts, that a frame has one owner (`FramesOnce`) and that the references and maps are those of the regions
and descriptors there are (`MapsCounted`); neither helps without the other, since a pager may give its frames back only when no region maps them.
`NoStaleMapping` is not inductive alone either. `EntriesAgree` relates each page table entry to a region and to the pager's frame,
`RegionsPlaced` says that the regions of a process are disjoint, so that the search finds that one, and `ThreadsInStep` says what a
thread in the kernel has tested that is still true: the region that a fault has found is there and the frame it has been given is still the pager's, and the
buffer of a read or write is still mapped with the rights that were probed, which is why a copy under the object's lock never leaves by
`process_exit()`. `LockHeld` ties the lock to these threads. `FramesOnce` says
without counting what `OneOwner` says by cardinalities, which is what makes a step that moves one frame a matter of a few cases. What pages can do is grow, by a free frame that a pager gets or
that is lost (`PagesGrow`, `FrameTaken`, `FrameLost`), so that faults and reads are one case (`GrowStep`).

Its second part is about PageDirs (`PageDirsAssumption`): `DirectoriesAreExact` is `PagingExact`, the part of `RegionsExact` that is about page directories. That property
speaks of the directories there are; the invariant `TablesExact` must also speak of those being made, which `create_pagedir()` fills in while other threads add tables to
`kernel_pd`, and say that two user tables differ and that a thread which waits for a frame for a user table still has the directory it looked at (`UserMapsOwn`).
All of it holds until one of the two steps that `broken` names (section 4), after which the module follows a system no further; `PdInv` also says that a panic is not among them.

Its third part is about RegionAlloc (`RegionAssumption`): `RegionsStayWhole` states `RegionsExact`, `ListsAgree` and `DescriptorsSuffice` of that module. The lists are sequences
without repetition, and the rest is said of their sets: the free and the used regions tile the address space (`Tiles`), no two free ones touch (`Apart`), the list by size is sorted
with right `first_bigger` pointers (`Listed`), and descriptors in use and unused are as many as there are (`Keeps`). Between the calls that an allocation or a release makes of one another,
`Sound(r, S)` says this of an allocator with one more region, that of `S`, which is on no list: a lemma for each of the list operations (`RemovedIs`, `JoinedIs`, `InsertedIs`) says what it does to
the lists, and `AddIs`, `AllocIs` and `FreeIs` follow. It is not enough that the
regions fill the space: that a descriptor comes back when a page of descriptors is given back, because no frame is there for it, rests on `Apart`.

**ProcessesProofs** (`ProcessesAssumption`: a root outside the other processes, workers and threads distinct, `NoProc` outside). `ThreadsEndFirst`,
`ChildrenEndFirst` and the action property `ExitsOnce`. The model's executors have stacks of calls, since `process_exit()` calls itself for children and is
called from a kill, and so has the invariant: `Stands` says what each frame of each stack has tested or done that is still true,
`Locked` which lock it holds, `Linked` why a frame waits for the one above it, `Based` that the outermost exit is a worker's.
`Tree` and `Lives` say where processes and threads are found: a child that is alive is on its parent's list, except while its parent's exit
is about to end it, and a thread is on its process's list until an exit waits for it to finish; so what an exit finds no
more on the lists has ended. `TasksDue` says what the tasks for the workers are about. Lemmas of three kinds (what a change of a stack leaves in order, what a step leaves true of
the frames it keeps and of the rest) serve the lemma of each action. Two hypotheses say which systems the theorems are about:
- `CleanedFirst`, as `[][CleanedFirst]_vars`: the memory of a thread_t is not used again while the cleanup task of the thread that lived there is due. Any other reuse is allowed. Nothing in the code
  sees to it, and without it the code does break `NoThreadOutlives` (section 4): the theorems show that this reuse is the only way it can, for single-threaded parents.
- `SingleThreadedParents`: only a process without children has several threads, as in the runs. `include/process.h:6` supports one
  thread per process; `start_process()` sets the status of the child without a test, so that one thread of a parent could start a child that another one has just killed.

Their assumptions on the constants ask for no more than distinct names, and the run `processes` satisfies all of them and both hypotheses.

**VfsProofs** (`VfsAssumption`: finite threads and nodes, the null values are none of them, paths are sequences of names and the root is a directory;
`SubfsNotOfRoot`: no file system is made from the root of another, which would take no reference and so break the `ASSERT` of `unref_fs()`). `RefsAreExact`,
`NodesAreOnce`, `AssertsAlwaysHold`, `OtherLocksInOrder` and the action property `OnlyLateUsers`, all from one invariant. That the counts are exact and that
nothing freed is reached need each other: a node is freed when its count is 0, and a count says nothing of a node that has been freed. What links the two is where
nodes are: each in the table of its parent until it is unlinked, with the parent's path as the front of its own (`Tree`); locked by the thread that is removing it, from its last reference on,
so that no walk gets one again (`Locks`); on one stack only, and there as the first item until it is unlinked (`Stacks`). `CallsInStep` says what a
walk has found that is still true: the child it has found is in the table as long as it holds the parent's lock, and it is not above the root of the file system it
goes through. So a directory of the other file system is never the root whose last reference is dropped, and `HandlesPlaced` and `FsPlaced` say the same of handles and file
systems; by `RootKept`, who drops a reference to the root itself still has one on `main`, dropped later. `OncePerItem` is the first half of `OnceInMemory`, `LoadedByOne` says that a node under
construction has one maker, and `LookedUp`, which `OnlyLateUsers` states of the deletes, that a node in use which has the path of a `fs_delete()` came into memory after that call had looked: `seen` is what has come since. This is the second half of
`DeleteLooksFirst`; the first, that every other node in use stands for an item that the directory has, is only model-checked. For the counts, each kind of reference
is a set that a step leaves alone or changes by one member (`ChildrenMove`, `RootsMove`, `PlacesNow` and others), and `NodeBalance` and `FsBalance` add up these changes.
The order of locks follows from paths: a walk waits for a node whose path is longer than that of the one it holds, so that two walks cannot wait for each other.

The type invariants of these modules, `TasksMutex`, `DispatchOnlyRunnable`, `LockExcludes`, `NothingSkipped` and `CountExact`
are stated by theorems only and are in no run.

**Only model-checked.** Liveness under fairness (`StarvationFree`,
`ExitedIsReclaimed`, `KillTerminates`, `BytesArrive`, `WriteReturns`, `InputIsRead`) and `ENABLED`
are beyond the prover. Induction over numbers is not: `SetInduction` obtains it from a theorem on finite sets. But the library's own induction theorems take an operator as a
parameter, which none of the provers can instantiate, and a module that reaches a RECURSIVE operator has no arithmetic at all: so what Hashtbl, Btree, Iso9660, Text and the
other data structures and programs of MCKernel compute is checked on their instances only. Stdio, Draw, Terminal and Windows can be
reasoned about but are checked on their instances only, too. Of the safety properties that the runs check, these are `ContainersExact`, `ProgramsExact` and the first half of `DeleteLooksFirst`; every other one is a theorem
(those of Processes and Kill under the hypotheses named above).

## 6. Not modelled

- **Boot, GDT, debug log, random numbers**: straight-line set-up and output; what it leaves behind is the Init of the modules.
- **ELF loader**: a sequence of `mmap()`, `mmap_file()` and reads in the caller's system call, with an early return for each thing that fails and nothing freed; its effect is the start of a process in Processes.
- **Formats and layouts**: the emulation of BIOS instructions, video modes, pixels, fonts and images, keymaps, the widths of `printf`.
- **Committing and paging out** (`user/pager.c:173-225`): only a file system that can be written on a disc would use them, and this build has none.
- **Hardware**: ATA transfers (they poll, and no other thread sees them but by their interrupts), detection of drives, two drives on one channel,
  the translations that a processor keeps.
- **channel_dispose() against a writer that is still inside** (`user/ipc.c:167`) and **structures used after they are freed** in
  `process_exit()` (`user/process.c:222, 281`): what follows depends on what the heap does with the memory.
- **Processes with several threads** outside Processes: `include/process.h:6` says that one is supported; regions that overlap, two threads in `munmap()`, and handles
  used without a reference come with them.
- **fs_move()**: its moves that get past its locks are refused by nullfs, and iso9660 has none. The drivers' registration changes nothing that others count on.
- **init, login, shell, lx** apart from the command line: sequential programs that start others. **Boxes with `constrain_size`**, images and text of `tk.lua`: what they add is how a widget looks.
- **Lua and stb**: third-party code, about half of the lines of the repository.
