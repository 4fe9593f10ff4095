------------------------------ MODULE Processes ------------------------------
(***************************************************************************)
(* The life of processes: src/src/kernel/user/process.c with the system    *)
(* calls that create, start, wait for, kill and end processes, the worker  *)
(* threads that carry out exits, and the killing of threads.               *)
(*                                                                         *)
(* An executor is a worker or a thread of a process (its thread_t: a slot  *)
(* of kernel memory, free when no thread lives there).  What an executor   *)
(* is doing in the kernel is a stack of frames, each with the point where  *)
(* it is (at) and its arguments; a thread with an empty stack runs user    *)
(* code.  A step is what happens between two points where another executor *)
(* may run and see a difference.                                           *)
(*                                                                         *)
(* Abstractions.  Scheduling is any interleaving of the executors' steps   *)
(* (see Threads for the scheduler).  The tree of processes is given: a     *)
(* process is created at most once, by its parent.  Files, memory and      *)
(* file systems of a process are one thing, released at once: down holds   *)
(* the processes whose resources have been.  The lists p->children and     *)
(* p->threads are sets.                                                    *)
(***************************************************************************)
EXTENDS Integers, Sequences

CONSTANTS
  Procs, Root,      \* the processes, and init, that never exits
  Parent,           \* the parent of each process in Procs
  Slots, RootSlot,  \* memory for thread_t's, and the one of init's thread
  Workers,
  Syscalls,         \* the system calls that the threads of each process make
  Threaded,         \* the processes that make more than one thread
  MaxThreads,       \* bound on the threads ever created in a slot
  NoProc            \* no process, no thread, no executor

All == Procs \cup {Root}
Execs == Workers \cup Slots
Alive == {"loading", "running"}

Calls == {"exit", "exit_thread", "mmap", "new_thread", "new_proc", "exec",
          "wait", "poll", "wait_any", "poll_any", "kill"}

ASSUME ProcessesAssumption ==
  /\ Parent \in [Procs -> All]
  /\ Root \notin Procs
  /\ RootSlot \in Slots
  /\ Workers \cap Slots = {}
  /\ MaxThreads \in Nat \ {0}
  /\ Threaded \subseteq Procs
  /\ Syscalls \in [All -> SUBSET Calls]
  /\ NoProc \notin All \cup Execs

VARIABLES
  status,       \* p->status, "none" before the process exists
  children,     \* p->children
  threads,      \* p->threads
  lock,         \* p->lock: who holds it
  stacked,      \* the processes with a user stack mapped
  down,         \* the processes whose resources have been released
  freed,        \* the processes whose process_t has been freed
  tstate,       \* t->state of each slot, "free" when there is no thread
  tproc,        \* t->proc: what the memory holds, also when it is free
  tgen,         \* how many threads have lived in each slot
  begun,        \* history: the processes that have had a thread
  must_exit,    \* t->must_exit
  waiting_on,   \* t->waiting_on
  tasks,        \* the tasks for the workers
  stack         \* what each executor is doing

procVars == <<status, children, threads, stacked, down, freed>>
threadVars == <<tstate, tproc, tgen, begun, must_exit, waiting_on>>
vars == <<procVars, lock, threadVars, tasks, stack>>

Frame(at, p, x) == [at |-> at, p |-> p, x |-> x]
Task(kind, s, p) == [kind |-> kind, t |-> s, p |-> p, gen |-> tgen[s]]

Init ==
  /\ status = [p \in All |-> IF p = Root THEN "running" ELSE "none"]
  /\ children = [p \in All |-> {}]
  /\ threads = [p \in All |-> IF p = Root THEN {RootSlot} ELSE {}]
  /\ lock = [p \in All |-> NoProc]
  /\ stacked = {} /\ down = {} /\ freed = {}
  /\ tstate = [s \in Slots |-> IF s = RootSlot THEN "running" ELSE "free"]
  /\ tproc = [s \in Slots |-> IF s = RootSlot THEN Root ELSE NoProc]
  /\ tgen = [s \in Slots |-> IF s = RootSlot THEN 1 ELSE 0]
  /\ begun = {Root}
  /\ must_exit = [s \in Slots |-> FALSE]
  /\ waiting_on = [s \in Slots |-> <<>>]
  /\ tasks = {}
  /\ stack = [e \in Execs |-> <<>>]

-----------------------------------------------------------------------------
(***************************************************************************)
(* The stack.                                                              *)
(***************************************************************************)

CanRun(e) == e \in Slots => tstate[e] = "running"
At(e, point) == CanRun(e) /\ stack[e] # <<>> /\ Head(stack[e]).at = point
Top(e) == Head(stack[e])

\* e goes on in the frames fs, instead of its innermost one
Becomes(e, fs) == stack' = [stack EXCEPT ![e] = fs \o Tail(@)]

\* The innermost call returns; a thread that goes back to user mode exits
\* there if it must
Return(e) ==
  IF e \in Slots /\ Len(stack[e]) = 1 /\ must_exit[e]
  THEN Becomes(e, <<Frame("quit", tproc[e], "exit_thread")>>)
  ELSE Becomes(e, <<>>)

GoWith(e, point, x) == Becomes(e, <<Frame(point, Top(e).p, x)>>)
GoTo(e, point) == GoWith(e, point, Top(e).x)

Free(p) == lock[p] = NoProc
Take(e, p) == Free(p) /\ lock' = [lock EXCEPT ![p] = e]
Release(p) == lock' = [lock EXCEPT ![p] = NoProc]

-----------------------------------------------------------------------------
(***************************************************************************)
(* System calls.                                                           *)
(***************************************************************************)

\* Thread s, in user mode, makes a system call on its child c, or on itself
Syscall(s, call, c) ==
  /\ tstate[s] = "running"
  /\ stack[s] = <<>>
  /\ call \in Syscalls[tproc[s]]
  /\ LET me == tproc[s]
     IN  CASE call = "exit"        -> me # Root /\ c = me
           [] call = "exit_thread" -> me # Root /\ c = me
           [] call = "mmap"        -> c = me
           [] call = "new_thread"  -> me \in Threaded /\ c = me
           [] call = "new_proc"    -> c \in Procs /\ Parent[c] = me
                                      /\ status[c] = "none"
           [] call = "wait_any"    -> c = me
           [] call = "poll_any"    -> c = me
           [] OTHER                -> c \in Procs /\ Parent[c] = me
                                      /\ status[c] # "none"
  /\ stack' = [stack EXCEPT ![s] =
       CASE call \in {"exit", "exit_thread"} -> <<Frame("quit", c, call)>>
         [] call = "mmap"       -> <<Frame("sys", c, NoProc)>>
         [] call = "new_thread" -> <<Frame("tadd", c, "thread")>>
         [] call = "new_proc"   -> <<Frame("addchild", c, NoProc)>>
         [] call = "wait_any"   -> <<Frame("wlock", NoProc, TRUE)>>
         [] call = "poll_any"   -> <<Frame("wlock", NoProc, FALSE)>>
         [] OTHER               -> <<Frame("find", c, call)>>]
  /\ tasks' = IF call = "exit" THEN tasks \cup {Task("exit", s, c)} ELSE tasks
  /\ UNCHANGED <<procVars, lock, threadVars>>

\* A thread that must exit does, at the end of an interrupt that it takes in
\* user mode
maybe_exit(s) ==
  /\ tstate[s] = "running"
  /\ stack[s] = <<>>
  /\ must_exit[s]
  /\ stack' = [stack EXCEPT ![s] = <<Frame("quit", tproc[s], "exit_thread")>>]
  /\ UNCHANGED <<procVars, lock, threadVars, tasks>>

\* exit()
Quit(s) ==
  /\ At(s, "quit")
  /\ tasks' = tasks \cup {Task("cleanup", s, NoProc)}
  /\ tstate' = [tstate EXCEPT ![s] = "finished"]
  /\ stack' = [stack EXCEPT ![s] = <<>>]
  /\ UNCHANGED <<procVars, lock, tproc, tgen, begun, must_exit, waiting_on>>

\* mmap(), proc_add_fd(), a page fault, ...: what works under the lock of the
\* caller's process
SysLock(s) ==
  /\ At(s, "sys")
  /\ Take(s, Top(s).p)
  /\ GoTo(s, "sysbody")
  /\ UNCHANGED <<procVars, threadVars, tasks>>

SysUnlock(s) ==
  /\ At(s, "sysbody")
  /\ Release(Top(s).p)
  /\ Return(s)
  /\ UNCHANGED <<procVars, threadVars, tasks>>

\* process_find_child() and what the system call does with the child
process_find_child(s) ==
  /\ At(s, "find")
  /\ LET c == Top(s).p
         par == tproc[s]
         call == Top(s).x
     IN  /\ Free(par)
         /\ \/ /\ c \notin children[par]
               /\ Return(s)
            \/ /\ c \in children[par]
               /\ Becomes(s,
                    CASE call = "exec" -> <<Frame("start", c, NoProc)>>
                      [] call = "wait" -> <<Frame("wlock", c, TRUE)>>
                      [] call = "poll" -> <<Frame("wlock", c, FALSE)>>
                      [] call = "kill" -> <<Frame("xlock", c, "killed"),
                                            Frame("wlock", c, TRUE)>>)
  /\ UNCHANGED <<procVars, lock, threadVars, tasks>>

\* new_process()
new_process(s) ==
  /\ At(s, "addchild")
  /\ LET c == Top(s).p
     IN  /\ Free(Parent[c])
         /\ status' = [status EXCEPT ![c] = "loading"]
         /\ children' = [children EXCEPT ![Parent[c]] = @ \cup {c}]
  /\ Return(s)
  /\ UNCHANGED <<threads, stacked, down, freed, lock, threadVars, tasks>>

\* start_process(): mmap() of the stack, which fails where there is one already
\* or the regions are gone.  (elf_load() before it would already fault on a process
\* that is down; the model lets the call fail.)
start_mmap(s) ==
  /\ At(s, "start")
  /\ LET c == Top(s).p
     IN  /\ Free(c)
         /\ IF c \in stacked \cup down THEN Return(s) ELSE GoTo(s, "run")
         /\ stacked' = IF c \in down THEN stacked ELSE stacked \cup {c}
  /\ UNCHANGED <<status, children, threads, down, freed, lock, threadVars, tasks>>

\* start_process(): p->status = PS_RUNNING
start_process(s) ==
  /\ At(s, "run")
  /\ status' = [status EXCEPT ![Top(s).p] = "running"]
  /\ GoWith(s, "tadd", "start")
  /\ UNCHANGED <<children, threads, stacked, down, freed, lock, threadVars, tasks>>

\* process_new_thread(): a new thread_t n, in the list
process_new_thread(s, n) ==
  /\ At(s, "tadd")
  /\ Free(Top(s).p)
  /\ tstate[n] = "free" /\ tgen[n] < MaxThreads
  /\ tstate' = [tstate EXCEPT ![n] = "loading"]
  /\ tproc' = [tproc EXCEPT ![n] = Top(s).p]
  /\ tgen' = [tgen EXCEPT ![n] = @ + 1]
  /\ begun' = begun \cup {Top(s).p}
  /\ must_exit' = [must_exit EXCEPT ![n] = FALSE]
  /\ threads' = [threads EXCEPT ![Top(s).p] = @ \cup {n}]
  /\ GoWith(s, "tgo", n)
  /\ UNCHANGED <<status, children, stacked, down, freed, lock, waiting_on, tasks>>

\* process_new_thread() without the memory for a thread; start_process() then
\* unmaps the stack, and leaves the status
new_thread_fails(s) ==
  /\ At(s, "tadd")
  /\ \/ /\ Top(s).x = "thread"
        /\ UNCHANGED stacked
     \/ /\ Top(s).x = "start"
        /\ Free(Top(s).p)
        /\ stacked' = stacked \ {Top(s).p}
  /\ Return(s)
  /\ UNCHANGED <<status, children, threads, down, freed, lock, threadVars, tasks>>

\* process_new_thread(): start_thread()
start_thread(s) ==
  /\ At(s, "tgo")
  /\ tstate' = [tstate EXCEPT ![Top(s).x] = "running"]
  /\ Return(s)
  /\ UNCHANGED <<procVars, lock, tproc, tgen, begun, must_exit, waiting_on, tasks>>

-----------------------------------------------------------------------------
(***************************************************************************)
(* process_wait(), process_wait_any_child().  p is the child, or NoProc    *)
(* when any will do, and x whether to wait.                                *)
(***************************************************************************)

WaitLock(s) ==
  /\ At(s, "wlock")
  /\ Take(s, tproc[s])
  /\ GoTo(s, "wtest")
  /\ UNCHANGED <<procVars, threadVars, tasks>>

\* Among the children, those the call is about
Candidates(s) ==
  {c \in children[tproc[s]] : Top(s).p \in {c, NoProc}}

\* The child has exited: go on to process_get_status()
WaitFound(s, c) ==
  /\ At(s, "wtest")
  /\ c \in Candidates(s)
  /\ status[c] \notin Alive
  /\ Becomes(s, <<Frame("wreap", c, Top(s).x)>>)
  /\ UNCHANGED <<procVars, lock, threadVars, tasks>>

\* There is nothing to wait for, or the call is not to wait
WaitNone(s) ==
  /\ At(s, "wtest")
  /\ \A c \in Candidates(s) : status[c] \in Alive
  /\ \/ Top(s).p # NoProc /\ Candidates(s) = {}
     \/ ~ Top(s).x
  /\ Release(tproc[s])
  /\ Return(s)
  /\ UNCHANGED <<procVars, threadVars, tasks>>

\* Still alive: go on to wait_on()
WaitDecide(s) ==
  /\ At(s, "wtest")
  /\ \A c \in Candidates(s) : status[c] \in Alive
  /\ Top(s).x
  /\ Top(s).p # NoProc => Candidates(s) # {}
  /\ GoTo(s, "wsleep")
  /\ UNCHANGED <<procVars, lock, threadVars, tasks>>

\* process_get_status(), which locks the child; remove it from the list, free it
Reap(s) ==
  /\ At(s, "wreap")
  /\ Free(Top(s).p)
  /\ children' = [children EXCEPT ![tproc[s]] = @ \ {Top(s).p}]
  /\ freed' = freed \cup {Top(s).p}
  /\ Release(tproc[s])
  /\ Return(s)
  /\ UNCHANGED <<status, threads, stacked, down, threadVars, tasks>>

\* enter_critical(CL_NOSWITCH), mutex_unlock(&par->lock), wait_on()
WaitSleep(s) ==
  /\ At(s, "wsleep")
  /\ Release(tproc[s])
  /\ tstate' = [tstate EXCEPT ![s] = "paused"]
  /\ waiting_on' = [waiting_on EXCEPT ![s] =
       IF Top(s).p = NoProc THEN <<"children", tproc[s]>> ELSE <<"proc", Top(s).p>>]
  /\ GoTo(s, "woken")
  /\ UNCHANGED <<procVars, tproc, tgen, begun, must_exit, tasks>>

\* wait_on() returns
WaitWoken(s) ==
  /\ At(s, "woken")
  /\ IF must_exit[s] THEN Return(s) ELSE GoTo(s, "wlock")
  /\ waiting_on' = [waiting_on EXCEPT ![s] = <<>>]
  /\ UNCHANGED <<procVars, lock, tstate, tproc, tgen, begun, must_exit, tasks>>

-----------------------------------------------------------------------------
(***************************************************************************)
(* process_exit().                                                         *)
(***************************************************************************)

\* ExitLock without the test
ExitLock_Again(e) ==
  /\ At(e, "xlock")
  /\ Take(e, Top(e).p)
  /\ status' = [status EXCEPT ![Top(e).p] = Top(e).x]
  /\ GoTo(e, "xthreads")
  /\ UNCHANGED <<children, threads, stacked, down, freed, threadVars, tasks>>

\* Lock the process; return if it has exited before
ExitLock(e) ==
  /\ At(e, "xlock")
  /\ LET p == Top(e).p
     IN  /\ Free(p)
         /\ \/ /\ status[p] \notin Alive
               /\ Return(e)
               /\ UNCHANGED <<status, lock>>
            \/ /\ status[p] \in Alive
               /\ Take(e, p)
               /\ status' = [status EXCEPT ![p] = Top(e).x]
               /\ GoTo(e, "xthreads")
  /\ UNCHANGED <<children, threads, stacked, down, freed, threadVars, tasks>>

\* The next thread: kill_thread() marks it
ExitThread(e, t) ==
  /\ At(e, "xthreads")
  /\ t \in threads[Top(e).p]
  /\ threads' = [threads EXCEPT ![Top(e).p] = @ \ {t}]
  /\ must_exit' = [must_exit EXCEPT ![t] = TRUE]
  /\ GoWith(e, "xkill", t)
  /\ UNCHANGED <<status, children, stacked, down, freed, lock, tstate, tproc, tgen, begun,
                 waiting_on, tasks>>

ExitThreadsDone(e) ==
  /\ At(e, "xthreads")
  /\ threads[Top(e).p] = {}
  /\ GoTo(e, "xchildren")
  /\ UNCHANGED <<procVars, lock, threadVars, tasks>>

\* kill_thread() wakes a thread that sleeps
KillWakes(e) ==
  /\ At(e, "xkill")
  /\ tstate[Top(e).x] = "paused"
  /\ tstate' = [tstate EXCEPT ![Top(e).x] = "running"]
  /\ UNCHANGED <<procVars, lock, tproc, tgen, begun, must_exit, waiting_on, tasks,
                 stack>>

\* kill_thread() that does not wait for the thread to finish
KillDone_AtOnce(e) ==
  /\ At(e, "xkill")
  /\ GoWith(e, "xthreads", NoProc)
  /\ UNCHANGED <<procVars, lock, threadVars, tasks>>

\* kill_thread() returns when the thread has finished; delete_thread()
KillDone(e) ==
  /\ At(e, "xkill")
  /\ tstate[Top(e).x] = "finished"
  /\ tstate' = [tstate EXCEPT ![Top(e).x] = "free"]
  /\ GoWith(e, "xthreads", NoProc)
  /\ UNCHANGED <<procVars, lock, tproc, tgen, begun, must_exit, waiting_on, tasks>>

\* ExitChild that only ends the children that have been started
ExitChild_RunningOnly(e, c) ==
  /\ At(e, "xchildren")
  /\ c \in children[Top(e).p]
  /\ children' = [children EXCEPT ![Top(e).p] = @ \ {c}]
  /\ LET after == Frame("xfree", Top(e).p, c)
     IN  IF status[c] = "running"
         THEN Becomes(e, <<Frame("xlock", c, "killed"), after>>)
         ELSE Becomes(e, <<after>>)
  /\ UNCHANGED <<status, threads, stacked, down, freed, lock, threadVars, tasks>>

\* The next child: process_exit() on it if it is alive, then free()
ExitChild(e, c) ==
  /\ At(e, "xchildren")
  /\ c \in children[Top(e).p]
  /\ children' = [children EXCEPT ![Top(e).p] = @ \ {c}]
  /\ LET after == Frame("xfree", Top(e).p, c)
     IN  IF status[c] \in Alive
         THEN Becomes(e, <<Frame("xlock", c, "killed"), after>>)
         ELSE Becomes(e, <<after>>)
  /\ UNCHANGED <<status, threads, stacked, down, freed, lock, threadVars, tasks>>

ExitFree(e) ==
  /\ At(e, "xfree")
  /\ freed' = freed \cup {Top(e).x}
  /\ GoWith(e, "xchildren", NoProc)
  /\ UNCHANGED <<status, children, threads, stacked, down, lock, threadVars, tasks>>

\* No children left: files, memory, file systems and page directory
ExitRelease(e) ==
  /\ At(e, "xchildren")
  /\ children[Top(e).p] = {}
  /\ down' = down \cup {Top(e).p}
  /\ stacked' = stacked \ {Top(e).p}
  /\ GoTo(e, "xnotify")
  /\ UNCHANGED <<status, children, threads, freed, lock, threadVars, tasks>>

\* Notify the parent, if it is running, and unlock
ExitNotify(e) ==
  /\ At(e, "xnotify")
  /\ LET p == Top(e).p
         woken == {s \in Slots :
                     /\ status[Parent[p]] = "running"
                     /\ tstate[s] = "paused"
                     /\ waiting_on[s] \in {<<"children", Parent[p]>>, <<"proc", p>>}}
     IN  /\ tstate' = [s \in Slots |-> IF s \in woken THEN "running" ELSE tstate[s]]
         /\ Release(p)
  /\ Return(e)
  /\ UNCHANGED <<procVars, tproc, tgen, begun, must_exit, waiting_on, tasks>>

-----------------------------------------------------------------------------
(***************************************************************************)
(* The workers.                                                            *)
(***************************************************************************)

\* A worker takes a task: current_process_exit_task() or exit_cleanup_task()
TakeTask(w, k) ==
  /\ stack[w] = <<>>
  /\ k \in tasks
  /\ tasks' = tasks \ {k}
  /\ stack' = [stack EXCEPT ![w] =
       IF k.kind = "exit" THEN <<Frame("xlock", k.p, "finished")>>
       ELSE <<Frame("cleanup", NoProc, k.t)>>]
  /\ UNCHANGED <<procVars, lock, threadVars>>

\* exit_cleanup_task() finds the process in the thread_t;
\* process_thread_exited() looks at its status
CleanupBegin(w) ==
  /\ At(w, "cleanup")
  /\ LET p == tproc[Top(w).x]
     IN  IF status[p] # "running" THEN Return(w)
         ELSE Becomes(w, <<Frame("cleanlock", p, Top(w).x)>>)
  /\ UNCHANGED <<procVars, lock, threadVars, tasks>>

\* process_thread_exited(): under the lock, take the thread off the list and
\* delete it; the last one ends the process
process_thread_exited(w) ==
  /\ At(w, "cleanlock")
  /\ LET p == Top(w).p
         t == Top(w).x
     IN  /\ Free(p)
         /\ \/ /\ status[p] # "running"
               /\ Return(w)
               /\ UNCHANGED <<threads, tstate>>
            \/ /\ status[p] = "running"
               /\ threads' = [threads EXCEPT ![p] = @ \ {t}]
               /\ tstate' = [tstate EXCEPT ![t] = "free"]
               /\ IF threads[p] \ {t} = {}
                  THEN Becomes(w, <<Frame("xlock", p, "finished")>>)
                  ELSE Return(w)
  /\ UNCHANGED <<status, children, stacked, down, freed, lock, tproc, tgen, begun, must_exit,
                 waiting_on, tasks>>

-----------------------------------------------------------------------------
\* The steps of s in a system call
ThreadStep(s) ==
  \/ maybe_exit(s)
  \/ Quit(s)
  \/ SysLock(s)
  \/ SysUnlock(s)
  \/ process_find_child(s)
  \/ new_process(s)
  \/ start_mmap(s)
  \/ start_process(s)
  \/ \E n \in Slots : process_new_thread(s, n)
  \/ new_thread_fails(s)
  \/ start_thread(s)
  \/ WaitLock(s)
  \/ \E c \in Procs : WaitFound(s, c)
  \/ WaitNone(s)
  \/ WaitDecide(s)
  \/ Reap(s)
  \/ WaitSleep(s)
  \/ WaitWoken(s)

\* The steps of an executor in process_exit()
ExitStep(e) ==
  \/ ExitLock(e)
  \/ \E t \in Slots : ExitThread(e, t)
  \/ ExitThreadsDone(e)
  \/ KillWakes(e)
  \/ KillDone(e)
  \/ \E c \in Procs : ExitChild(e, c)
  \/ ExitFree(e)
  \/ ExitRelease(e)
  \/ ExitNotify(e)

\* The steps of a worker in its other tasks
WorkerStep(w) ==
  \/ \E k \in tasks : TakeTask(w, k)
  \/ CleanupBegin(w)
  \/ process_thread_exited(w)

Next ==
  \/ \E s \in Slots, call \in Calls, c \in All : Syscall(s, call, c)
  \/ \E s \in Slots : ThreadStep(s)
  \/ \E e \in Execs : ExitStep(e)
  \/ \E w \in Workers : WorkerStep(w)

Spec == Init /\ [][Next]_vars

(***************************************************************************)
(* Fairness.  A thread that can always go on is dispatched again and again *)
(* (StarvationFree of Threads) and goes on, and the workers take the tasks *)
(* that are due (ExitedIsReclaimed of Threads).  Nothing makes a process   *)
(* call the kernel.                                                        *)
(***************************************************************************)
Fairness ==
  /\ \A s \in Slots : WF_vars(ThreadStep(s))
  /\ \A e \in Execs : WF_vars(ExitStep(e))
  /\ \A w \in Workers : WF_vars(WorkerStep(w))

FairSpec == Spec /\ Fairness

-----------------------------------------------------------------------------
(***************************************************************************)
(* Properties.                                                             *)
(***************************************************************************)

Exited(p) == status[p] \in {"finished", "killed"}

\* The resources of a process, its page directory among them, are released when
\* it has no thread any more, and no thread_t is left behind.
NoThreadOutlives ==
  \A s \in Slots : tproc[s] \in down => tstate[s] = "free"

\* A process that has exited stays so, with the status it exited with: it is
\* not started, killed or torn down again.
ExitIsFinal ==
  [][\A p \in Procs : Exited(p) => status'[p] = status[p]]_vars

\* "When a process exits, if it has living children then they are terminated
\* too" (process.h): once its resources are released none of them is alive.
NoOrphanAlive ==
  \A c \in Procs : Parent[c] \in down => status[c] \notin Alive

\* A process that exits has its resources released.
ExitCompletes == \A p \in Procs : Exited(p) ~> p \in down

\* A thread that waits for a child to exit comes back when the child has.
WaitReturns ==
  \A s \in Slots, p \in Procs :
    tstate[s] = "paused" /\ waiting_on[s] = <<"proc", p>> /\ p \in down
      ~> tstate[s] # "paused"
=============================================================================
