------------------------------- MODULE Threads -------------------------------
(***************************************************************************)
(* The kogata thread scheduler: src/src/kernel/core/thread.c, with the     *)
(* interrupt entry of core/idt.c, the worker threads of core/worker.c and  *)
(* the spinning mutex of common/libkogata/mutex.c.                         *)
(*                                                                         *)
(* There is one processor.  A step is taken either by current_thread or by *)
(* an interrupt handler, which runs to completion (idt_irq_handler raises  *)
(* the level to CL_EXCL) and only while interrupts are on.  A thread is    *)
(* preempted only by the timer and only at level CL_USER; everywhere else  *)
(* it gives the processor up itself, in yield(), wait_on() or exit().      *)
(*                                                                         *)
(* Clients are stand-alone threads (t->proc = 0) that make the kernel's    *)
(* calls in any order.  kill_thread() is in module Kill, the threads of    *)
(* processes in module Processes.                                          *)
(*                                                                         *)
(* Abstractions.  The run queue, a list linked through next_in_queue, is a *)
(* sequence; RunQueueList shows that the links implement it.  The list of  *)
(* waiters is the set of threads that wait on something: it only decides   *)
(* in which order one resume_on() enqueues several threads, which is left  *)
(* open.  The tasks of the worker threads, a tree ordered by due time, are *)
(* a set: every task here is due at once.  Time is the bit                 *)
(* "next_task_time <= time".                                               *)
(***************************************************************************)
EXTENDS Integers, Sequences, FiniteSets, Functions

CONSTANTS
  Clients,    \* thread_t slots for ordinary threads
  Workers,    \* the worker threads
  Objs,       \* addresses clients wait on (buffers, channels, processes)
  IrqObjs,    \* addresses that device interrupt handlers resume
  NoThread    \* the null thread_t*

Threads == Clients \cup Workers
WaitObjs == Objs \cup Workers

ASSUME ThreadsAssumption ==
  /\ IsFiniteSet(Clients) /\ IsFiniteSet(Workers)
  /\ Clients \cap Workers = {}
  /\ NoThread \notin Threads
  /\ Objs \cap Workers = {}
  /\ IrqObjs \subseteq Objs

\* Critical levels (thread.h)
CL_USER     == 0
CL_NOSWITCH == 1
CL_NOINT    == 2
CL_EXCL     == 3
Levels == CL_USER .. CL_EXCL

\* Thread states (thread.h); UNUSED: no thread_t is allocated in this slot
States == {"UNUSED", "LOADING", "RUNNING", "PAUSED", "FINISHED"}

(***************************************************************************)
(* Control points.  "run": code of the thread outside the calls modelled.  *)
(***************************************************************************)
ClientPCs == {"none", "begin", "run", "start", "start_enq", "asleep",
              "exit_lock", "exit_push", "exit_finish", "exit_yield"}
WorkerPCs == {"begin", "w_lock", "w_take", "w_do", "w_wait", "asleep"}

VARIABLES
  current,         \* current_thread
  queue,           \* the run queue, first to last
  state,           \* t->state
  critical_level,  \* t->critical_level
  waiting_on,      \* t->waiting_on: {} when t is not on the list of waiters
  pc,              \* where t is
  saved,           \* the local st of the critical section t is in
  arg,             \* the thread_t* local of t: thread being started, next_task
  tasks,           \* pending exit_cleanup_task tasks, by thread
  tasks_mutex,     \* tasks_mutex is locked
  due,             \* next_task_time <= time
  unpushed         \* history: the threads of which no task will clean up

vars == <<current, queue, state, critical_level, waiting_on, pc, saved, arg,
          tasks, tasks_mutex, due, unpushed>>

TypeOK ==
  /\ current \in Threads \cup {NoThread}
  /\ queue \in Seq(Threads)
  /\ state \in [Threads -> States]
  /\ critical_level \in [Threads -> Levels]
  /\ waiting_on \in [Threads -> SUBSET WaitObjs]
  /\ pc \in [Threads -> ClientPCs \cup WorkerPCs]
  /\ saved \in [Threads -> Levels]
  /\ arg \in [Threads -> Threads \cup {NoThread}]
  /\ tasks \in SUBSET Clients
  /\ tasks_mutex \in BOOLEAN
  /\ due \in BOOLEAN
  /\ unpushed \in SUBSET Clients

-----------------------------------------------------------------------------
(***************************************************************************)
(* Helpers shared by the actions.                                          *)
(***************************************************************************)

Set(f, t, v) == [f EXCEPT ![t] = v]

\* t runs kernel or user code at point p
At(t, p) == current = t /\ pc[t] = p

\* IF is set: enter_critical and exit_critical keep it in step with the level
InterruptsOn ==
  current # NoThread => critical_level[current] < CL_NOINT

\* Variants of run_scheduler() that lose one of its details: the end of the queue the thread goes to, the end the next comes from
run_scheduler_Front(q, st) ==
  LET q1 == IF current # NoThread /\ st[current] = "RUNNING"
            THEN <<current>> \o q ELSE q
  IN  IF q1 = <<>>
      THEN current' = NoThread /\ queue' = <<>>
      ELSE current' = Head(q1) /\ queue' = Tail(q1)

run_scheduler_Last(q, st) ==
  LET q1 == IF current # NoThread /\ st[current] = "RUNNING"
            THEN <<current>> \o q ELSE q
  IN  IF q1 = <<>>
      THEN current' = NoThread /\ queue' = <<>>
      ELSE current' = q1[Len(q1)] /\ queue' = SubSeq(q1, 1, Len(q1) - 1)

\* run_scheduler(): put the current thread back at the end of the queue if it
\* still runs, then take the first thread, or idle until an interrupt.
run_scheduler(q, st) ==
  LET q1 == IF current # NoThread /\ st[current] = "RUNNING"
            THEN Append(q, current) ELSE q
  IN  IF q1 = <<>>
      THEN current' = NoThread /\ queue' = <<>>
      ELSE current' = Head(q1) /\ queue' = Tail(q1)

\* Woken without the test of the state
Woken_AnyState(x) == {t \in Threads : x \in waiting_on[t]}

\* The threads that resume_on(x) finds paused
Woken(x) == {t \in Threads : x \in waiting_on[t] /\ state[t] = "PAUSED"}

\* The orders in which the threads of W can be listed
Orders(W) ==
  {p \in [1 .. Cardinality(W) -> W] : IsInjective(p) /\ Range(p) = W}

\* Every thread of W becomes RUNNING
Running(W) == [t \in Threads |-> IF t \in W THEN "RUNNING" ELSE state[t]]

-----------------------------------------------------------------------------
(***************************************************************************)
(* Thread creation and the calls every thread may make.                    *)
(***************************************************************************)

\* run_scheduler() when there was nothing to run: the loop after hlt
Dispatch ==
  /\ current = NoThread
  /\ queue # <<>>
  /\ run_scheduler(queue, state)
  /\ UNCHANGED <<state, critical_level, waiting_on, pc, saved, arg, tasks,
                 tasks_mutex, due, unpushed>>

\* run_thread(): leave the level the thread was created at, call entry()
run_thread(t) ==
  /\ At(t, "begin")
  /\ critical_level' = Set(critical_level, t, CL_USER)
  /\ pc' = Set(pc, t, IF t \in Workers THEN "w_lock" ELSE "run")
  /\ UNCHANGED <<current, queue, state, waiting_on, saved, arg, tasks,
                 tasks_mutex, due, unpushed>>

\* new_thread(): u is a thread_t that is not allocated
new_thread(t, u) ==
  /\ At(t, "run")
  /\ state[u] = "UNUSED"
  /\ state' = Set(state, u, "LOADING")
  /\ critical_level' = Set(critical_level, u, CL_EXCL)
  /\ waiting_on' = Set(waiting_on, u, {})
  /\ pc' = [pc EXCEPT ![u] = "begin", ![t] = "start"]
  /\ arg' = Set(arg, t, u)
  /\ UNCHANGED <<current, queue, saved, tasks, tasks_mutex, due, unpushed>>

\* start_thread(): the state is set with interrupts as the caller has them...
start_thread(t) ==
  /\ At(t, "start")
  /\ state' = Set(state, arg[t], "RUNNING")
  /\ pc' = Set(pc, t, "start_enq")
  /\ UNCHANGED <<current, queue, critical_level, waiting_on, saved, arg,
                 tasks, tasks_mutex, due, unpushed>>

\* ...and the thread is queued, first, with interrupts off
start_enqueue(t) ==
  /\ At(t, "start_enq")
  /\ queue' = <<arg[t]>> \o queue
  /\ arg' = Set(arg, t, NoThread)
  /\ pc' = Set(pc, t, "run")
  /\ UNCHANGED <<current, state, critical_level, waiting_on, saved, tasks,
                 tasks_mutex, due, unpushed>>

\* yield()
yield(t) ==
  /\ At(t, "run")
  /\ critical_level[t] # CL_EXCL
  /\ run_scheduler(queue, state)
  /\ UNCHANGED <<state, critical_level, waiting_on, pc, saved, arg, tasks,
                 tasks_mutex, due, unpushed>>

\* enter_critical(level)
enter_critical(t, level) ==
  /\ At(t, "run")
  /\ critical_level[t] = CL_USER
  /\ critical_level' = Set(critical_level, t, level)
  /\ UNCHANGED <<current, queue, state, waiting_on, pc, saved, arg, tasks,
                 tasks_mutex, due, unpushed>>

\* exit_critical(), back to the level enter_critical(t, level) left
exit_critical(t) ==
  /\ At(t, "run")
  /\ critical_level[t] > CL_USER
  /\ critical_level' = Set(critical_level, t, CL_USER)
  /\ UNCHANGED <<current, queue, state, waiting_on, pc, saved, arg, tasks,
                 tasks_mutex, due, unpushed>>

\* The first half of wait_on_many(): join the waiters and leave the processor
GoToSleep(t, xs) ==
  /\ saved' = Set(saved, t, critical_level[t])
  /\ critical_level' = Set(critical_level, t, CL_NOINT)
  /\ waiting_on' = Set(waiting_on, t, xs)
  /\ state' = Set(state, t, "PAUSED")
  /\ pc' = Set(pc, t, "asleep")
  /\ run_scheduler(queue, state')

wait_on_many(t, xs) ==
  /\ At(t, "run")
  /\ critical_level[t] # CL_EXCL
  /\ xs # {}
  /\ GoToSleep(t, xs)
  /\ UNCHANGED <<arg, tasks, tasks_mutex, due, unpushed>>

\* The second half of wait_on_many(), when t is dispatched again
WakeUp(t) ==
  /\ At(t, "asleep")
  /\ waiting_on' = Set(waiting_on, t, {})
  /\ critical_level' = Set(critical_level, t, saved[t])
  /\ saved' = Set(saved, t, CL_USER)
  /\ pc' = Set(pc, t, IF t \in Workers THEN "w_lock" ELSE "run")
  /\ UNCHANGED <<current, queue, state, arg, tasks, tasks_mutex, due, unpushed>>

\* resume_on(x): each paused waiter is queued before the threads that are there
resume_on(x) ==
  /\ \E p \in Orders(Woken(x)) : queue' = p \o queue
  /\ state' = Running(Woken(x))
  /\ UNCHANGED <<current, critical_level, waiting_on, pc, saved, arg, tasks,
                 tasks_mutex, due, unpushed>>

CallResumeOn(t, x) == At(t, "run") /\ resume_on(x)

-----------------------------------------------------------------------------
(***************************************************************************)
(* exit() and the worker threads.                                          *)
(***************************************************************************)

\* mutex_lock(&tasks_mutex) by t, which goes on to `next`; on failure yield()
LockTasks(t, next) ==
  \/ /\ ~ tasks_mutex
     /\ tasks_mutex' = TRUE
     /\ pc' = Set(pc, t, next)
     /\ UNCHANGED <<current, queue>>
  \/ /\ tasks_mutex
     /\ run_scheduler(queue, state)
     /\ UNCHANGED <<pc, tasks_mutex>>

\* exit() without its critical section
exit_NoSection(t) ==
  /\ At(t, "run")
  /\ critical_level[t] = CL_USER
  /\ pc' = Set(pc, t, "exit_lock")
  /\ UNCHANGED <<current, queue, state, critical_level, waiting_on, saved, arg,
                 tasks, tasks_mutex, due, unpushed>>

\* exit() up to worker_push()
exit(t) ==
  /\ At(t, "run")
  /\ critical_level[t] = CL_USER
  /\ critical_level' = Set(critical_level, t, CL_NOSWITCH)
  /\ pc' = Set(pc, t, "exit_lock")
  /\ UNCHANGED <<current, queue, state, waiting_on, saved, arg, tasks,
                 tasks_mutex, due, unpushed>>

\* worker_push_in(0, exit_cleanup_task, t): its malloc() finds no memory, it
\* returns false, and exit() does not look at that
ExitNoMemory(t) ==
  /\ At(t, "exit_lock")
  /\ unpushed' = unpushed \cup {t}
  /\ pc' = Set(pc, t, "exit_finish")
  /\ UNCHANGED <<current, queue, state, critical_level, waiting_on, saved, arg,
                 tasks, tasks_mutex, due>>

\* or it succeeds, and mutex_lock() follows
ExitLock(t) ==
  /\ At(t, "exit_lock")
  /\ LockTasks(t, "exit_push")
  /\ UNCHANGED <<state, critical_level, waiting_on, saved, arg, tasks, due, unpushed>>

\* Both malloc(), and the one of btree_add(), may find the allocator's mutex
\* taken, and yield
ExitAllocBlocked(t) ==
  /\ At(t, "exit_lock") \/ At(t, "exit_push")
  /\ run_scheduler(queue, state)
  /\ UNCHANGED <<state, critical_level, waiting_on, pc, saved, arg, tasks,
                 tasks_mutex, due, unpushed>>

\* worker_push_in() without its update of next_task_time
ExitPush_NoTime(t) ==
  /\ At(t, "exit_push")
  /\ tasks' = tasks \cup {t}
  /\ tasks_mutex' = FALSE
  /\ pc' = Set(pc, t, "exit_finish")
  /\ UNCHANGED <<current, queue, state, critical_level, waiting_on, saved,
                 arg, due, unpushed>>

\* The rest of worker_push_in(): the task is due now, also when btree_add()
\* has no memory for it and returns false
ExitPush(t) ==
  /\ At(t, "exit_push")
  /\ \/ tasks' = tasks \cup {t} /\ UNCHANGED unpushed
     \/ unpushed' = unpushed \cup {t} /\ UNCHANGED tasks
  /\ due' = TRUE
  /\ tasks_mutex' = FALSE
  /\ pc' = Set(pc, t, "exit_finish")
  /\ UNCHANGED <<current, queue, state, critical_level, waiting_on, saved,
                 arg>>

\* state = FINISHED; exit_critical(st)
ExitFinish(t) ==
  /\ At(t, "exit_finish")
  /\ state' = Set(state, t, "FINISHED")
  /\ critical_level' = Set(critical_level, t, CL_USER)
  /\ pc' = Set(pc, t, "exit_yield")
  /\ UNCHANGED <<current, queue, waiting_on, saved, arg, tasks, tasks_mutex,
                 due, unpushed>>

\* yield(), "expected never to return!"
ExitYield(t) ==
  /\ At(t, "exit_yield")
  /\ run_scheduler(queue, state)
  /\ UNCHANGED <<state, critical_level, waiting_on, pc, saved, arg, tasks,
                 tasks_mutex, due, unpushed>>

\* worker_thread(): the loop's mutex_lock()
WorkerLock(w) ==
  /\ At(w, "w_lock")
  /\ LockTasks(w, "w_take")
  /\ UNCHANGED <<state, critical_level, waiting_on, saved, arg, tasks, due, unpushed>>

\* The loop's critical section.  next_task_time becomes the time of the task
\* found, before that task is removed.
WorkerTake(w, u) ==
  /\ At(w, "w_take")
  /\ u \in tasks
  /\ tasks' = tasks \ {u}
  /\ due' = TRUE
  /\ arg' = Set(arg, w, u)
  /\ pc' = Set(pc, w, "w_do")
  /\ tasks_mutex' = FALSE
  /\ UNCHANGED <<current, queue, state, critical_level, waiting_on, saved, unpushed>>

WorkerFindsNone(w) ==
  /\ At(w, "w_take")
  /\ tasks = {}
  /\ due' = FALSE
  /\ pc' = Set(pc, w, "w_wait")
  /\ tasks_mutex' = FALSE
  /\ UNCHANGED <<current, queue, state, critical_level, waiting_on, saved,
                 arg, tasks, unpushed>>

\* next_task->fun(): exit_cleanup_task(), then delete_thread()
WorkerDo(w) ==
  /\ At(w, "w_do")
  /\ state' = Set(state, arg[w], "UNUSED")
  /\ pc' = [pc EXCEPT ![arg[w]] = "none", ![w] = "w_lock"]
  /\ arg' = Set(arg, w, NoThread)
  /\ UNCHANGED <<current, queue, critical_level, waiting_on, saved, tasks,
                 tasks_mutex, due, unpushed>>

\* wait_on(current_thread)
WorkerWait(w) ==
  /\ At(w, "w_wait")
  /\ GoToSleep(w, {w})
  /\ UNCHANGED <<arg, tasks, tasks_mutex, due, unpushed>>

-----------------------------------------------------------------------------
(***************************************************************************)
(* Interrupts.                                                             *)
(***************************************************************************)

\* The workers that irq0_handler() resumes: notify_time_pass() stops at the
\* first paused one, and looks for one only when a task is due.
Notified ==
  LET paused == {w \in Workers : w \in Woken(w)}
  IN  IF due /\ paused # {} THEN {{w} : w \in paused} ELSE {{}}

\* irq0_handler(), then threading_irq0_handler() preempts the current thread
TimerPreempts ==
  /\ current # NoThread
  /\ critical_level[current] = CL_USER
  /\ \E W \in Notified : \E p \in Orders(W) :
       /\ state' = Running(W)
       /\ run_scheduler(p \o queue, Running(W))
  /\ UNCHANGED <<critical_level, waiting_on, pc, saved, arg, tasks,
                 tasks_mutex, due, unpushed>>

\* irq0_handler() where the scheduler idles or the thread may not be switched
TimerTicks ==
  /\ InterruptsOn
  /\ current # NoThread => critical_level[current] # CL_USER
  /\ \E W \in Notified : \E p \in Orders(W) :
       /\ state' = Running(W)
       /\ queue' = p \o queue
  /\ UNCHANGED <<current, critical_level, waiting_on, pc, saved, arg, tasks,
                 tasks_mutex, due, unpushed>>

\* A device's handler (keyboard, mouse, disk) resumes those who wait for it
DeviceIrq(x) == InterruptsOn /\ resume_on(x)

-----------------------------------------------------------------------------
(***************************************************************************)
(* The specification starts where kernel_init_stage2() returns from        *)
(* start_workers(), in the thread `boot` that threading_setup() started.   *)
(***************************************************************************)

Init ==
  /\ current \in Clients
  /\ queue \in Orders(Workers)
  /\ state = [t \in Threads |->
                IF t \in Workers \cup {current} THEN "RUNNING" ELSE "UNUSED"]
  /\ critical_level = [t \in Threads |->
                         IF t \in Workers THEN CL_EXCL ELSE CL_USER]
  /\ waiting_on = [t \in Threads |-> {}]
  /\ pc = [t \in Threads |-> IF t \in Workers THEN "begin"
                             ELSE IF t = current THEN "run" ELSE "none"]
  /\ saved = [t \in Threads |-> CL_USER]
  /\ arg = [t \in Threads |-> NoThread]
  /\ tasks = {}
  /\ tasks_mutex = FALSE
  /\ due = FALSE
  /\ unpushed = {}

ClientStep(t) ==
  \/ run_thread(t)
  \/ \E u \in Clients : new_thread(t, u)
  \/ start_thread(t)
  \/ start_enqueue(t)
  \/ yield(t)
  \/ \E level \in {CL_NOSWITCH, CL_NOINT} : enter_critical(t, level)
  \/ exit_critical(t)
  \/ \E xs \in SUBSET Objs : wait_on_many(t, xs)
  \/ WakeUp(t)
  \/ \E x \in Objs : CallResumeOn(t, x)
  \/ exit(t)
  \/ ExitNoMemory(t)
  \/ ExitLock(t)
  \/ ExitAllocBlocked(t)
  \/ ExitPush(t)
  \/ ExitFinish(t)
  \/ ExitYield(t)

WorkerStep(w) ==
  \/ run_thread(w)
  \/ WorkerLock(w)
  \/ \E u \in Clients : WorkerTake(w, u)
  \/ WorkerFindsNone(w)
  \/ WorkerDo(w)
  \/ WorkerWait(w)
  \/ WakeUp(w)

Interrupt ==
  \/ TimerPreempts
  \/ TimerTicks
  \/ \E x \in IrqObjs : DeviceIrq(x)

Next ==
  \/ Dispatch
  \/ \E t \in Clients : ClientStep(t)
  \/ \E w \in Workers : WorkerStep(w)
  \/ Interrupt

(***************************************************************************)
(* Fairness.  The processor executes, so a thread inside a kernel call     *)
(* goes on (its "run" code owes nothing, except that a critical section    *)
(* ends).  The timer keeps ticking.  What is enabled again and again and   *)
(* yet might be missed each time is strongly fair: the timer does not      *)
(* strike only where the level forbids a switch, nor only while the mutex  *)
(* that another thread spins on is held; and the worker's tree is ordered  *)
(* by time, so that no task is overtaken for ever.                         *)
(***************************************************************************)
KernelStep(t) ==
  \/ run_thread(t)
  \/ start_thread(t)
  \/ start_enqueue(t)
  \/ WakeUp(t)
  \/ (ExitLock(t) \/ WorkerLock(t)) /\ ~ tasks_mutex
  \/ ExitPush(t)
  \/ ExitFinish(t)
  \/ ExitYield(t)
  \/ \E u \in Clients : WorkerTake(t, u)
  \/ WorkerFindsNone(t)
  \/ WorkerDo(t)
  \/ WorkerWait(t)

Fairness ==
  /\ WF_vars(Dispatch)
  /\ WF_vars(\E t \in Threads : ExitLock(t) \/ WorkerLock(t))
  /\ WF_vars(TimerTicks)
  /\ SF_vars(TimerPreempts)
  /\ \A t \in Threads : SF_vars(KernelStep(t))
  /\ \A t \in Clients : SF_vars(exit_critical(t))
  /\ \A u \in Clients : SF_vars(\E w \in Workers : WorkerTake(w, u))

Spec == Init /\ [][Next]_vars
FairSpec == Spec /\ Fairness

-----------------------------------------------------------------------------
(***************************************************************************)
(* Properties.                                                             *)
(***************************************************************************)

\* The threads between the two halves of start_thread()
BeingQueued == {arg[t] : t \in {s \in Threads : pc[s] = "start_enq"}}

\* The run queue holds every runnable thread that is not on the processor
\* exactly once, and nothing else: none is lost by enqueue_thread() and
\* dequeue_thread() between interrupts, and no paused, finished or deleted
\* thread is linked in it.
RunQueueExact ==
  /\ IsInjective(queue)
  /\ Range(queue) = {t \in Threads : state[t] = "RUNNING"}
                      \ ({current} \cup BeingQueued)

\* A thread whose cleanup is about to run has finished, has left the processor
\* and is cleaned up once (the comment in exit(), the ASSERT of
\* delete_thread()); a pending task's thread is at most one step from that.
Cleaning == {w \in Workers : pc[w] = "w_do"}

CleanupFinished ==
  /\ \A w \in Cleaning :
       /\ state[arg[w]] = "FINISHED"
       /\ arg[w] # current
       /\ arg[w] \notin tasks
       /\ \A v \in Cleaning : arg[v] = arg[w] => v = w
  /\ \A u \in tasks :
       state[u] = "FINISHED" \/ (current = u /\ pc[u] = "exit_finish")

\* Only one thread at a time is between mutex_lock(&tasks_mutex) and its unlock,
\* and the mutex is never left locked: exit() takes it with switching disabled,
\* the workers do not.
HoldsTasks(t) == pc[t] \in {"exit_push", "w_take"}

TasksMutex ==
  /\ tasks_mutex <=> \E t \in Threads : HoldsTasks(t)
  /\ \A s, t \in Threads : HoldsTasks(s) /\ HoldsTasks(t) => s = t

\* A pending task is always visible to the timer, whichever way the workers'
\* and the exiting threads' updates of next_task_time interleave.
PendingIsDue == tasks # {} => due

\* Only a runnable thread is ever dispatched.  In particular the yield() that
\* ends exit() is "expected never to return!", and run_thread() asserts it.
DispatchesRunnable ==
  current' \notin {current, NoThread} => state'[current'] = "RUNNING"

DispatchOnlyRunnable == [][DispatchesRunnable]_vars

\* The scheduler is first in, first out among the queued threads: one that is
\* started or resumed may overtake all, but no step reorders those that wait.
Before(q, s, t) ==
  \E i, j \in 1 .. Len(q) : i < j /\ q[i] = s /\ q[j] = t

NoReordering ==
  [][\A s, t \in Threads :
       Before(queue, s, t) => t # current' /\ (s # current' => Before(queue', s, t))]_vars

\* Every queued thread is dispatched, although resume_on() and start_thread()
\* put threads before it: each tick sends one of those behind it.
StarvationFree == \A t \in Threads : t \in Range(queue) ~> current = t

\* The thread_t and the stack of a thread that exits are given back, unless
\* there was no memory for its cleanup task or for the task's place in the tree:
\* exit() ignores the result of worker_push(), worker_push_in() that of
\* btree_add()
ExitedIsReclaimed ==
  \A t \in Clients :
    pc[t] = "exit_lock" ~> state[t] = "UNUSED" \/ t \in unpushed
=============================================================================
