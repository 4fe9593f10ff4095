-------------------------------- MODULE Sleep --------------------------------
(***************************************************************************)
(* Waiting for time: usleep() of src/src/kernel/core/thread.c and the      *)
(* timeout of select() (syscall.c), through the tasks with a delay that    *)
(* worker_push_in() keeps and a worker carries out (worker.c).             *)
(*                                                                         *)
(* Time is relative: a task holds what is left until it is due, and one    *)
(* tick takes one unit from each; uptime is counted up to MaxDelay, beyond *)
(* which nothing compares it.  There is one worker, whose loop is two      *)
(* steps, the look at the tasks and what follows it.  select() is at level *)
(* CL_NOINT, which it leaves only to wait, here also for the mutex of the  *)
(* tasks; what the polls of its descriptors say is a choice.  The killing  *)
(* of threads is left out: it ends the same waits early.                   *)
(***************************************************************************)
EXTENDS Integers, FiniteSets

CONSTANTS
  Sleepers,
  MaxDelay,    \* bound of the delays, in ticks
  MaxTasks     \* bound of the tasks of one thread

Never == MaxDelay + 1    \* UINT64_MAX, or a time that has wrapped around
Delays == 1 .. MaxDelay

VARIABLES
  uptime,
  tasks,            \* [left, of, n]: resumes of; n numbers the tasks of a thread
  next_task_time,   \* relative like the tasks
  worker,           \* [pc, task]
  th,               \* per thread [pc, left, n]: left of its delay, n of its timer
  untimed, stray    \* history: threads without a timer that will resume them, and
                    \* that a timer of an earlier call has resumed

vars == <<uptime, tasks, next_task_time, worker, th, untimed, stray>>

None == [left |-> Never, of |-> "none", n |-> 0]
AwakeThread == [pc |-> "awake", left |-> 0, n |-> 0]

Init ==
  /\ uptime = 0 /\ tasks = {} /\ next_task_time = Never
  /\ worker = [pc |-> "look", task |-> None]
  /\ th = [t \in Sleepers |-> AwakeThread]
  /\ untimed = {} /\ stray = {}

At(t, pc) == th[t].pc = pc
Goto(t, pc) == th' = [th EXCEPT ![t].pc = pc]
Least(a, b) == IF a < b THEN a ELSE b

-----------------------------------------------------------------------------
(* The clock and the worker. *)

Sooner(left) == IF left \in {0, Never} THEN left ELSE left - 1

\* notify_time_pass(): the worker is resumed if a task is due and it sleeps.
WakesWorker(next) == next = 0 /\ worker.pc = "asleep"
Tick ==
  /\ uptime' = Least(uptime + 1, MaxDelay)
  /\ tasks' = {[k EXCEPT !.left = Sooner(@)] : k \in tasks}
  /\ next_task_time' = Sooner(next_task_time)
  /\ worker' = IF WakesWorker(Sooner(next_task_time)) THEN [worker EXCEPT !.pc = "look"]
               ELSE worker
  /\ th' = [t \in Sleepers |-> [th[t] EXCEPT !.left = IF @ = 0 THEN 0 ELSE @ - 1]]
  /\ UNCHANGED <<untimed, stray>>

\* worker_thread() under tasks_mutex: the first task, if it is due.
FirstTasks == {k \in tasks : \A j \in tasks : k.left <= j.left}
NextTime == IF tasks = {} THEN Never ELSE (CHOOSE k \in FirstTasks : TRUE).left
Look ==
  /\ worker.pc = "look"
  /\ next_task_time' = NextTime
  /\ IF NextTime = 0
     THEN \E k \in FirstTasks :
            tasks' = tasks \ {k} /\ worker' = [pc |-> "run", task |-> k]
     ELSE tasks' = tasks /\ worker' = [pc |-> "wait", task |-> None]
  /\ UNCHANGED <<uptime, th, untimed, stray>>

Asleep(t) == th[t].pc \in {"usleep", "select_wait"}
Resumed(t) == IF At(t, "usleep") THEN "slept" ELSE "select"

\* _usleep_resume_on_v() and _select_sc_resume_on_v()
Run ==
  /\ worker.pc = "run"
  /\ worker' = [pc |-> "look", task |-> None]
  /\ LET k == worker.task  t == k.of IN
     /\ IF Asleep(t) THEN Goto(t, Resumed(t)) ELSE th' = th
     /\ untimed' = IF At(t, "pushed") /\ k.n = th[t].n THEN untimed \cup {t} ELSE untimed
     /\ stray' = IF At(t, "usleep") /\ k.n # th[t].n THEN stray \cup {t} ELSE stray
  /\ UNCHANGED <<uptime, tasks, next_task_time>>

\* wait_on(current_thread)
WorkerSleeps ==
  /\ worker.pc = "wait"
  /\ worker' = [worker EXCEPT !.pc = "asleep"]
  /\ UNCHANGED <<uptime, tasks, next_task_time, th, untimed, stray>>

\* worker_push_in(); the mutation leaves next_task_time to the worker.
Lowered_Not(left) == next_task_time
Lowered(left) == Least(left, next_task_time)
Numbers(t) == 1 .. MaxTasks \ {k.n : k \in {j \in tasks \cup {worker.task} : j.of = t}}
worker_push_in(t, left, n) ==
  /\ tasks' = tasks \cup {[left |-> left, of |-> t, n |-> n]}
  /\ next_task_time' = Lowered(left)

\* worker_push_in() when btree_add() finds no memory: the task is in no tree,
\* yet next_task_time is lowered and the result is true.
PushIsLost(left) ==
  /\ next_task_time' = Lowered(left)
  /\ UNCHANGED tasks

-----------------------------------------------------------------------------
(* usleep(). *)

Begin(t, pc) ==
  /\ At(t, "awake")
  /\ \E d \in Delays : th' = [th EXCEPT ![t] = [pc |-> pc, left |-> d, n |-> 0]]
  /\ untimed' = untimed \ {t} /\ stray' = stray \ {t}
  /\ UNCHANGED <<uptime, tasks, next_task_time, worker>>
usleep(t) == Begin(t, "push")
Push(t) ==
  /\ At(t, "push")
  /\ \E n \in Numbers(t) :
       /\ worker_push_in(t, th[t].left, n)
       /\ th' = [th EXCEPT ![t].pc = "pushed", ![t].n = n]
  /\ UNCHANGED <<uptime, worker, untimed, stray>>

\* usleep() does not learn that the task is not in the tree, and waits.
PushLost(t) ==
  /\ At(t, "push")
  /\ PushIsLost(th[t].left)
  /\ th' = [th EXCEPT ![t].pc = "pushed", ![t].n = 0]
  /\ untimed' = untimed \cup {t}
  /\ UNCHANGED <<uptime, worker, stray>>

\* There is no memory for the task itself: usleep() returns.
PushFails(t) ==
  /\ At(t, "push")
  /\ th' = [th EXCEPT ![t] = AwakeThread]
  /\ UNCHANGED <<uptime, tasks, next_task_time, worker, untimed, stray>>
Wait(t) ==
  /\ At(t, "pushed")
  /\ Goto(t, "usleep")
  /\ UNCHANGED <<uptime, tasks, next_task_time, worker, untimed, stray>>
Slept(t) ==
  /\ At(t, "slept")
  /\ th' = [th EXCEPT ![t] = AwakeThread]
  /\ UNCHANGED <<uptime, tasks, next_task_time, worker, untimed, stray>>

-----------------------------------------------------------------------------
(* select() with a timeout. *)

select_sc(t) == Begin(t, "select")

\* A descriptor is ready, the time is over, or the thread is killed.
Return(t) ==
  /\ At(t, "select")
  /\ th' = [th EXCEPT ![t] = AwakeThread]
  /\ UNCHANGED <<uptime, tasks, next_task_time, worker, untimed, stray>>

\* time - select_begin_time - timeout is what is left, negated: a time in the
\* past, or one before 0 that wraps around to the end of time.
TimerLeft(left) == IF left <= uptime THEN 0 ELSE Never
SelectWait(t) ==
  /\ At(t, "select") /\ th[t].left > 0
  /\ Goto(t, "select_wait")
  /\ \/ /\ TimerLeft(th[t].left) = 0
        /\ \E n \in Numbers(t) : worker_push_in(t, 0, n)
        /\ untimed' = untimed \ {t}
     \/ \* A task that is never due, or none for want of memory
        /\ untimed' = untimed \cup {t}
        /\ UNCHANGED <<tasks, next_task_time>>
     \/ \* None, for want of memory for the tree
        /\ PushIsLost(TimerLeft(th[t].left))
        /\ untimed' = untimed \cup {t}
  /\ UNCHANGED <<uptime, worker, stray>>

\* resume_on() of what the descriptors wait for, and maybe of others' as well
Arrive(t) ==
  /\ At(t, "select_wait")
  /\ Goto(t, "select")
  /\ UNCHANGED <<uptime, tasks, next_task_time, worker, untimed, stray>>

ThreadStep(t) ==
  \/ Push(t) \/ PushLost(t) \/ PushFails(t) \/ Wait(t) \/ Slept(t)
  \/ Return(t) \/ SelectWait(t)

Next ==
  \/ Tick \/ Look \/ Run \/ WorkerSleeps
  \/ \E t \in Sleepers : ThreadStep(t) \/ usleep(t) \/ select_sc(t) \/ Arrive(t)

-----------------------------------------------------------------------------
(***************************************************************************)
(* Who sleeps has a timer under way, and the worker, if it sleeps, will be *)
(* resumed by the clock in time for it.  The code loses the timer in four  *)
(* ways: it runs before wait_on(), its time wraps around since the system  *)
(* is younger than the timeout, or there is no memory for it, or for its   *)
(* place in the tree, which worker_push_in() reports as a success.         *)
(***************************************************************************)
TimerUnderWay ==
  /\ \A t \in Sleepers : Asleep(t) /\ t \notin untimed =>
       \E k \in tasks \cup {worker.task} : k.of = t
  /\ worker.pc = "asleep" => \A k \in tasks : next_task_time <= k.left

(***************************************************************************)
(* usleep() lasts as long as it was asked to, unless the thread is resumed *)
(* by a timer that an earlier select() of its own left behind.             *)
(***************************************************************************)
SleepIsLong == \A t \in Sleepers :
  At(t, "slept") /\ t \notin stray => th[t].left = 0

SleepExact == TimerUnderWay /\ SleepIsLong
=============================================================================
