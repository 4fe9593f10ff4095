--------------------------------- MODULE Kill ---------------------------------
(***************************************************************************)
(* kill_thread() of src/src/kernel/core/thread.c, as process_exit() calls  *)
(* it on each thread of a process, against the interrupts that may resume  *)
(* the same thread.                                                        *)
(*                                                                         *)
(* kill_thread() runs at level CL_NOSWITCH: nothing else is scheduled, but *)
(* interrupts are on, and an interrupt handler that calls resume_on() also *)
(* tests t->state and calls enqueue_thread().  The run queue is therefore  *)
(* the linked list itself, and the killer's enqueue_thread() is one step   *)
(* per store.                                                              *)
(*                                                                         *)
(* Abstractions.  Each user waits for an object of its own that a device   *)
(* interrupt resumes (the disk driver waits on the thread).  The cleanup   *)
(* task that exit() pushes finds a process that does not run               *)
(* (process_thread_exited() returns at once) and is left out; that         *)
(* worker_push() may yield is not.  The killer only yields, it never       *)
(* sleeps, so that the processor always has a thread to run.               *)
(***************************************************************************)
EXTENDS Integers, FiniteSets

CONSTANTS
  Users,          \* the threads of the process that is killed
  Killer,         \* the thread that runs process_exit()
  NoThread,
  IrqDuringKill   \* FALSE: no interrupt between kill_thread()'s test and yield

Threads == Users \cup {Killer}

ASSUME KillAssumption ==
  /\ IsFiniteSet(Users) /\ Killer \notin Users
  /\ NoThread \notin Threads
  /\ IrqDuringKill \in BOOLEAN

CL_USER     == 0
CL_NOSWITCH == 1
CL_NOINT    == 2

VARIABLES
  current, list, state, critical_level, pc,
  waiting,     \* the threads on the list of waiters
  must_exit,
  victim,      \* the argument of kill_thread()
  to_kill      \* p->threads, of process_exit()

vars == <<current, list, state, critical_level, pc, waiting, must_exit,
          victim, to_kill>>

RQ == INSTANCE RunQueueList

-----------------------------------------------------------------------------
Set(f, t, v) == [f EXCEPT ![t] = v]
At(t, p) == current = t /\ pc[t] = p

InterruptsOn == current # NoThread => critical_level[current] < CL_NOINT

run_scheduler(l, st) ==
  LET l1 == IF current # NoThread /\ st[current] = "RUNNING"
            THEN RQ!enqueue_thread(l, current, TRUE) ELSE l
  IN  IF l1.first = NoThread
      THEN current' = NoThread /\ list' = l1
      ELSE current' = l1.first /\ list' = RQ!dequeue_thread(l1)

-----------------------------------------------------------------------------
(***************************************************************************)
(* The threads of the process.                                             *)
(***************************************************************************)

\* wait_on(), in a system call
wait_on(t) ==
  /\ At(t, "run")
  /\ critical_level' = Set(critical_level, t, CL_NOINT)
  /\ waiting' = waiting \cup {t}
  /\ state' = Set(state, t, "PAUSED")
  /\ pc' = Set(pc, t, "asleep")
  /\ run_scheduler(list, state')
  /\ UNCHANGED <<must_exit, victim, to_kill>>

\* wait_on() returns; false if must_exit, on which the system call ends
WakeUp(t) ==
  /\ At(t, "asleep")
  /\ waiting' = waiting \ {t}
  /\ critical_level' = Set(critical_level, t, CL_USER)
  /\ pc' = Set(pc, t, "run")
  /\ UNCHANGED <<current, list, state, must_exit, victim, to_kill>>

\* The end of a system call or interrupt ("maybe exit") calls exit()
maybe_exit(t) ==
  /\ At(t, "run")
  /\ t \in must_exit
  /\ critical_level' = Set(critical_level, t, CL_NOSWITCH)
  /\ pc' = Set(pc, t, "exit_push")
  /\ UNCHANGED <<current, list, state, waiting, must_exit, victim, to_kill>>

\* worker_push() may yield in exit()
ExitPushBlocked(t) ==
  /\ At(t, "exit_push")
  /\ run_scheduler(list, state)
  /\ UNCHANGED <<state, critical_level, pc, waiting, must_exit, victim,
                 to_kill>>

\* The task is pushed, the state is set, the critical section ends
ExitFinish(t) ==
  /\ At(t, "exit_push")
  /\ state' = Set(state, t, "FINISHED")
  /\ critical_level' = Set(critical_level, t, CL_USER)
  /\ pc' = Set(pc, t, "exit_yield")
  /\ UNCHANGED <<current, list, waiting, must_exit, victim, to_kill>>

\* yield(), "expected never to return!"
ExitYield(t) ==
  /\ At(t, "exit_yield")
  /\ pc' = Set(pc, t, "exited")
  /\ run_scheduler(list, state)
  /\ UNCHANGED <<state, critical_level, waiting, must_exit, victim, to_kill>>

-----------------------------------------------------------------------------
(***************************************************************************)
(* The killer.                                                             *)
(***************************************************************************)

\* process_exit() takes the next thread and calls kill_thread()
kill_thread ==
  /\ At(Killer, "run")
  /\ \E u \in to_kill :
       /\ victim' = u
       /\ to_kill' = to_kill \ {u}
       /\ must_exit' = must_exit \cup {u}
  /\ critical_level' = Set(critical_level, Killer, CL_NOSWITCH)
  /\ pc' = Set(pc, Killer, "kill_test")
  /\ UNCHANGED <<current, list, state, waiting>>

\* The loop without its test that the victim is paused
KillTest_AnyState ==
  /\ At(Killer, "kill_test")
  /\ state[victim] # "FINISHED"
  /\ pc' = Set(pc, Killer, "kill_set")
  /\ UNCHANGED <<current, list, state, critical_level, waiting, must_exit,
                 victim, to_kill>>

\* The loop's two tests of the victim's state
KillTest ==
  /\ At(Killer, "kill_test")
  /\ state[victim] # "FINISHED"
  /\ pc' = Set(pc, Killer,
               IF state[victim] = "PAUSED" THEN "kill_set" ELSE "kill_yield")
  /\ UNCHANGED <<current, list, state, critical_level, waiting, must_exit,
                 victim, to_kill>>

KillSet ==
  /\ At(Killer, "kill_set")
  /\ state' = Set(state, victim, "RUNNING")
  /\ pc' = Set(pc, Killer, "kill_link")
  /\ UNCHANGED <<current, list, critical_level, waiting, must_exit, victim,
                 to_kill>>

\* enqueue_thread() that forgets the link to the threads that wait
KillLink_NoLink ==
  /\ At(Killer, "kill_link")
  /\ pc' = Set(pc, Killer, IF list.first = NoThread THEN "kill_store_only"
                           ELSE "kill_store")
  /\ UNCHANGED <<current, list, state, critical_level, waiting, must_exit,
                 victim, to_kill>>

\* enqueue_thread(thread, false): the test of queue_first_thread and the link
KillLink ==
  /\ At(Killer, "kill_link")
  /\ IF list.first = NoThread
     THEN pc' = Set(pc, Killer, "kill_store_only") /\ list' = list
     ELSE /\ pc' = Set(pc, Killer, "kill_store")
          /\ list' = [list EXCEPT !.next[victim] = list.first]
  /\ UNCHANGED <<current, state, critical_level, waiting, must_exit, victim,
                 to_kill>>

\* queue_first_thread = t
KillStore ==
  /\ At(Killer, "kill_store")
  /\ list' = [list EXCEPT !.first = victim]
  /\ pc' = Set(pc, Killer, "kill_yield")
  /\ UNCHANGED <<current, state, critical_level, waiting, must_exit, victim,
                 to_kill>>

\* The stores for the queue that was found empty
KillStoreOnly ==
  /\ At(Killer, "kill_store_only")
  /\ list' = [list EXCEPT !.first = victim, !.last = victim,
                          !.next[victim] = NoThread]
  /\ pc' = Set(pc, Killer, "kill_yield")
  /\ UNCHANGED <<current, state, critical_level, waiting, must_exit, victim,
                 to_kill>>

\* A killer that does not look again at the victim's state
KillYield_Once ==
  /\ At(Killer, "kill_yield")
  /\ pc' = Set(pc, Killer, "run")
  /\ critical_level' = Set(critical_level, Killer, CL_USER)
  /\ victim' = NoThread
  /\ run_scheduler(list, state)
  /\ UNCHANGED <<state, waiting, must_exit, to_kill>>

KillYield ==
  /\ At(Killer, "kill_yield")
  /\ pc' = Set(pc, Killer, "kill_test")
  /\ run_scheduler(list, state)
  /\ UNCHANGED <<state, critical_level, waiting, must_exit, victim, to_kill>>

\* The victim has finished: kill_thread() returns, delete_thread() follows
KillDone ==
  /\ At(Killer, "kill_test")
  /\ state[victim] = "FINISHED"
  /\ state' = Set(state, victim, "UNUSED")
  /\ pc' = [pc EXCEPT ![Killer] = "run", ![victim] = "gone"]
  /\ critical_level' = Set(critical_level, Killer, CL_USER)
  /\ victim' = NoThread
  /\ UNCHANGED <<current, list, waiting, must_exit, to_kill>>

-----------------------------------------------------------------------------
(***************************************************************************)
(* Interrupts.                                                             *)
(***************************************************************************)

Window == pc[Killer] \in {"kill_set", "kill_link", "kill_store",
                          "kill_store_only"}

\* A handler calls resume_on() on what a user waits for
DeviceIrq ==
  /\ InterruptsOn
  /\ IrqDuringKill \/ ~ Window
  /\ \E t \in waiting :
       /\ state[t] = "PAUSED"
       /\ state' = Set(state, t, "RUNNING")
       /\ list' = RQ!enqueue_thread(list, t, FALSE)
  /\ UNCHANGED <<current, critical_level, pc, waiting, must_exit, victim,
                 to_kill>>

TimerPreempts ==
  /\ current # NoThread
  /\ critical_level[current] = CL_USER
  /\ run_scheduler(list, state)
  /\ UNCHANGED <<state, critical_level, pc, waiting, must_exit, victim,
                 to_kill>>

-----------------------------------------------------------------------------
Init ==
  /\ current = Killer
  /\ list \in {RQ!enqueue_thread(RQ!EmptyList, u, TRUE) : u \in Users}
  /\ state = [t \in Threads |-> IF t \in {Killer, list.first}
                                THEN "RUNNING" ELSE "PAUSED"]
  /\ waiting = {t \in Users : state[t] = "PAUSED"}
  /\ critical_level = [t \in Threads |-> IF t \in waiting THEN CL_NOINT
                                         ELSE CL_USER]
  /\ pc = [t \in Threads |-> IF t \in waiting THEN "asleep" ELSE "run"]
  /\ must_exit = {}
  /\ victim = NoThread
  /\ to_kill = Users

UserStep(t) ==
  \/ wait_on(t)
  \/ WakeUp(t)
  \/ maybe_exit(t)
  \/ ExitPushBlocked(t)
  \/ ExitFinish(t)
  \/ ExitYield(t)

KillerStep ==
  \/ kill_thread
  \/ KillTest
  \/ KillSet
  \/ KillLink
  \/ KillStore
  \/ KillStoreOnly
  \/ KillYield
  \/ KillDone

Next ==
  \/ \E t \in Users : UserStep(t)
  \/ KillerStep
  \/ DeviceIrq
  \/ TimerPreempts

(***************************************************************************)
(* Fairness.  The processor executes, the timer ticks, a system call that  *)
(* was told to end ends.                                                   *)
(***************************************************************************)
Fairness ==
  /\ WF_vars(KillerStep)
  /\ SF_vars(TimerPreempts)
  /\ \A t \in Users :
       /\ WF_vars(UserStep(t))
       /\ SF_vars(maybe_exit(t))
       /\ SF_vars(ExitFinish(t))

Spec == Init /\ [][Next]_vars
FairSpec == Spec /\ Fairness

-----------------------------------------------------------------------------
(***************************************************************************)
(* Properties.                                                             *)
(***************************************************************************)

\* A thread that has finished is not dispatched: exit() says of its yield()
\* that it is "expected never to return!".
ExitNeverReturns == \A t \in Users : pc[t] = "exited" => current # t

\* Every runnable thread is linked in the run queue or on the processor, but
\* for the one that kill_thread() is about to link, and nothing else is.
NoThreadLost ==
  RQ!Queued = {t \in Threads : state[t] = "RUNNING"}
                \ ({current} \cup (IF pc[Killer] \in {"kill_link", "kill_store",
                                                      "kill_store_only"}
                                   THEN {victim} ELSE {}))

\* kill_thread() returns: the victim is woken, however often it goes back to
\* sleep, and finishes.
KillTerminates == \A u \in Users : u \in must_exit ~> state[u] = "UNUSED"
=============================================================================
