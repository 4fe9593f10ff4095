------------------------------- MODULE Timers -------------------------------
(***************************************************************************)
(* Waiting for time (worker.c, thread.c), a part of its own: module Sleep, *)
(* whose tasks are called delayed here.                                    *)
(***************************************************************************)
EXTENDS Integers, Parts

CONSTANTS Sleepers, MaxDelay, MaxTasks
VARIABLES uptime, delayed, next_task_time, worker, th, untimed, stray

Timer == INSTANCE Sleep WITH tasks <- delayed

ASSUME TimersAssumption == MaxDelay \in Nat /\ MaxTasks \in Nat

timer_vars == <<uptime, delayed, next_task_time, worker, th, untimed, stray>>

NoTimers == /\ uptime = Null /\ delayed = Null /\ next_task_time = Null /\ worker = Null
            /\ th = Null /\ untimed = Null /\ stray = Null

TimersInit == which = "timer" /\ Timer!Init
TimersNext == which = "timer" /\ Timer!Next /\ UNCHANGED which
TimersSpec == TimersInit /\ [][TimersNext]_<<which, timer_vars>>

\* Sleepers have timers that the worker carries out, and not too early.
SleepExact == which = "timer" => Timer!SleepExact
=============================================================================
