--------------------------------- MODULE V86 ---------------------------------
(***************************************************************************)
(* Calls of the BIOS from kernel threads, of src/src/kernel/dev/v86.c:     *)
(* one thread runs the BIOS in virtual 8086 mode for whoever has opened a  *)
(* session, and both hand over to one another with wait_on() and           *)
(* resume_on().  The callers are vesa_detect() and vesa_set_mode(), in an  *)
(* ioctl() of a process that may be killed meanwhile.                      *)
(*                                                                         *)
(* v86_thread never leaves the level CL_NOSWITCH: from its wake-up to its  *)
(* wait_on() nothing else runs, and a call is one step.  So are resume_on()*)
(* and wait_on() of v86_bios_int().  v86_regs holds who filled it in and   *)
(* whether the BIOS has answered; what the BIOS computes is left out.      *)
(***************************************************************************)
EXTENDS Integers, FiniteSets

CONSTANTS Callers, None

\* None is the holder of a free mutex.
V86Assumption == None \notin Callers

VARIABLES
  v86_mutex,
  v86_pagedir,         \* has been created
  v86_thread,          \* "none", "started", "asleep" or "resumed"
  v86_caller_thread,
  v86_retval,
  v86_regs,            \* [of, answered]
  pc,                  \* of each caller
  asleep, must_exit,
  in_v86,              \* whose current page directory is v86_pagedir
  early,               \* history: whose wait was ended by the timer of a select()
  kept,                \* history: a session could not begin and keeps the mutex
  spoilt               \* history: the BIOS ran for no one during this session

vars == <<v86_mutex, v86_pagedir, v86_thread, v86_caller_thread, v86_retval,
          v86_regs, pc, asleep, must_exit, in_v86, early, kept, spoilt>>

Init ==
  /\ v86_mutex = None /\ v86_pagedir = FALSE /\ v86_thread = "none"
  /\ v86_caller_thread = None /\ v86_retval = FALSE
  /\ v86_regs = [of |-> None, answered |-> FALSE]
  /\ pc = [c \in Callers |-> "idle"] /\ asleep = {} /\ must_exit = {}
  /\ in_v86 = {} /\ early = {}
  /\ kept = FALSE /\ spoilt = FALSE

At(c, p) == pc[c] = p /\ c \notin asleep
Goto(c, p) == pc' = [pc EXCEPT ![c] = p]

-----------------------------------------------------------------------------
(* The callers. *)

\* v86_begin_session(): the mutex, when it is free
BeginLock(c) ==
  /\ At(c, "idle") /\ c \notin must_exit /\ v86_mutex = None
  /\ v86_mutex' = c /\ spoilt' = FALSE
  /\ Goto(c, "begin")
  /\ UNCHANGED <<v86_pagedir, v86_thread, v86_caller_thread, v86_retval, v86_regs,
                 asleep, must_exit, kept, in_v86, early>>

\* create_pagedir() or new_thread() fails: return false, with the mutex, and in
\* the second case in the directory that was switched to before.
BeginFails(c) ==
  /\ At(c, "begin") /\ v86_thread = "none"
  /\ \/ ~v86_pagedir /\ UNCHANGED <<v86_pagedir, in_v86>>
     \/ v86_pagedir' = TRUE /\ in_v86' = in_v86 \cup {c}
  /\ kept' = TRUE
  /\ Goto(c, "idle")
  /\ UNCHANGED <<v86_mutex, v86_thread, v86_caller_thread, v86_retval, v86_regs,
                 asleep, must_exit, early, spoilt>>

\* The thread is there, or is started and the caller yields until it waits.
BeginStart(c) ==
  /\ At(c, "begin") /\ v86_thread = "none"
  /\ v86_pagedir' = TRUE /\ v86_thread' = "started" /\ v86_retval' = FALSE
  /\ in_v86' = in_v86 \cup {c}
  /\ Goto(c, "spin")
  /\ UNCHANGED <<v86_mutex, v86_caller_thread, v86_regs, asleep, must_exit, kept, spoilt, early>>
BeginDone(c) ==
  /\ \/ At(c, "begin") /\ v86_thread # "none"
     \/ At(c, "spin") /\ v86_retval
  /\ v86_regs' = [of |-> None, answered |-> FALSE]
  /\ in_v86' = in_v86 \cup {c}
  /\ Goto(c, "session")
  /\ UNCHANGED <<v86_mutex, v86_pagedir, v86_thread, v86_caller_thread, v86_retval,
                 asleep, must_exit, kept, spoilt, early>>

\* v86_regs.ax = ..., for vesa_set_mode() or for the next call of vesa_detect()
SetRegs(c) ==
  /\ At(c, "session") \/ At(c, "answered")
  /\ v86_regs' = [of |-> c, answered |-> FALSE]
  /\ Goto(c, "call")
  /\ UNCHANGED <<v86_mutex, v86_pagedir, v86_thread, v86_caller_thread, v86_retval,
                 asleep, must_exit, kept, spoilt, in_v86, early>>

\* v86_bios_int(): who calls, and then resume_on() and wait_on()
SetCaller(c) ==
  /\ At(c, "call")
  /\ v86_caller_thread' = c
  /\ Goto(c, "resume")
  /\ UNCHANGED <<v86_mutex, v86_pagedir, v86_thread, v86_retval, v86_regs, asleep,
                 must_exit, kept, spoilt, in_v86, early>>
ResumedThread == IF v86_thread = "asleep" THEN "resumed" ELSE v86_thread
ResumeAndWait(c) ==
  /\ At(c, "resume")
  /\ v86_thread' = ResumedThread
  /\ asleep' = asleep \cup {c}
  /\ early' = early \ {c}
  /\ Goto(c, "answered")
  /\ UNCHANGED <<v86_mutex, v86_pagedir, v86_caller_thread, v86_retval, v86_regs,
                 must_exit, kept, spoilt, in_v86>>

\* v86_end_session(), back to v86_prev_pagedir, the caller's own; its caller looks
\* at v86_retval and v86_regs before.
EndCaller(c) ==
  /\ At(c, "answered")
  /\ in_v86' = in_v86 \ {c}
  /\ v86_caller_thread' = None
  /\ Goto(c, "end")
  /\ UNCHANGED <<v86_mutex, v86_pagedir, v86_thread, v86_retval, v86_regs, asleep,
                 must_exit, kept, spoilt, early>>
EndUnlock(c) ==
  /\ At(c, "end")
  /\ v86_mutex' = None
  /\ Goto(c, "idle")
  /\ UNCHANGED <<v86_pagedir, v86_thread, v86_caller_thread, v86_retval, v86_regs,
                 asleep, must_exit, kept, spoilt, in_v86, early>>

-----------------------------------------------------------------------------
(* v86_thread. *)

\* v86_thread_main(1), up to its wait_on()
ThreadStarts ==
  /\ v86_thread = "started"
  /\ v86_thread' = "asleep" /\ v86_retval' = TRUE
  /\ UNCHANGED <<v86_mutex, v86_pagedir, v86_caller_thread, v86_regs, pc, asleep,
                 must_exit, kept, spoilt, in_v86, early>>

\* v86_run_bios_int(), the handlers of its faults, v86_exit_thread() and
\* v86_thread_main(0); the mutation resumes no caller.
Notified_Not == asleep
Notified == asleep \ {v86_caller_thread}
RunBios(status) ==
  /\ v86_thread = "resumed"
  /\ v86_thread' = "asleep" /\ v86_retval' = status
  /\ v86_regs' = [v86_regs EXCEPT !.answered = TRUE]
  /\ asleep' = Notified
  /\ spoilt' = (spoilt \/ v86_caller_thread \notin asleep)
  /\ UNCHANGED <<v86_mutex, v86_pagedir, v86_caller_thread, pc, must_exit, kept, in_v86, early>>

\* kill_thread(), which wakes the thread as often as it goes to sleep
Kill(c) ==
  /\ c \notin must_exit \/ c \in asleep
  /\ must_exit' = must_exit \cup {c} /\ asleep' = asleep \ {c}
  /\ UNCHANGED <<v86_mutex, v86_pagedir, v86_thread, v86_caller_thread, v86_retval,
                 v86_regs, pc, kept, spoilt, in_v86, early>>

\* A timer that an earlier select() of c has left behind resumes what waits on c.
Stray(c) ==
  /\ c \in asleep
  /\ asleep' = asleep \ {c} /\ early' = early \cup {c}
  /\ UNCHANGED <<v86_mutex, v86_pagedir, v86_thread, v86_caller_thread, v86_retval,
                 v86_regs, pc, must_exit, in_v86, kept, spoilt>>

Next ==
  \/ \E c \in Callers :
       \/ BeginLock(c) \/ BeginFails(c) \/ BeginStart(c) \/ BeginDone(c)
       \/ SetRegs(c) \/ SetCaller(c) \/ ResumeAndWait(c)
       \/ EndCaller(c) \/ EndUnlock(c) \/ Kill(c) \/ Stray(c)
  \/ ThreadStarts
  \/ \E status \in BOOLEAN : RunBios(status)

-----------------------------------------------------------------------------
(***************************************************************************)
(* Whoever sleeps for the BIOS is the one it will resume, and the BIOS is  *)
(* about to run; a caller that was resumed, and not killed, finds its own  *)
(* registers answered.  Not so one that waits on itself (v86.c:98) with a  *)
(* timer left over from select() (syscall.c:342), which ends that wait too:*)
(* it goes on before the answer.  A call left behind in this way, or by a  *)
(* killed thread, may run later and spoil the session that is open then.   *)
(***************************************************************************)
CallsAnswered == \A c \in Callers :
  /\ c \in asleep => v86_caller_thread = c /\ v86_thread = "resumed"
  /\ At(c, "answered") /\ c \notin must_exit \cup early /\ ~spoilt =>
       v86_regs = [of |-> c, answered |-> TRUE]

(***************************************************************************)
(* One session at a time, and each that began gives back the mutex and     *)
(* leaves its caller in its own page directory.  One that could not begin  *)
(* does neither (v86.c:39, v86.c:58).                                      *)
(***************************************************************************)
SessionsExclude ==
  /\ \A c \in Callers : pc[c] # "idle" => v86_mutex = c
  /\ v86_mutex # None /\ ~kept => pc[v86_mutex] # "idle"
  /\ \A c \in in_v86 : pc[c] = "idle" => kept

V86Exact == CallsAnswered /\ SessionsExclude
=============================================================================
