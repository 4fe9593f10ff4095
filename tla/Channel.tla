------------------------------- MODULE Channel -------------------------------
(***************************************************************************)
(* One direction of a communication channel of src/src/kernel/user/ipc.c:  *)
(* the circular buffer of a channel_t, that channel_read() empties on one  *)
(* side and channel_write() fills from the other, with the waiting and the *)
(* waking of blocking handles and the killing of blocked threads.          *)
(*                                                                         *)
(* A byte is its position in the stream of all bytes written, so that what *)
(* a reader gets tells whether it is the right byte.  sent and received    *)
(* are history variables: the program does not keep them.                  *)
(*                                                                         *)
(* Abstractions.  Readers and writers are threads of any processes; the    *)
(* scheduler is any interleaving of their steps, a step being what happens *)
(* between two points where the mutex or wait_on() can let others run.     *)
(* The handles stay open (channel_dispose() is not modelled).              *)
(***************************************************************************)
EXTENDS Integers, Sequences

CONSTANTS
  CHANNEL_BUFFER_SIZE,
  Readers, Writers,  \* threads that read from it and write to it
  Reqs,              \* the lengths they ask for
  MaxBytes,          \* bound on the stream
  Modes,             \* the values FM_BLOCKING may take in the handles
  Killable           \* threads that kill_thread() may be called on

N == CHANNEL_BUFFER_SIZE
Threads == Readers \cup Writers

ASSUME ChannelAssumption ==
  /\ CHANNEL_BUFFER_SIZE \in Nat \ {0}
  /\ Readers \cap Writers = {}
  /\ Reqs \subseteq Nat
  /\ MaxBytes \in Nat
  /\ Modes \in SUBSET BOOLEAN
  /\ Killable \subseteq Threads

VARIABLES
  buf, buf_use_begin, buf_used,   \* the fields of channel_t
  lock,                           \* c->lock is taken
  blocking,                       \* FM_BLOCKING in the handle of each side
  pc,                             \* where each thread is
  req, ret, len,                  \* req_len, ret and len of its call
  got,                            \* the bytes a reader has copied out and not
                                  \* yet accounted for
  must_exit,                      \* the threads being killed
  sent, received                  \* history

vars == <<buf, buf_use_begin, buf_used, lock, blocking, pc, req, ret, len,
          got, must_exit, sent, received>>

Sides == {"reader", "writer"}
side(t) == IF t \in Readers THEN "reader" ELSE "writer"

PCs == {"idle", "lock", "copy", "commit", "asleep", "test", "exited"}

TypeOK ==
  /\ buf \in [0 .. N - 1 -> Int]
  /\ buf_use_begin \in 0 .. N - 1
  /\ buf_used \in 0 .. N
  /\ lock \in BOOLEAN
  /\ blocking \in [Sides -> Modes]
  /\ pc \in [Threads -> PCs]
  /\ req \in [Threads -> Nat]
  /\ ret \in [Threads -> Nat]
  /\ len \in [Threads -> Nat]
  /\ got \in [Readers -> Seq(Int)]
  /\ must_exit \in SUBSET Killable
  /\ sent \in Nat
  /\ received \in Seq(Int)

Init ==
  /\ buf = [k \in 0 .. N - 1 |-> -1]
  /\ buf_use_begin = 0
  /\ buf_used = 0
  /\ lock = FALSE
  /\ \E b \in Modes : blocking = [s \in Sides |-> b]
  /\ pc = [t \in Threads |-> "idle"]
  /\ req = [t \in Threads |-> 0]
  /\ ret = [t \in Threads |-> 0]
  /\ len = [t \in Threads |-> 0]
  /\ got = [t \in Readers |-> <<>>]
  /\ must_exit = {}
  /\ sent = 0
  /\ received = <<>>

-----------------------------------------------------------------------------
(***************************************************************************)
(* The copies.                                                             *)
(***************************************************************************)

\* memcpy(buf + dst, ...) of n bytes of the stream, the first being byte
memcpy(b, dst, byte, n) ==
  [k \in DOMAIN b |-> IF k \in dst .. dst + n - 1 THEN byte + k - dst ELSE b[k]]

\* channel_write() without the split where the free space wraps around
Filled_NoWrap(n) == memcpy(buf, buf_use_begin + buf_used, sent, n)

\* The buffer after channel_write() has copied n bytes
Filled(n) ==
  LET end  == buf_use_begin + buf_used
      len0 == IF end + n > N THEN N - end ELSE n
  IN  IF end >= N
      THEN memcpy(buf, end - N, sent, n)
      ELSE memcpy(memcpy(buf, end, sent, len0), 0, sent + len0, n - len0)

\* channel_read() that takes the second part from the wrong place
Taken_NoWrap(n) ==
  [j \in 1 .. n |-> buf[IF buf_use_begin + j - 1 < N THEN buf_use_begin + j - 1
                          ELSE N - 1]]

\* The bytes channel_read() copies out
Taken(n) ==
  LET len0 == IF buf_use_begin + n > N THEN N - buf_use_begin ELSE n
  IN  [j \in 1 .. n |-> IF j <= len0 THEN buf[buf_use_begin + j - 1]
                          ELSE buf[j - len0 - 1]]

\* The buffer's indices after channel_read() has taken n bytes
BeginAfter(n) ==
  IF buf_used = n THEN 0 ELSE (buf_use_begin + n) % N

-----------------------------------------------------------------------------
(***************************************************************************)
(* The calls.                                                              *)
(***************************************************************************)

Call(t, n) ==
  /\ pc[t] = "idle"
  /\ pc' = [pc EXCEPT ![t] = "lock"]
  /\ req' = [req EXCEPT ![t] = n]
  /\ ret' = [ret EXCEPT ![t] = 0]
  /\ UNCHANGED <<buf, buf_use_begin, buf_used, lock, blocking, len, got,
                 must_exit, sent, received>>

\* mutex_lock(), or the mutex_try_lock() loop of channel_write()
Lock(t) ==
  /\ pc[t] = "lock"
  /\ ~ lock
  /\ lock' = TRUE
  /\ pc' = [pc EXCEPT ![t] = "copy"]
  /\ UNCHANGED <<buf, buf_use_begin, buf_used, blocking, req, ret, len, got,
                 must_exit, sent, received>>

\* The loop's test with <= for <
LoopTest_Equal(t) ==
  /\ pc[t] = "test"
  /\ pc' = [pc EXCEPT ![t] = IF blocking[side(t)] /\ ret[t] <= req[t] THEN "lock"
                             ELSE IF t \in must_exit THEN "exited" ELSE "idle"]
  /\ UNCHANGED <<buf, buf_use_begin, buf_used, lock, blocking, req, ret, len,
                 got, must_exit, sent, received>>

\* while ((h->mode & FM_BLOCKING) && ret < req_len), then the return to user
\* mode, where a thread that must exit does
LoopTest(t) ==
  /\ pc[t] = "test"
  /\ pc' = [pc EXCEPT ![t] = IF blocking[side(t)] /\ ret[t] < req[t] THEN "lock"
                             ELSE IF t \in must_exit THEN "exited" ELSE "idle"]
  /\ UNCHANGED <<buf, buf_use_begin, buf_used, lock, blocking, req, ret, len,
                 got, must_exit, sent, received>>

\* ResumeAll that wakes nobody
ResumeNone(t) == [pc EXCEPT ![t] = "test"]

\* resume_on(c), that t calls, wakes readers and writers
ResumeAll(t) ==
  [s \in Threads |-> IF s = t \/ pc[s] = "asleep" THEN "test" ELSE pc[s]]

Min(a, b) == IF a < b THEN a ELSE b

\* What a round of t can copy: len, once it has been cut down
Length(t) ==
  Min(IF t \in Readers THEN buf_used ELSE N - buf_used, req[t] - ret[t])

\* The memcpy()s of a round of channel_read() that finds bytes
ReadCopy(t) ==
  /\ t \in Readers
  /\ pc[t] = "copy"
  /\ Length(t) > 0
  /\ len' = [len EXCEPT ![t] = Length(t)]
  /\ got' = [got EXCEPT ![t] = Taken(Length(t))]
  /\ pc' = [pc EXCEPT ![t] = "commit"]
  /\ UNCHANGED <<buf, buf_use_begin, buf_used, lock, blocking, req, ret,
                 must_exit, sent, received>>

\* The rest of that round: the indices, resume_on() and mutex_unlock()
ReadCommit(t) ==
  /\ t \in Readers
  /\ pc[t] = "commit"
  /\ buf_use_begin' = BeginAfter(len[t])
  /\ buf_used' = buf_used - len[t]
  /\ received' = received \o got[t]
  /\ ret' = [ret EXCEPT ![t] = ret[t] + len[t]]
  /\ pc' = ResumeAll(t)
  /\ lock' = FALSE
  /\ len' = [len EXCEPT ![t] = 0]
  /\ got' = [got EXCEPT ![t] = <<>>]
  /\ UNCHANGED <<buf, blocking, req, must_exit, sent>>

\* The memcpy()s of a round of channel_write() that finds room
WriteCopy(t) ==
  /\ t \in Writers
  /\ pc[t] = "copy"
  /\ Length(t) > 0
  /\ len' = [len EXCEPT ![t] = Length(t)]
  /\ buf' = Filled(Length(t))
  /\ pc' = [pc EXCEPT ![t] = "commit"]
  /\ UNCHANGED <<buf_use_begin, buf_used, lock, blocking, req, ret, got,
                 must_exit, sent, received>>

\* The rest of that round
WriteCommit(t) ==
  /\ t \in Writers
  /\ pc[t] = "commit"
  /\ buf_used' = buf_used + len[t]
  /\ sent' = sent + len[t]
  /\ ret' = [ret EXCEPT ![t] = ret[t] + len[t]]
  /\ pc' = ResumeAll(t)
  /\ lock' = FALSE
  /\ len' = [len EXCEPT ![t] = 0]
  /\ UNCHANGED <<buf, buf_use_begin, blocking, req, got, must_exit, received>>

\* The round that can copy nothing
Nothing(t) == pc[t] = "copy" /\ Length(t) = 0

\* Blocking: unlock and wait_on(c), with interrupts off in between
Sleep(t) ==
  /\ Nothing(t)
  /\ blocking[side(t)]
  /\ lock' = FALSE
  /\ pc' = [pc EXCEPT ![t] = "asleep"]
  /\ UNCHANGED <<buf, buf_use_begin, buf_used, blocking, req, ret, len, got,
                 must_exit, sent, received>>

\* Not blocking: unlock
GiveUp(t) ==
  /\ Nothing(t)
  /\ ~ blocking[side(t)]
  /\ lock' = FALSE
  /\ pc' = [pc EXCEPT ![t] = "test"]
  /\ UNCHANGED <<buf, buf_use_begin, buf_used, blocking, req, ret, len, got,
                 must_exit, sent, received>>

-----------------------------------------------------------------------------
(***************************************************************************)
(* kill_thread() on a thread in a call.                                    *)
(***************************************************************************)

kill_thread(t) ==
  /\ t \in Killable
  /\ pc[t] # "exited"
  /\ t \notin must_exit
  /\ must_exit' = must_exit \cup {t}
  /\ UNCHANGED <<buf, buf_use_begin, buf_used, lock, blocking, pc, req, ret,
                 len, got, sent, received>>

\* Its loop wakes the thread whenever it is paused: wait_on() returns false,
\* which channel_read() and channel_write() do not look at
KillResume(t) ==
  /\ t \in must_exit
  /\ pc[t] = "asleep"
  /\ pc' = [pc EXCEPT ![t] = "test"]
  /\ UNCHANGED <<buf, buf_use_begin, buf_used, lock, blocking, req, ret, len,
                 got, must_exit, sent, received>>

\* An interrupt in user mode: maybe exit
maybe_exit(t) ==
  /\ t \in must_exit
  /\ pc[t] = "idle"
  /\ pc' = [pc EXCEPT ![t] = "exited"]
  /\ UNCHANGED <<buf, buf_use_begin, buf_used, lock, blocking, req, ret, len,
                 got, must_exit, sent, received>>

-----------------------------------------------------------------------------
StartRead(t, n) == t \in Readers /\ Call(t, n)

\* No call is begun that would bring the stream past MaxBytes
StartWrite(t, n) ==
  /\ t \in Writers
  /\ sent + n <= MaxBytes
  /\ Call(t, n)

\* fctl() with FC_SET_BLOCKING or FC_SET_NONBLOCKING, by any thread, also
\* while others are in a call on the same handle
fctl(h, b) ==
  /\ blocking[h] # b
  /\ blocking' = [blocking EXCEPT ![h] = b]
  /\ UNCHANGED <<buf, buf_use_begin, buf_used, lock, pc, req, ret, len, got,
                 must_exit, sent, received>>

Round(t) ==
  \/ ReadCopy(t)
  \/ ReadCommit(t)
  \/ WriteCopy(t)
  \/ WriteCommit(t)
  \/ Sleep(t)
  \/ GiveUp(t)

Next ==
  \/ \E t \in Threads :
       \/ \E n \in Reqs : StartRead(t, n) \/ StartWrite(t, n)
       \/ Lock(t)
       \/ Round(t)
       \/ LoopTest(t)
       \/ kill_thread(t)
       \/ KillResume(t)
       \/ maybe_exit(t)
  \/ \E h \in Sides, b \in Modes : fctl(h, b)

Spec == Init /\ [][Next]_vars

(***************************************************************************)
(* Fairness.  The scheduler dispatches every runnable thread again and     *)
(* again (StarvationFree of Threads), so a thread that can always go on    *)
(* goes on.  The lock is taken by a loop of mutex_try_lock() and yield():  *)
(* a thread that finds it free again and again takes it, hence strong      *)
(* fairness (a thread that always spins while another holds the lock is a  *)
(* schedule the timer's slices rule out in practice, not in principle).    *)
(* The loop of kill_thread() is a runnable thread too.  Nothing makes a    *)
(* process call read() or write(), but FairCalls assumes it of the calls   *)
(* whose effect is looked at.                                              *)
(***************************************************************************)
Fairness ==
  \A t \in Threads :
    /\ SF_vars(Lock(t))
    /\ WF_vars(Round(t))
    /\ WF_vars(LoopTest(t))
    /\ WF_vars(KillResume(t))
    /\ WF_vars(maybe_exit(t))

FairCalls ==
  \A t \in Threads : WF_vars(\E n \in Reqs : StartRead(t, n) \/ StartWrite(t, n))

FairSpec == Spec /\ Fairness
StreamSpec == Spec /\ Fairness /\ FairCalls

-----------------------------------------------------------------------------
(***************************************************************************)
(* Properties.                                                             *)
(***************************************************************************)

\* The i-th slot in use
Slot(i) == IF buf_use_begin + i < N THEN buf_use_begin + i
           ELSE buf_use_begin + i - N

\* The circular buffer holds exactly the bytes that were written and not yet
\* read, in order from buf_use_begin on, wherever it wraps around and however
\* the rounds of several readers and writers interleave.
RingHoldsStream ==
  /\ sent = Len(received) + buf_used
  /\ \A i \in 0 .. buf_used - 1 : buf[Slot(i)] = Len(received) + i

Inside(t) == pc[t] \in {"copy", "commit"}

\* The mutex c->lock is held exactly while one thread is between mutex_lock()
\* and mutex_unlock().
LockExcludes ==
  /\ lock <=> \E t \in Threads : Inside(t)
  /\ \A s, t \in Threads : Inside(s) /\ Inside(t) => s = t

\* A round that was switched out between its memcpy()s and the update of the
\* indices finds the buffer as it left it: what it copied out are the next bytes
\* of the stream, and what it copied in is still there, right behind the bytes
\* in use.
CopiesStand ==
  \A t \in Threads : pc[t] = "commit" =>
    /\ len[t] \in 1 .. req[t] - ret[t]
    /\ t \in Readers =>
         /\ len[t] <= buf_used
         /\ got[t] = [j \in 1 .. len[t] |-> Len(received) + j - 1]
    /\ t \in Writers =>
         /\ len[t] <= N - buf_used
         /\ \A i \in buf_used .. buf_used + len[t] - 1 :
              buf[Slot(i)] = Len(received) + i

\* No wakeup is lost between mutex_unlock() and wait_on(): a reader sleeps only
\* on an empty buffer and a writer only on a full one, unless there is nothing
\* left for it to copy (a call with length zero).
NoLostWakeup ==
  \A t \in Threads :
    pc[t] = "asleep" /\ ret[t] < req[t] =>
      buf_used = IF t \in Readers THEN 0 ELSE N

\* A channel is a pipe: see module Pipe.
PipeOf == INSTANCE Pipe WITH Capacity <- N
ImplementsPipe == PipeOf!Spec

\* What has been written arrives, as long as the readers keep reading.
BytesArrive ==
  \A k \in 1 .. MaxBytes : sent >= k ~> Len(received) >= k

\* A thread in a write returns, or exits when it is killed, as long as the
\* readers keep reading.
WriteReturns == \A t \in Writers : pc[t] # "idle" ~> pc[t] \in {"idle", "exited"}

\* A thread that is being killed leaves its system call and exits.
KilledLeaves == \A t \in Threads : t \in must_exit ~> pc[t] = "exited"
=============================================================================
