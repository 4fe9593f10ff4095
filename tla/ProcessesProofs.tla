---------------------------- MODULE ProcessesProofs ----------------------------
(***************************************************************************)
(* Proofs about module Processes, for any tree of processes, any number of *)
(* workers and thread_t's and any system calls.                            *)
(*                                                                         *)
(* The inductive invariant says what each frame of each stack has tested   *)
(* or done that is still true (Stands), which lock it holds (Locked), and  *)
(* how frames stand on each other: process_exit() is only in the way of    *)
(* the exit of the parent or of a kill (Linked), or at the bottom of a     *)
(* worker's stack (Based).  A process is on its parent's list as long as   *)
(* it is alive, but for the moment before its parent's exit ends it        *)
(* (Tree), and a thread is on its process's list until an exit waits for   *)
(* it to finish (Lives): what process_exit() finds no more on its lists    *)
(* has ended.                                                              *)
(*                                                                         *)
(* Most steps change a stack and little else, and the proof is split the   *)
(* same way: what a change of a stack leaves in order (StacksMove), what   *)
(* each kind of step leaves true of the frames that it keeps (..Stand) and *)
(* of the rest (..Hold), then one lemma per action (..Step).               *)
(***************************************************************************)
EXTENDS Processes, SequenceTheorems, TLAPS

\* Only processes without children make threads: include/process.h 6 says that
\* one thread per process is supported, and two threads of a parent may start
\* and kill one child at once.
SingleThreadedParents == \A p \in Procs : Parent[p] \notin Threaded

\* The executor is in the kernel, innermost at the point given.
Inside(e, point) == stack[e] # <<>> /\ Top(e).at = point

\* exit_cleanup_task() is due for the memory of n, or under way.
CleanupDue(n) ==
  \/ \E k \in tasks : k.kind = "cleanup" /\ k.t = n
  \/ \E w \in Workers :
       (Inside(w, "cleanup") \/ Inside(w, "cleanlock")) /\ Top(w).x = n

\* The memory of a thread_t is not used again while the cleanup task of the
\* thread that lived there is due.  Nothing in the code sees to it: this is
\* what the theorems below take for granted of its heap.
CleanedFirst == \A n \in Slots : tgen'[n] # tgen[n] => ~ CleanupDue(n)

\* Under the lock of a process that exits; and once it has no thread left.
Working == {"xthreads", "xkill", "xchildren", "xfree", "xnotify"}
Quiet == {"xchildren", "xfree", "xnotify"}
Waiting == {"wlock", "wtest", "wsleep", "woken"}
LockedWait == {"wtest", "wreap", "wsleep"}
Gone == {"free", "finished"}

\* The frames that a stack may hold.
Frames ==
       [at : {"quit"}, p : All, x : Calls]
  \cup [at : {"sys", "sysbody"}, p : All, x : {NoProc}]
  \cup [at : {"find"}, p : Procs, x : {"exec", "wait", "poll", "kill"}]
  \cup [at : {"addchild", "start", "run"}, p : Procs, x : {NoProc}]
  \cup [at : {"tadd"}, p : All, x : {"thread", "start"}]
  \cup [at : {"tgo"}, p : All, x : Slots]
  \cup [at : Waiting, p : Procs \cup {NoProc}, x : BOOLEAN]
  \cup [at : {"wreap"}, p : Procs, x : BOOLEAN]
  \cup [at : {"cleanup"}, p : {NoProc}, x : Slots]
  \cup [at : {"cleanlock"}, p : Procs, x : Slots]
  \cup [at : {"xlock"}, p : Procs, x : {"finished", "killed"}]
  \cup [at : {"xthreads", "xchildren", "xnotify"}, p : Procs,
        x : {"finished", "killed", NoProc}]
  \cup [at : {"xkill"}, p : Procs, x : Slots]
  \cup [at : {"xfree"}, p : Procs, x : Procs]

Tasks == [kind : {"exit", "cleanup"}, t : Slots, p : Procs \cup {NoProc}, gen : Nat]

TypeOK ==
  /\ status \in [All -> {"none", "loading", "running", "finished", "killed"}]
  /\ children \in [All -> SUBSET Procs]
  /\ threads \in [All -> SUBSET Slots]
  /\ lock \in [All -> Execs \cup {NoProc}]
  /\ stacked \subseteq All /\ down \subseteq Procs
  /\ tstate \in [Slots -> {"free", "loading", "running", "paused", "finished"}]
  /\ tproc \in [Slots -> All \cup {NoProc}]
  /\ tgen \in [Slots -> Nat]
  /\ begun \subseteq All
  /\ must_exit \in [Slots -> BOOLEAN]
  /\ tasks \subseteq Tasks
  /\ stack \in [Execs -> Seq(Frames)]

\* The exit of its parent is about to end c.
BeingKilled(c) ==
  \E e \in Execs :
    /\ Len(stack[e]) > 1
    /\ stack[e][1].at = "xlock" /\ stack[e][1].p = c
    /\ stack[e][2].at = "xfree"

\* A process is on its parent's list as long as it is alive or its exit has
\* been decided by its parent's; and it has a parent that has had a thread.
Tree ==
  /\ status[Root] = "running"
  /\ \A p \in All : \A c \in children[p] : Parent[c] = p /\ status[c] # "none"
  /\ \A c \in Procs : status[c] # "none" => Parent[c] \in begun
  /\ \A c \in Procs :
       status[c] \in Alive => c \in children[Parent[c]] \/ BeingKilled(c)

\* A thread is on its process's list until an exit waits for it to finish.
BeingWaitedFor(s) == \E e \in Execs : Inside(e, "xkill") /\ Top(e).x = s

Lives ==
  /\ \A s \in Slots : tproc[s] \in All => tproc[s] \in begun
  /\ \A s \in Slots : tproc[s] = NoProc => tstate[s] = "free"
  /\ \A s \in Slots : stack[s] # <<>> => tstate[s] \in {"running", "paused"}
  /\ \A s \in Slots : tstate[s] # "free" => s \in threads[tproc[s]] \/ BeingWaitedFor(s)
  /\ \A p \in All : \A t \in threads[p] : tproc[t] = p /\ tstate[t] # "free"
  /\ \A s, t \in Slots : tproc[s] = tproc[t] /\ tproc[s] \in All \ Threaded => s = t
  /\ \A p \in begun : p \in Procs => p \in stacked \cup down
  /\ \A s \in Slots : must_exit[s] => tproc[s] \in Procs

\* A task is about a process that has had a thread, or about a thread that has
\* finished.
TaskDue(k) ==
  /\ k.kind = "exit" => k.p \in Procs /\ k.p \in begun
  /\ k.kind = "cleanup" => tproc[k.t] \in Procs /\ tstate[k.t] \in Gone
TasksDue == \A k \in tasks : TaskDue(k)

\* What a frame f in the stack of e says of the state.  First whose it is ...
Placed(e, f) ==
  /\ e \in Workers => f.at \in Working \cup {"xlock", "cleanup", "cleanlock"}
  /\ e \in Slots => f.at \notin {"cleanup", "cleanlock"}
  /\ f.at = "quit" => tproc[e] \in Procs
  /\ f.at \in {"sys", "sysbody"} => f.p = tproc[e]
  /\ f.at = "tadd" /\ f.x = "thread" => f.p = tproc[e] /\ f.p \in Threaded
  /\ f.at = "tadd" /\ f.x = "start" => f.p \in Procs
  /\ \/ f.at \in {"find", "addchild", "start", "run", "wreap"}
     \/ f.at = "tadd" /\ f.x = "start"
     \/ f.at \in Waiting /\ f.p # NoProc
     => Parent[f.p] = tproc[e]

\* ... then what it has tested or done, which nobody undoes.
Stands(f) ==
  /\ f.at = "addchild" => status[f.p] = "none"
  /\ f.at = "start" => status[f.p] # "none"
  /\ f.at = "run" \/ (f.at = "tadd" /\ f.x = "start") =>
       /\ status[f.p] \in Alive
       /\ f.p \in stacked \cup down
       /\ f.p \notin begun
  /\ f.at = "tgo" => tstate[f.x] = "loading"
  /\ f.at \in Working \cup {"wreap"} => Exited(f.p)
  /\ f.at = "xkill" => tproc[f.x] = f.p /\ tstate[f.x] # "free" /\ f.x \notin threads[f.p]
  /\ f.at \in Quiet => \A t \in Slots : tproc[t] = f.p => tstate[t] = "free"
  /\ f.at = "xnotify" => f.p \in down
  /\ f.at \in {"cleanup", "cleanlock"} => tproc[f.x] \in Procs /\ tstate[f.x] \in Gone
  /\ f.at = "cleanlock" => tproc[f.x] = f.p

\* ... and the lock it holds.
Locks(e, f, p) ==
  \/ f.at \in Working \cup {"sysbody"} /\ p = f.p
  \/ f.at \in LockedWait /\ e \in Slots /\ p = tproc[e]
Locked(e, f) == \A p \in All : Locks(e, f, p) => lock[p] = e

\* A frame g waits for the frame f above it only in process_exit(), and in a
\* kill.
Linked(e, f, g) ==
  /\ f.at \in Working \cup {"xlock"}
  /\ \/ g.at = "xfree" /\ g.x = f.p /\ g.p = Parent[f.p]
     \/ g.at = "wlock" /\ g.p = f.p /\ e \in Slots

\* The outermost call of process_exit() is a worker's.
Based(e, f) ==
  f.at \in Working \cup {"xlock"} => e \in Workers /\ f.p \in begun

StackInOrder(e) ==
  /\ \A i \in 1 .. Len(stack[e]) :
       Placed(e, stack[e][i]) /\ Stands(stack[e][i]) /\ Locked(e, stack[e][i])
  /\ \A i \in 1 .. (Len(stack[e]) - 1) : Linked(e, stack[e][i], stack[e][i + 1])
  /\ stack[e] # <<>> => Based(e, stack[e][Len(stack[e])])
  /\ \A i, j \in 1 .. Len(stack[e]) :
       i # j /\ stack[e][i].at \in Working /\ stack[e][j].at \in Working =>
         stack[e][i].p # stack[e][j].p
StacksInOrder == \A e \in Execs : StackInOrder(e)

\* A new thread is started by the one that made it only.
OneStarter ==
  \A s, r \in Slots :
    Inside(s, "tgo") /\ Inside(r, "tgo") /\ Top(s).x = Top(r).x => s = r

\* s is in the middle of the exit of c.
Ending(s, c) ==
  \E i \in 1 .. Len(stack[s]) : stack[s][i].at \in Working /\ stack[s][i].p = c

\* A child that has exited cannot be started again by its parent's thread.
NotAgain ==
  \A s \in Slots, c \in Procs :
    Exited(c) /\ tproc[s] = Parent[c] /\ tstate[s] \notin Gone =>
      c \in stacked \cup down \/ Ending(s, c)

DownIsExited == \A p \in down : Exited(p)

IInv ==
  /\ TypeOK
  /\ Tree
  /\ Lives
  /\ TasksDue
  /\ StacksInOrder
  /\ OneStarter
  /\ NotAgain
  /\ DownIsExited
  /\ NoThreadOutlives
  /\ NoOrphanAlive

-----------------------------------------------------------------------------
(***************************************************************************)
(* Frames and stacks.                                                      *)
(***************************************************************************)

\* What the point of a frame says of its arguments.
LEMMA FrameFacts ==
  ASSUME NEW f \in Frames
  PROVE  /\ f.at \in {"quit", "sys", "sysbody", "tadd", "tgo"} => f.p \in All
         /\ f.at \in {"find", "addchild", "start", "run", "wreap", "cleanlock"} => f.p \in Procs
         /\ f.at \in Working \cup {"xlock"} => f.p \in Procs
         /\ f.at \in Waiting => f.p \in Procs \cup {NoProc} /\ f.x \in BOOLEAN
         /\ f.at = "wreap" => f.x \in BOOLEAN
         /\ f.at = "tadd" => f.x \in {"thread", "start"}
         /\ f.at \in {"tgo", "cleanup", "cleanlock", "xkill"} => f.x \in Slots
         /\ f.at = "xlock" => f.x \in {"finished", "killed"}
         /\ f.at \in {"xthreads", "xchildren", "xnotify"} =>
              f.x \in {"finished", "killed", NoProc}
         /\ f.at = "xfree" => f.x \in Procs
         /\ f.at = "find" => f.x \in {"exec", "wait", "poll", "kill"}
         /\ f.at \in {"sys", "sysbody", "addchild", "start", "run"} => f.x = NoProc
         /\ f = [at |-> f.at, p |-> f.p, x |-> f.x]
BY DEF Frames, Working, Waiting, All

\* The frames below the innermost one.
Below(e) == IF stack[e] = <<>> THEN 0 ELSE Len(stack[e]) - 1

\* k frames take the place of the innermost frame of e, if it has one.
Moves(e, k) ==
  /\ stack' \in [Execs -> Seq(Frames)]
  /\ \A d \in Execs : d # e => stack'[d] = stack[d]
  /\ Len(stack'[e]) = k + Below(e)
  /\ \A i \in 1 .. Below(e) : stack'[e][i + k] = stack[e][i + 1]

\* A stack is a sequence of frames.
LEMMA StackFacts ==
  ASSUME TypeOK, NEW e \in Execs
  PROVE  /\ stack[e] \in Seq(Frames)
         /\ Len(stack[e]) \in Nat
         /\ Below(e) \in Nat
         /\ \A i \in 1 .. Len(stack[e]) : stack[e][i] \in Frames
         /\ stack[e] # <<>> => /\ Len(stack[e]) > 0
                               /\ Top(e) = stack[e][1]
                               /\ Top(e) \in Frames
                               /\ Len(stack[e]) = 1 + Below(e)
         /\ stack[e] = <<>> => Len(stack[e]) = 0 /\ Below(e) = 0
<1>1. stack[e] \in Seq(Frames)
  BY DEF TypeOK
<1>2. Len(stack[e]) \in Nat
  BY <1>1
<1>3. \A i \in 1 .. Len(stack[e]) : stack[e][i] \in Frames
  BY <1>1
<1>4. CASE stack[e] # <<>>
  <2>1. Len(stack[e]) > 0
    BY <1>1, <1>4
  <2>2. Top(e) = stack[e][1]
    BY <1>1, <1>4 DEF Top
  <2> QED
    BY <1>1, <1>2, <1>3, <1>4, <2>1, <2>2 DEF Below
<1>5. CASE stack[e] = <<>>
  BY <1>1, <1>5 DEF Below
<1> QED
  BY <1>4, <1>5

\* The ways a stack changes.
LEMMA MoveBecomes ==
  ASSUME TypeOK, NEW e \in Execs, stack[e] # <<>>, NEW fs \in Seq(Frames), Becomes(e, fs)
  PROVE  /\ Moves(e, Len(fs))
         /\ \A i \in 1 .. Len(fs) : stack'[e][i] = fs[i]
<1> DEFINE t == Tail(stack[e])
<1>1. stack[e] \in Seq(Frames)
  BY DEF TypeOK
<1>2. /\ t \in Seq(Frames)
      /\ Len(t) = Len(stack[e]) - 1
      /\ \A i \in 1 .. Len(t) : t[i] = stack[e][i + 1]
  BY <1>1, HeadTailProperties
<1>3. stack' = [stack EXCEPT ![e] = fs \o t]
  BY DEF Becomes
<1> HIDE DEF t
<1>4. /\ fs \o t \in Seq(Frames)
      /\ Len(fs \o t) = Len(fs) + Len(t)
      /\ \A i \in 1 .. Len(fs) + Len(t) : (fs \o t)[i] =
                     IF i <= Len(fs) THEN fs[i] ELSE t[i - Len(fs)]
  BY <1>2, ConcatProperties
<1>5. stack \in [Execs -> Seq(Frames)]
  BY DEF TypeOK
<1>6. stack'[e] = fs \o t
  BY <1>3, <1>5
<1>7. Len(fs) \in Nat /\ Len(t) \in Nat /\ Len(stack[e]) \in Nat
  BY <1>1, <1>2
<1>8. \A i \in 1 .. Len(fs) : stack'[e][i] = fs[i]
  BY <1>4, <1>6, <1>7
<1>9. ASSUME NEW i \in 1 .. Below(e)
      PROVE  stack'[e][i + Len(fs)] = stack[e][i + 1]
  <2>1. i \in 1 .. Len(t)
    BY <1>2 DEF Below
  <2>2. i + Len(fs) \in 1 .. (Len(fs) + Len(t)) /\ ~ (i + Len(fs) <= Len(fs))
        /\ (i + Len(fs)) - Len(fs) = i
    BY <2>1, <1>7
  <2> QED
    BY <1>2, <1>4, <1>6, <2>1, <2>2
<1>10. Len(stack'[e]) = Len(fs) + Below(e)
  BY <1>2, <1>4, <1>6 DEF Below
<1>11. stack' \in [Execs -> Seq(Frames)]
  BY <1>3, <1>4, <1>5
<1>12. \A d \in Execs : d # e => stack'[d] = stack[d]
  BY <1>3, <1>5
<1> QED
  BY <1>8, <1>9, <1>10, <1>11, <1>12 DEF Moves

\* One frame takes the place of the innermost one.
LEMMA MoveReplace ==
  ASSUME TypeOK, NEW e \in Execs, stack[e] # <<>>, NEW f \in Frames, Becomes(e, <<f>>)
  PROVE  Moves(e, 1) /\ stack'[e][1] = f
<1>1. <<f>> \in Seq(Frames) /\ Len(<<f>>) = 1 /\ <<f>>[1] = f
  OBVIOUS
<1> QED
  BY <1>1, MoveBecomes

\* The innermost frame is left.
LEMMA MovePop ==
  ASSUME TypeOK, NEW e \in Execs, stack[e] # <<>>, Becomes(e, <<>>)
  PROVE  Moves(e, 0)
<1>1. <<>> \in Seq(Frames) /\ Len(<<>>) = 0
  OBVIOUS
<1> QED
  BY <1>1, MoveBecomes

\* Two frames take the place of the innermost one: a call is made.
LEMMA MovePush ==
  ASSUME TypeOK, NEW e \in Execs, stack[e] # <<>>,
         NEW f \in Frames, NEW g \in Frames, Becomes(e, <<f, g>>)
  PROVE  Moves(e, 2) /\ stack'[e][1] = f /\ stack'[e][2] = g
<1> DEFINE fs == <<f, g>>
<1>1. fs \in Seq(Frames) /\ Len(fs) = 2 /\ fs[1] = f /\ fs[2] = g
  OBVIOUS
<1> HIDE DEF fs
<1>2. Moves(e, 2) /\ \A i \in 1 .. 2 : stack'[e][i] = fs[i]
  BY <1>1, MoveBecomes DEF fs
<1> QED
  BY <1>1, <1>2

\* An executor outside the kernel enters it.
LEMMA MoveStart ==
  ASSUME TypeOK, NEW e \in Execs, stack[e] = <<>>, NEW f \in Frames,
         stack' = [stack EXCEPT ![e] = <<f>>]
  PROVE  Moves(e, 1) /\ stack'[e][1] = f
<1>1. <<f>> \in Seq(Frames) /\ Len(<<f>>) = 1 /\ <<f>>[1] = f
  OBVIOUS
<1>2. stack \in [Execs -> Seq(Frames)]
  BY DEF TypeOK
<1>3. stack' \in [Execs -> Seq(Frames)] /\ stack'[e] = <<f>>
      /\ \A d \in Execs : d # e => stack'[d] = stack[d]
  BY <1>1, <1>2
<1>4. Below(e) = 0
  BY DEF Below
<1> QED
  BY <1>1, <1>3, <1>4 DEF Moves

\* An executor leaves the kernel, or ends there.
LEMMA MoveStop ==
  ASSUME TypeOK, NEW e \in Execs, Len(stack[e]) = 1, stack' = [stack EXCEPT ![e] = <<>>]
  PROVE  Moves(e, 0)
<1>1. <<>> \in Seq(Frames) /\ Len(<<>>) = 0
  OBVIOUS
<1>2. stack \in [Execs -> Seq(Frames)]
  BY DEF TypeOK
<1>3. stack' \in [Execs -> Seq(Frames)] /\ stack'[e] = <<>>
      /\ \A d \in Execs : d # e => stack'[d] = stack[d]
  BY <1>1, <1>2
<1>4. Below(e) = 0
  BY <1>1 DEF Below
<1> QED
  BY <1>1, <1>3, <1>4 DEF Moves

\* A call returns; at the outermost one a thread that must exit does.
LEMMA MoveReturn ==
  ASSUME TypeOK, NEW e \in Execs, stack[e] # <<>>, Return(e),
         e \in Slots => tproc[e] \in All
  PROVE  \/ Moves(e, 0)
         \/ /\ e \in Slots /\ Len(stack[e]) = 1 /\ must_exit[e]
            /\ Moves(e, 1)
            /\ stack'[e][1] = [at |-> "quit", p |-> tproc[e], x |-> "exit_thread"]
<1>1. CASE e \in Slots /\ Len(stack[e]) = 1 /\ must_exit[e]
  <2> DEFINE f == [at |-> "quit", p |-> tproc[e], x |-> "exit_thread"]
  <2>1. f \in Frames
    BY <1>1 DEF Frames, Calls
  <2>2. Becomes(e, <<f>>)
    BY <1>1 DEF Return, Frame
  <2> QED
    BY <1>1, <2>1, <2>2, MoveReplace
<1>2. CASE ~ (e \in Slots /\ Len(stack[e]) = 1 /\ must_exit[e])
  BY <1>2, MovePop DEF Return
<1> QED
  BY <1>1, <1>2

\* A frame that is not the innermost one of e, in the stack of d.
Kept(e, d, f) ==
  \E i \in 1 .. Len(stack[d]) : stack[d][i] = f /\ (d # e \/ i > 1)

\* What an invariant says of the innermost frame.  Only process_exit() has
\* frames below, and they are of process_exit() or the wait of a kill.
LEMMA TopFacts ==
  ASSUME TypeOK, StacksInOrder, NEW e \in Execs, stack[e] # <<>>
  PROVE  /\ Top(e) \in Frames /\ Top(e) = stack[e][1]
         /\ Placed(e, Top(e)) /\ Stands(Top(e)) /\ Locked(e, Top(e))
         /\ Len(stack[e]) = 1 + Below(e) /\ Below(e) \in Nat
         /\ Below(e) = 0 => Based(e, Top(e))
         /\ Below(e) > 0 => Linked(e, Top(e), stack[e][2])
         /\ Top(e).at \notin Working \cup {"xlock"} => Below(e) = 0
<1>1. /\ Len(stack[e]) \in Nat /\ Len(stack[e]) > 0
      /\ Top(e) = stack[e][1] /\ Top(e) \in Frames
      /\ Len(stack[e]) = 1 + Below(e) /\ Below(e) \in Nat
  BY StackFacts
<1>2. StackInOrder(e)
  BY DEF StacksInOrder
<1>3. 1 \in 1 .. Len(stack[e])
  BY <1>1
<1>4. Placed(e, Top(e)) /\ Stands(Top(e)) /\ Locked(e, Top(e))
  BY <1>1, <1>2, <1>3 DEF StackInOrder
<1>5. Below(e) = 0 => Based(e, Top(e))
  BY <1>1, <1>2 DEF StackInOrder
<1>6. Below(e) > 0 => Linked(e, stack[e][1], stack[e][1 + 1])
  BY <1>1, <1>2 DEF StackInOrder
<1>7. Top(e).at \notin Working \cup {"xlock"} => Below(e) = 0
  BY <1>1, <1>6 DEF Linked
<1> QED
  BY <1>1, <1>4, <1>5, <1>6, <1>7

\* ... and of the others.
LEMMA KeptFacts ==
  ASSUME TypeOK, StacksInOrder, NEW e \in Execs, NEW d \in Execs, NEW f \in Frames,
         Kept(e, d, f)
  PROVE  /\ stack[d] # <<>>
         /\ Placed(d, f) /\ Stands(f) /\ Locked(d, f)
         /\ f.at \notin {"xfree", "wlock"} => d # e /\ f = Top(d)
         /\ d = e => /\ Top(e).at \in Working \cup {"xlock"}
                     /\ f.at \in Working /\ Top(e).at \in Working => f.p # Top(e).p
<1>1. PICK i \in 1 .. Len(stack[d]) : stack[d][i] = f /\ (d # e \/ i > 1)
  BY DEF Kept
<1>2. StackInOrder(d)
  BY DEF StacksInOrder
<1>3. Len(stack[d]) \in Nat /\ stack[d] # <<>>
  BY <1>1, StackFacts
<1>4. Placed(d, f) /\ Stands(f) /\ Locked(d, f)
  BY <1>1, <1>2 DEF StackInOrder
<1>5. Top(d) = stack[d][1]
  BY <1>3, StackFacts
<1>6. ASSUME i > 1
      PROVE  f.at \in {"xfree", "wlock"}
  <2>1. i - 1 \in 1 .. (Len(stack[d]) - 1) /\ (i - 1) + 1 = i
    BY <1>1, <1>3, <1>6
  <2>2. Linked(d, stack[d][i - 1], stack[d][(i - 1) + 1])
    BY <1>2, <2>1 DEF StackInOrder
  <2> QED
    BY <1>1, <2>1, <2>2 DEF Linked
<1>7. ASSUME f.at \notin {"xfree", "wlock"}
      PROVE  d # e /\ f = Top(d)
  <2>1. i = 1
    BY <1>1, <1>6, <1>7
  <2> QED
    BY <1>1, <1>5, <2>1
<1>8. ASSUME d = e
      PROVE  /\ Top(e).at \in Working \cup {"xlock"}
             /\ f.at \in Working /\ Top(e).at \in Working => f.p # Top(e).p
  <2>1. i > 1 /\ Below(e) > 0 /\ 1 \in 1 .. Len(stack[d])
    BY <1>1, <1>3, <1>8, StackFacts
  <2>2. Top(e).at \in Working \cup {"xlock"}
    BY <1>3, <1>8, <2>1, TopFacts
  <2>3. f.at \in Working /\ Top(e).at \in Working => f.p # Top(e).p
    BY <1>1, <1>2, <1>5, <1>8, <2>1 DEF StackInOrder
  <2> QED
    BY <2>2, <2>3
<1> QED
  BY <1>3, <1>4, <1>7, <1>8

\* The frames below the innermost one are kept, and are on their way out.
LEMMA BelowKept ==
  ASSUME TypeOK, StacksInOrder, NEW e \in Execs
  PROVE  /\ \A i \in 2 .. Len(stack[e]) : Kept(e, e, stack[e][i])
         /\ \A d \in Execs : d # e =>
              \A i \in 1 .. Len(stack[d]) : Kept(e, d, stack[d][i])
<1>1. ASSUME NEW i \in 2 .. Len(stack[e])
      PROVE  Kept(e, e, stack[e][i])
  <2>1. i \in 1 .. Len(stack[e]) /\ i > 1
    BY StackFacts
  <2> QED
    BY <2>1 DEF Kept
<1>2. ASSUME NEW d \in Execs, d # e, NEW i \in 1 .. Len(stack[d])
      PROVE  Kept(e, d, stack[d][i])
  BY <1>2 DEF Kept
<1> QED
  BY <1>1, <1>2

\* A process that makes no threads has one: two threads with the same one are
\* the same.
LEMMA OneThread ==
  ASSUME TypeOK, Lives, SingleThreadedParents, NEW c \in Procs,
         NEW s \in Slots, NEW r \in Slots, tproc[s] = Parent[c], tproc[r] = Parent[c]
  PROVE  s = r
<1>1. Parent[c] \in All \ Threaded
  BY ProcessesAssumption DEF SingleThreadedParents
<1> QED
  BY <1>1 DEF Lives

\* An executor inside the kernel is a worker or a thread that lives.
LEMMA InsideFacts ==
  ASSUME TypeOK, Lives, NEW s \in Slots, stack[s] # <<>>
  PROVE  /\ tstate[s] \in {"running", "paused"}
         /\ tstate[s] \notin Gone
         /\ tproc[s] \in All
         /\ s \in Execs
<1>1. tstate[s] \in {"running", "paused"}
  BY DEF Lives
<1>2. tproc[s] \in All
  BY <1>1 DEF Lives, TypeOK
<1> QED
  BY <1>1, <1>2 DEF Gone, Execs

\* The frames that are kept say what they said.
KeptStand(e) ==
  \A d \in Execs, f \in Frames : Kept(e, d, f) => Placed(d, f)' /\ Stands(f)' /\ Locked(d, f)'

\* A thread keeps its process, which has had one.
SameProcs ==
  /\ \A t \in Slots : tstate[t] # "free" => tproc'[t] = tproc[t]
  /\ begun \subseteq begun'

\* The stacks stay in order when the k new frames of e are: each says what is
\* true, waits for the one above it, and holds the lock of a process of its own.
LEMMA StacksMove ==
  ASSUME TypeOK, StacksInOrder, NEW e \in Execs, NEW k \in 0 .. 2, Moves(e, k),
         KeptStand(e), SameProcs,
         \A i \in 1 .. k : (Placed(e, stack[e][i]) /\ Stands(stack[e][i])
                              /\ Locked(e, stack[e][i]))',
         k = 2 => Linked(e, stack'[e][1], stack'[e][2])
                  /\ ~ (stack'[e][1].at \in Working /\ stack'[e][2].at \in Working),
         k > 0 /\ Below(e) > 0 => Linked(e, stack'[e][k], stack[e][2]),
         k > 0 /\ Below(e) = 0 => Based(e, stack[e][k])',
         \A i \in 1 .. k : stack'[e][i].at \in Working =>
           \A j \in 2 .. Len(stack[e]) :
             stack[e][j].at \in Working => stack[e][j].p # stack'[e][i].p
  PROVE  StacksInOrder'
<1>1. /\ stack' \in [Execs -> Seq(Frames)]
      /\ \A d \in Execs : d # e => stack'[d] = stack[d]
      /\ Len(stack'[e]) = k + Below(e)
      /\ \A i \in 1 .. Below(e) : stack'[e][i + k] = stack[e][i + 1]
  BY DEF Moves
<1>2. /\ Below(e) \in Nat /\ Len(stack[e]) \in Nat
      /\ Below(e) > 0 => Len(stack[e]) = Below(e) + 1
      /\ stack[e] = <<>> => Below(e) = 0
  BY StackFacts
<1>3. \A d \in Execs : StackInOrder(d)
  BY DEF StacksInOrder
<1>4. ASSUME NEW d \in Execs, NEW f, f.at \in Working \cup {"xlock"} => f.p \in All, Based(d, f)
      PROVE  Based(d, f)'
  <2>1. CASE f.at \in Working \cup {"xlock"}
    BY <1>4, <2>1 DEF Based, SameProcs
  <2>2. CASE f.at \notin Working \cup {"xlock"}
    BY <2>2 DEF Based
  <2> QED
    BY <2>1, <2>2
<1>5. ASSUME NEW d \in Execs, NEW i \in 1 .. Len(stack[d])
      PROVE  stack[d][i] \in Frames
             /\ (stack[d][i].at \in Working \cup {"xlock"} => stack[d][i].p \in All)
  <2>1. stack[d][i] \in Frames
    BY StackFacts
  <2> QED
    BY <2>1, FrameFacts DEF All
<1>6. ASSUME NEW d \in Execs, d # e
      PROVE  StackInOrder(d)'
  <2>1. stack'[d] = stack[d]
    BY <1>1, <1>6
  <2>2. ASSUME NEW i \in 1 .. Len(stack[d])
        PROVE  (Placed(d, stack[d][i]) /\ Stands(stack[d][i]) /\ Locked(d, stack[d][i]))'
    <3> DEFINE f == stack[d][i]
    <3>1. Kept(e, d, f) /\ f \in Frames
      BY <1>5, <1>6 DEF Kept
    <3> HIDE DEF f
    <3>2. (Placed(d, f) /\ Stands(f) /\ Locked(d, f))
      BY <3>1, KeptFacts
    <3>3. ASSUME NEW g, g = f
          PROVE  Placed(d, g)' /\ Stands(g)' /\ Locked(d, g)'
      BY <3>1, <3>3 DEF KeptStand
    <3>4. ASSUME NEW g, g = stack'[d][i]
          PROVE  Placed(d, g)' /\ Stands(g)' /\ Locked(d, g)'
      BY <3>3, <3>4, <2>1 DEF f
    <3> QED
      BY <3>4 DEF Placed, Stands, Locked, Locks
  <2>3. stack[d] # <<>> => Based(d, stack[d][Len(stack[d])])'
    <3> SUFFICES ASSUME stack[d] # <<>> PROVE Based(d, stack[d][Len(stack[d])])'
      OBVIOUS
    <3>1. Len(stack[d]) \in 1 .. Len(stack[d])
      BY StackFacts
    <3>2. Based(d, stack[d][Len(stack[d])])
      BY <1>3 DEF StackInOrder
    <3>3. ASSUME NEW g, g = stack[d][Len(stack[d])]
          PROVE  Based(d, g)'
      BY <3>1, <3>2, <3>3, <1>4, <1>5
    <3>4. ASSUME NEW g, g = stack'[d][Len(stack'[d])]
          PROVE  Based(d, g)'
      BY <3>3, <3>4, <2>1
    <3> QED
      BY <3>4 DEF Based
  <2>4. /\ \A i \in 1 .. (Len(stack[d]) - 1) : Linked(d, stack[d][i], stack[d][i + 1])
        /\ \A i, j \in 1 .. Len(stack[d]) :
             i # j /\ stack[d][i].at \in Working /\ stack[d][j].at \in Working =>
               stack[d][i].p # stack[d][j].p
    BY <1>3 DEF StackInOrder
  <2>5. \A i \in 1 .. (Len(stack'[d]) - 1) : Linked(d, stack'[d][i], stack'[d][i + 1])
    BY <2>1, <2>4
  <2>6. (\A i \in 1 .. (Len(stack[d]) - 1) : Linked(d, stack[d][i], stack[d][i + 1]))'
    BY <2>5 DEF Linked
  <2> QED
    BY <2>1, <2>2, <2>3, <2>4, <2>6 DEF StackInOrder
<1>7. StackInOrder(e)'
  <2>1. ASSUME NEW i \in 1 .. Below(e)
        PROVE  /\ i + 1 \in 2 .. Len(stack[e]) /\ i + 1 \in 1 .. Len(stack[e])
               /\ i + k \in 1 .. Len(stack'[e])
               /\ stack'[e][i + k] = stack[e][i + 1]
    BY <2>1, <1>1, <1>2
  <2>2. ASSUME NEW i \in 1 .. Len(stack'[e]), i > k
        PROVE  /\ i - k \in 1 .. Below(e) /\ i - k + 1 \in 2 .. Len(stack[e])
               /\ stack'[e][i] = stack[e][i - k + 1]
    <3>1. i - k \in 1 .. Below(e) /\ (i - k) + k = i
      BY <2>2, <1>1, <1>2
    <3> QED
      BY <3>1, <2>1
  <2>3. ASSUME NEW i \in 1 .. Len(stack'[e])
        PROVE  (Placed(e, stack[e][i]) /\ Stands(stack[e][i]) /\ Locked(e, stack[e][i]))'
    <3>1. CASE i <= k
      BY <3>1, <1>1, <1>2
    <3>2. CASE i > k
      <4>1. PICK j \in 2 .. Len(stack[e]) : stack'[e][i] = stack[e][j]
        BY <3>2, <2>2
      <4>2. Kept(e, e, stack[e][j]) /\ stack[e][j] \in Frames
        BY <4>1, <1>2, <1>5 DEF Kept
      <4>3. ASSUME NEW g, g = stack[e][j]
            PROVE  Placed(e, g)' /\ Stands(g)' /\ Locked(e, g)'
        BY <4>2, <4>3 DEF KeptStand
      <4>4. ASSUME NEW g, g = stack'[e][i]
            PROVE  Placed(e, g)' /\ Stands(g)' /\ Locked(e, g)'
        BY <4>3, <4>4, <4>1
      <4> QED
        BY <4>4 DEF Placed, Stands, Locked, Locks
    <3> QED
      BY <3>1, <3>2, <1>1, <1>2
  <2>4. ASSUME NEW i \in 1 .. (Len(stack'[e]) - 1)
        PROVE  Linked(e, stack'[e][i], stack'[e][i + 1])
    <3>1. CASE i > k
      <4>1. i - k \in 1 .. Below(e) /\ (i - k) + 1 \in 1 .. Below(e)
        BY <3>1, <1>1, <1>2
      <4>2. /\ stack'[e][i] = stack[e][(i - k) + 1]
            /\ stack'[e][i + 1] = stack[e][((i - k) + 1) + 1]
        <5>1. (i - k) + k = i /\ ((i - k) + 1) + k = i + 1
          BY <1>1, <1>2
        <5> QED
          BY <4>1, <5>1, <1>1
      <4>3. (i - k) + 1 \in 1 .. (Len(stack[e]) - 1)
        BY <4>1, <1>2
      <4> QED
        BY <4>2, <4>3, <1>3 DEF StackInOrder
    <3>2. CASE i = k
      <4>1. k > 0 /\ Below(e) > 0 /\ 1 \in 1 .. Below(e) /\ 1 + k = i + 1
        BY <3>2, <1>1, <1>2
      <4>2. stack'[e][i + 1] = stack[e][1 + 1]
        BY <4>1, <1>1
      <4> QED
        BY <3>2, <4>1, <4>2
    <3>3. CASE i < k
      <4>1. i = 1 /\ k = 2
        BY <3>3
      <4> QED
        BY <4>1
    <3> QED
      BY <3>1, <3>2, <3>3, <1>1, <1>2
  <2>5. stack'[e] # <<>> => Based(e, stack[e][Len(stack[e])])'
    <3> SUFFICES ASSUME stack'[e] # <<>> PROVE Based(e, stack[e][Len(stack[e])])'
      OBVIOUS
    <3>1. stack'[e] \in Seq(Frames)
      BY <1>1
    <3>2. Len(stack'[e]) > 0
      BY <3>1
    <3>3. CASE Below(e) = 0
      <4>1. Len(stack'[e]) = k /\ k > 0
        BY <3>2, <3>3, <1>1
      <4> QED
        BY <3>3, <4>1
    <3>4. CASE Below(e) > 0
      <4>1. Below(e) \in 1 .. Below(e) /\ Below(e) + 1 = Len(stack[e]) /\ Below(e) + k = Len(stack'[e])
            /\ Len(stack[e]) \in 1 .. Len(stack[e]) /\ stack[e] # <<>>
        BY <3>4, <1>1, <1>2
      <4>2. stack'[e][Len(stack'[e])] = stack[e][Len(stack[e])]
        BY <4>1, <1>1
      <4>3. Based(e, stack[e][Len(stack[e])])
        BY <4>1, <1>3 DEF StackInOrder
      <4>4. ASSUME NEW g, g = stack[e][Len(stack[e])]
            PROVE  Based(e, g)'
        BY <4>1, <4>3, <4>4, <1>4, <1>5
      <4>5. ASSUME NEW g, g = stack'[e][Len(stack'[e])]
            PROVE  Based(e, g)'
        BY <4>2, <4>4, <4>5
      <4> QED
        BY <4>5 DEF Based
    <3> QED
      BY <3>3, <3>4, <1>2
  <2>6. ASSUME NEW i \in 1 .. Len(stack'[e]), NEW j \in 1 .. Len(stack'[e]), i # j,
               stack'[e][i].at \in Working, stack'[e][j].at \in Working
        PROVE  stack'[e][i].p # stack'[e][j].p
    <3>1. CASE i > k /\ j > k
      <4>1. /\ stack'[e][i] = stack[e][i - k + 1] /\ stack'[e][j] = stack[e][j - k + 1]
            /\ i - k + 1 \in 2 .. Len(stack[e]) /\ j - k + 1 \in 2 .. Len(stack[e])
        BY <3>1, <2>2
      <4>2. /\ i - k + 1 # j - k + 1
            /\ i - k + 1 \in 1 .. Len(stack[e]) /\ j - k + 1 \in 1 .. Len(stack[e])
        BY <4>1, <2>6, <1>1, <1>2
      <4> QED
        BY <4>1, <4>2, <2>6, <1>3 DEF StackInOrder
    <3>2. CASE i > k /\ j <= k
      <4>1. PICK h \in 2 .. Len(stack[e]) : stack'[e][i] = stack[e][h]
        BY <3>2, <2>2
      <4>2. j \in 1 .. k
        BY <3>2, <1>1, <1>2
      <4> QED
        BY <4>1, <4>2, <2>6
    <3>3. CASE i <= k /\ j > k
      <4>1. PICK h \in 2 .. Len(stack[e]) : stack'[e][j] = stack[e][h]
        BY <3>3, <2>2
      <4>2. i \in 1 .. k
        BY <3>3, <1>1, <1>2
      <4> QED
        BY <4>1, <4>2, <2>6
    <3>4. CASE i <= k /\ j <= k
      <4>1. k = 2 /\ ((i = 1 /\ j = 2) \/ (i = 2 /\ j = 1))
        BY <3>4, <2>6, <1>1, <1>2
      <4> QED
        BY <4>1, <2>6
    <3> QED
      BY <3>1, <3>2, <3>3, <3>4, <1>1, <1>2
  <2>7. (\A i \in 1 .. (Len(stack[e]) - 1) : Linked(e, stack[e][i], stack[e][i + 1]))'
    BY <2>4 DEF Linked
  <2> QED
    BY <2>3, <2>5, <2>6, <2>7 DEF StackInOrder
<1> QED
  BY <1>6, <1>7 DEF StacksInOrder

-----------------------------------------------------------------------------
(***************************************************************************)
(* What stays when executor e takes a step.                                *)
(***************************************************************************)

\* The call of e returns to the frame below, if there is one.
LEMMA StacksPop ==
  ASSUME TypeOK, StacksInOrder, NEW e \in Execs, Moves(e, 0), KeptStand(e), SameProcs
  PROVE  StacksInOrder'
<1> DEFINE k == 0
<1>1. k \in 0 .. 2 /\ ~ (k > 0) /\ k # 2 /\ 1 .. k = {}
  OBVIOUS
<1>2. Moves(e, k)
  OBVIOUS
<1> HIDE DEF k
<1> QED
  BY <1>1, <1>2, StacksMove

\* e is in one frame at most, which another one replaces.
LEMMA StacksOne ==
  ASSUME TypeOK, StacksInOrder, NEW e \in Execs, Moves(e, 1), KeptStand(e), SameProcs,
         Below(e) = 0,
         (Placed(e, stack[e][1]) /\ Stands(stack[e][1]) /\ Locked(e, stack[e][1])
           /\ Based(e, stack[e][1]))'
  PROVE  StacksInOrder'
<1>1. 2 .. Len(stack[e]) = {}
  BY StackFacts
<1> DEFINE k == 1
<1>2. k \in 0 .. 2 /\ k # 2 /\ 1 .. k = {1} /\ ~ (Below(e) > 0)
  OBVIOUS
<1>3. Moves(e, k)
  OBVIOUS
<1>4. \A i \in 1 .. k : (Placed(e, stack[e][i]) /\ Stands(stack[e][i])
                           /\ Locked(e, stack[e][i]))'
  BY <1>2
<1>5. Based(e, stack[e][k])'
  OBVIOUS
<1> HIDE DEF k
<1> QED
  BY <1>1, <1>2, <1>3, <1>4, <1>5, StacksMove

\* process_exit() goes on.
LEMMA StacksExit ==
  ASSUME TypeOK, StacksInOrder, NEW e \in Execs, Moves(e, 1), KeptStand(e), SameProcs,
         stack[e] # <<>>, Top(e).at \in Working \cup {"xlock"},
         NEW g, g = stack'[e][1],
         g.p = Top(e).p, g.at \in Working, 
         Top(e).at = "xlock" => Free(Top(e).p),
         (Placed(e, stack[e][1]) /\ Stands(stack[e][1]) /\ Locked(e, stack[e][1]))'
  PROVE  StacksInOrder'
<1> DEFINE k == 1
<1>2. k \in 0 .. 2 /\ k # 2 /\ 1 .. k = {1}
  OBVIOUS
<1>3. Moves(e, k)
  OBVIOUS
<1>4. \A i \in 1 .. k : (Placed(e, stack[e][i]) /\ Stands(stack[e][i])
                           /\ Locked(e, stack[e][i]))'
  BY <1>2
<1>5. Below(e) > 0 => Linked(e, stack'[e][k], stack[e][2])
  BY TopFacts DEF Linked
<1>6. Below(e) = 0 => Based(e, stack[e][k])'
  <2> SUFFICES ASSUME Below(e) = 0 PROVE Based(e, stack[e][k])'
    OBVIOUS
  <2>1. Based(e, Top(e)) /\ Top(e) \in Frames
    BY TopFacts
  <2>2. Top(e).p \in All
    BY <2>1, FrameFacts DEF All
  <2>3. e \in Workers /\ Top(e).p \in begun'
    BY <2>1, <2>2 DEF Based, SameProcs
  <2> QED
    BY <2>3 DEF Based
<1>7. ASSUME NEW j \in 2 .. Len(stack[e]), stack[e][j].at \in Working
      PROVE  stack[e][j].p # g.p
  <2> DEFINE f == stack[e][j]
  <2>1. f \in Frames /\ Kept(e, e, f)
    <3>1. j \in 1 .. Len(stack[e])
      BY StackFacts
    <3> QED
      BY <3>1, BelowKept, StackFacts
  <2>2. CASE Top(e).at \in Working
    <3> HIDE DEF f
    <3>1. f.at \in Working => f.p # Top(e).p
      BY <2>1, <2>2, KeptFacts
    <3> QED
      BY <3>1, <1>7 DEF f
  <2>3. CASE Top(e).at = "xlock"
    <3>1. f.at \in Working /\ f.p \in All
      BY <1>7, <2>1, FrameFacts DEF All
    <3> HIDE DEF f
    <3>2. Locked(e, f)
      BY <2>1, KeptFacts
    <3>3. lock[f.p] = e
      BY <3>1, <3>2 DEF Locked, Locks
    <3>4. lock[Top(e).p] # e
      BY <2>3, ProcessesAssumption DEF Free
    <3> QED
      BY <3>3, <3>4 DEF f
  <2> QED
    BY <2>2, <2>3
<1>8. \A i \in 1 .. k : stack'[e][i].at \in Working =>
        \A j \in 2 .. Len(stack[e]) :
          stack[e][j].at \in Working => stack[e][j].p # stack'[e][i].p
  BY <1>2, <1>7
<1> HIDE DEF k
<1> QED
  BY <1>2, <1>3, <1>4, <1>5, <1>6, <1>8, StacksMove

\* A process of a thread in the kernel stays its process.
LEMMA PlacedStays ==
  ASSUME TypeOK, Lives, StacksInOrder, NEW e \in Execs, SameProcs
  PROVE  \A d \in Execs, f \in Frames : Kept(e, d, f) => Placed(d, f)'
<1> SUFFICES ASSUME NEW d \in Execs, NEW f \in Frames, Kept(e, d, f)
             PROVE  Placed(d, f)'
  OBVIOUS
<1>1. Placed(d, f) /\ stack[d] # <<>>
  BY KeptFacts
<1>2. CASE d \in Slots
  <2>1. tproc'[d] = tproc[d]
    BY <1>1, <1>2, InsideFacts DEF SameProcs
  <2> QED
    BY <1>1, <2>1 DEF Placed
<1>3. CASE d \in Workers
  <2>1. f.at \in Working \cup {"xlock", "cleanup", "cleanlock"} /\ d \notin Slots
    BY <1>1, <1>3, ProcessesAssumption DEF Placed
  <2> QED
    BY <2>1 DEF Placed, Working, Waiting
<1> QED
  BY <1>2, <1>3 DEF Execs

\* e takes a lock, or gives one back that its innermost frame holds.
LockStep(e) ==
  \/ UNCHANGED lock
  \/ \E p \in All : Take(e, p)
  \/ \E p \in All : stack[e] # <<>> /\ Locks(e, Top(e), p) /\ Release(p)

\* Nobody loses a lock but who gives it back.
LEMMA LocksStay ==
  ASSUME TypeOK, Lives, StacksInOrder, NEW e \in Execs, SameProcs,
         LockStep(e)
  PROVE  \A d \in Execs, f \in Frames : Kept(e, d, f) => Locked(d, f)'
<1> SUFFICES ASSUME NEW d \in Execs, NEW f \in Frames, Kept(e, d, f), NEW p \in All,
                    Locks(d, f, p)'
             PROVE  lock'[p] = d
  BY DEF Locked
<1>1. Locked(d, f) /\ stack[d] # <<>>
  BY KeptFacts
<1>2. d \in Slots => tproc'[d] = tproc[d]
  BY <1>1, InsideFacts DEF SameProcs
<1>3. Locks(d, f, p)
  BY <1>2 DEF Locks
<1>4. lock[p] = d
  BY <1>1, <1>3 DEF Locked
<1>5. d # NoProc /\ lock \in [All -> Execs \cup {NoProc}]
  BY ProcessesAssumption DEF TypeOK
<1>6. CASE UNCHANGED lock
  BY <1>4, <1>6
<1>7. CASE \E q \in All : Take(e, q)
  BY <1>4, <1>5, <1>7 DEF Take, Free
<1>8. CASE \E q \in All : stack[e] # <<>> /\ Locks(e, Top(e), q) /\ Release(q)
  <2>1. PICK q \in All : stack[e] # <<>> /\ Locks(e, Top(e), q) /\ Release(q)
    BY <1>8
  <2>2. q # p
    <3> SUFFICES ASSUME q = p PROVE FALSE
      OBVIOUS
    <3>1. Locked(e, Top(e))
      BY <2>1, TopFacts
    <3>2. lock[p] = e
      BY <2>1, <3>1 DEF Locked
    <3>3. d = e
      BY <1>4, <3>2
    <3>4. /\ Top(e).at \in Working \cup {"xlock"}
          /\ f.at \in Working /\ Top(e).at \in Working => f.p # Top(e).p
          /\ f.at \in {"xfree", "wlock"}
      BY <3>3, KeptFacts
    <3>5. Top(e).at \in Working /\ p = Top(e).p
      BY <2>1, <3>4 DEF Locks, LockedWait, Working
    <3>6. f.at \in Working /\ p = f.p
      BY <1>3, <3>4 DEF Locks, LockedWait, Working
    <3> QED
      BY <3>4, <3>5, <3>6
  <2> QED
    BY <1>4, <1>5, <2>1, <2>2 DEF Release
<1> QED
  BY <1>6, <1>7, <1>8 DEF LockStep

\* A step with locks leaves each one free or with an executor.
LEMMA LockTypes ==
  ASSUME TypeOK, NEW e \in Execs, LockStep(e)
  PROVE  lock' \in [All -> Execs \cup {NoProc}]
BY DEF TypeOK, LockStep, Take, Release

\* Together.
LEMMA KeptStandBy ==
  ASSUME TypeOK, Lives, StacksInOrder, NEW e \in Execs, SameProcs,
         LockStep(e),
         \A d \in Execs, f \in Frames : Kept(e, d, f) => Stands(f)'
  PROVE  KeptStand(e)
<1>1. \A d \in Execs, f \in Frames : Kept(e, d, f) => Placed(d, f)'
  BY PlacedStays
<1>2. \A d \in Execs, f \in Frames : Kept(e, d, f) => Locked(d, f)'
  BY LocksStay
<1> QED
  BY <1>1, <1>2 DEF KeptStand

\* c waits for its end at the top of a stack, which only its executor changes.
LEMMA BeingKilledStays ==
  ASSUME TypeOK, NEW e \in Execs, NEW k \in 0 .. 2, Moves(e, k), NEW c,
         BeingKilled(c), Inside(e, "xlock") => Top(e).p # c
  PROVE  BeingKilled(c)'
<1>1. PICK d \in Execs : /\ Len(stack[d]) > 1
                         /\ stack[d][1].at = "xlock" /\ stack[d][1].p = c
                         /\ stack[d][2].at = "xfree"
  BY DEF BeingKilled
<1>2. stack[d] # <<>> /\ Top(d) = stack[d][1]
  BY <1>1, StackFacts
<1>3. d # e
  BY <1>1, <1>2 DEF Inside
<1>4. stack'[d] = stack[d]
  BY <1>3 DEF Moves
<1> QED
  BY <1>1, <1>4 DEF BeingKilled

\* kill_thread() waits in the innermost frame, which only its executor leaves.
LEMMA WaitedForStays ==
  ASSUME NEW e \in Execs, NEW k \in 0 .. 2, Moves(e, k), NEW s,
         BeingWaitedFor(s), Inside(e, "xkill") => Top(e).x # s
  PROVE  BeingWaitedFor(s)'
<1>1. PICK d \in Execs : Inside(d, "xkill") /\ Top(d).x = s
  BY DEF BeingWaitedFor
<1>2. d # e
  BY <1>1
<1>3. stack'[d] = stack[d]
  BY <1>2 DEF Moves
<1> QED
  BY <1>1, <1>3 DEF BeingWaitedFor, Inside, Top

\* process_exit() on c goes on, until its own step ends it.
LEMMA EndingStays ==
  ASSUME TypeOK, NEW e \in Execs, NEW k \in 0 .. 2, Moves(e, k),
         NEW s \in Execs, NEW c, Ending(s, c),
         \/ s # e
         \/ ~ (Top(e).at \in Working /\ Top(e).p = c)
         \/ \E i \in 1 .. k : stack'[e][i].at \in Working /\ stack'[e][i].p = c
  PROVE  Ending(s, c)'
<1>0. /\ Len(stack'[e]) = k + Below(e)
      /\ \A i \in 1 .. Below(e) : stack'[e][i + k] = stack[e][i + 1]
      /\ Below(e) \in Nat
  BY StackFacts DEF Moves
<1>1. PICK i \in 1 .. Len(stack[s]) : stack[s][i].at \in Working /\ stack[s][i].p = c
  BY DEF Ending
<1>2. CASE s # e
  <2>1. stack'[s] = stack[s]
    BY <1>2 DEF Moves
  <2> QED
    BY <1>1, <2>1 DEF Ending
<1>3. CASE \E j \in 1 .. k : stack'[e][j].at \in Working /\ stack'[e][j].p = c
  <2>1. CASE s = e
    <3>1. PICK j \in 1 .. k : stack'[e][j].at \in Working /\ stack'[e][j].p = c
      BY <1>3
    <3>2. j \in 1 .. Len(stack'[e])
      BY <1>0
    <3> QED
      BY <2>1, <3>1, <3>2 DEF Ending
  <2> QED
    BY <1>2, <2>1
<1>4. CASE s = e /\ ~ (Top(e).at \in Working /\ Top(e).p = c)
  <2>1. Len(stack[e]) \in Nat /\ stack[e] # <<>> /\ Top(e) = stack[e][1]
        /\ Len(stack[e]) = 1 + Below(e)
    BY <1>1, <1>4, StackFacts
  <2>2. i # 1
    BY <1>1, <1>4, <2>1
  <2>3. i - 1 \in 1 .. Below(e) /\ (i - 1) + k \in 1 .. Len(stack'[e]) /\ (i - 1) + 1 = i
    <3>1. i \in 1 .. (1 + Below(e)) /\ i # 1 /\ Below(e) \in Nat
          /\ Len(stack'[e]) = k + Below(e)
      BY <1>0, <1>1, <1>4, <2>1, <2>2
    <3> QED
      BY <3>1
  <2>4. stack'[e][(i - 1) + k] = stack[e][i]
    BY <1>0, <2>3
  <2> QED
    BY <1>1, <1>4, <2>3, <2>4 DEF Ending
<1> QED
  BY <1>2, <1>3, <1>4

\* The innermost frame after a step that is not the start of a new thread.
LEMMA OneStarterStays ==
  ASSUME TypeOK, StacksInOrder, OneStarter, NEW e \in Execs, NEW k \in 0 .. 2, Moves(e, k),
         k > 0 => stack'[e][1].at # "tgo"
  PROVE  OneStarter'
<1>1. ~ Inside(e, "tgo")'
  <2> SUFFICES ASSUME stack'[e] # <<>>, Head(stack'[e]).at = "tgo" PROVE FALSE
    BY DEF Inside, Top
  <2>1. /\ stack'[e] \in Seq(Frames)
        /\ Len(stack'[e]) = k + Below(e) /\ Below(e) \in Nat
        /\ \A i \in 1 .. Below(e) : stack'[e][i + k] = stack[e][i + 1]
    BY StackFacts DEF Moves
  <2>2. Head(stack'[e]) = stack'[e][1] /\ Len(stack'[e]) > 0
    BY <2>1
  <2>3. k = 0
    BY <2>2
  <2>4. 1 \in 1 .. Below(e) /\ 1 + k = 1
    BY <2>1, <2>2, <2>3
  <2>5. stack'[e][1] = stack[e][1 + 1]
    BY <2>1, <2>4
  <2>6. stack[e] # <<>>
    BY <2>4, StackFacts
  <2>7. Linked(e, Top(e), stack[e][2])
    BY <2>4, <2>6, TopFacts
  <2> QED
    BY <2>2, <2>5, <2>7 DEF Linked
<1>2. ASSUME NEW s \in Slots, NEW r \in Slots, Inside(s, "tgo")', Inside(r, "tgo")',
             (Top(s).x = Top(r).x)'
      PROVE  s = r
  <2>1. s # e /\ r # e /\ s \in Execs /\ r \in Execs
    BY <1>1, <1>2 DEF Execs
  <2>2. stack'[s] = stack[s] /\ stack'[r] = stack[r]
    BY <2>1 DEF Moves
  <2> QED
    BY <1>2, <2>2 DEF OneStarter, Inside, Top
<1> QED
  BY <1>2 DEF OneStarter

\* A step that changes no process and no thread, but for lists of children ...
SameButLists == UNCHANGED <<status, threads, stacked, down, tstate, tproc, tgen, begun, must_exit>>

\* ... or not even these.
Still == SameButLists /\ UNCHANGED children

\* The part of the invariant that speaks of stacks only in passing.
LEMMA ListsHold ==
  ASSUME IInv, NEW e \in Execs, NEW k \in 0 .. 2, Moves(e, k), SameButLists,
         Tree', children' \in [All -> SUBSET Procs],
         e \in Slots => tstate[e] = "running",
         lock' \in [All -> Execs \cup {NoProc}], tasks' \subseteq Tasks,
         TasksDue', StacksInOrder',
         ~ Inside(e, "xkill"),
         Inside(e, "xlock") => status[Top(e).p] \notin Alive,
         stack[e] # <<>> /\ Top(e).at \in Working =>
           \/ Top(e).p \in down
           \/ \E i \in 1 .. k : stack'[e][i].at \in Working /\ stack'[e][i].p = Top(e).p,
         k > 0 => stack'[e][1].at # "tgo"
  PROVE  IInv'
<1>1. TypeOK'
  BY DEF IInv, TypeOK, SameButLists, Moves
<1>2. Lives'
  <2>1. ASSUME NEW s \in Slots, BeingWaitedFor(s)
        PROVE  BeingWaitedFor(s)'
    BY <2>1, WaitedForStays
  <2>2. ASSUME NEW s \in Slots, stack'[s] # <<>>
        PROVE  tstate[s] \in {"running", "paused"}
    <3>1. CASE s = e
      BY <3>1
    <3>2. CASE s # e
      <4>1. stack'[s] = stack[s]
        BY <3>2 DEF Moves, Execs
      <4> QED
        BY <2>2, <4>1 DEF IInv, Lives
    <3> QED
      BY <3>1, <3>2
  <2>3. Lives
    BY DEF IInv
  <2> QED
    BY <2>1, <2>2, <2>3 DEF Lives, SameButLists
<1>3. OneStarter'
  BY OneStarterStays DEF IInv
<1>4. NotAgain'
  <2>1. ASSUME NEW s \in Slots, NEW c \in Procs, Ending(s, c), c \notin down
        PROVE  Ending(s, c)'
    <3>1. s \in Execs /\ TypeOK
      BY DEF Execs, IInv
    <3>2. CASE s # e
      BY <2>1, <3>1, <3>2, EndingStays
    <3>3. CASE s = e
      <4>1. stack[e] # <<>>
        BY <2>1, <3>1, <3>3, StackFacts DEF Ending
      <4> QED
        BY <2>1, <3>1, <4>1, EndingStays
    <3> QED
      BY <3>2, <3>3
  <2>2. NotAgain
    BY DEF IInv
  <2> QED
    BY <2>1, <2>2 DEF NotAgain, SameButLists, Exited
<1>5. DownIsExited' /\ NoThreadOutlives' /\ NoOrphanAlive'
  BY DEF IInv, DownIsExited, NoThreadOutlives, NoOrphanAlive, SameButLists, Exited
<1> QED
  BY <1>1, <1>2, <1>3, <1>4, <1>5 DEF IInv

\* ... and of a step that changes no list either.
LEMMA StillHolds ==
  ASSUME IInv, NEW e \in Execs, NEW k \in 0 .. 2, Moves(e, k), Still,
         e \in Slots => tstate[e] = "running",
         lock' \in [All -> Execs \cup {NoProc}], tasks' \subseteq Tasks,
         TasksDue', StacksInOrder',
         ~ Inside(e, "xkill"),
         Inside(e, "xlock") => status[Top(e).p] \notin Alive,
         stack[e] # <<>> /\ Top(e).at \in Working =>
           \/ Top(e).p \in down
           \/ \E i \in 1 .. k : stack'[e][i].at \in Working /\ stack'[e][i].p = Top(e).p,
         k > 0 => stack'[e][1].at # "tgo"
  PROVE  IInv'
<1>1. Tree'
  <2>1. ASSUME NEW c \in Procs, status[c] \in Alive, BeingKilled(c)
        PROVE  BeingKilled(c)'
    BY <2>1, BeingKilledStays DEF IInv
  <2>2. Tree
    BY DEF IInv
  <2> QED
    BY <2>1, <2>2 DEF Tree, Still, SameButLists
<1>2. SameButLists /\ children' \in [All -> SUBSET Procs]
  BY DEF Still, IInv, TypeOK
<1> QED
  BY <1>1, <1>2, ListsHold

\* Such a step leaves what frames say, and the tasks that are due.
LEMMA StillStands ==
  ASSUME TypeOK, StacksInOrder, NEW e \in Execs, SameButLists
  PROVE  /\ SameProcs
         /\ \A f \in Frames : Stands(f) => Stands(f)'
         /\ \A d \in Execs, f \in Frames : Kept(e, d, f) => Stands(f)'
<1>1. \A f \in Frames : Stands(f) => Stands(f)'
  BY DEF SameButLists, Stands, Exited
<1>2. \A d \in Execs, f \in Frames : Kept(e, d, f) => Stands(f)'
  BY <1>1, KeptFacts
<1> QED
  BY <1>1, <1>2 DEF SameProcs, SameButLists

\* ... and the tasks that are due.
LEMMA StillDue ==
  ASSUME TasksDue, SameButLists, tasks' \subseteq tasks
  PROVE  TasksDue'
BY DEF TasksDue, TaskDue, SameButLists

\* A thread goes on with a call, or a worker with a task, outside
\* process_exit(): one frame takes the place of another or of none.
LEMMA StillOne ==
  ASSUME IInv, NEW e \in Execs, Moves(e, 1), Still, Below(e) = 0, LockStep(e),
         e \in Slots => tstate[e] = "running",
         tasks' \subseteq Tasks, TasksDue',
         stack[e] # <<>> => Top(e).at \notin Working \cup {"xlock"},
         NEW g, g = stack'[e][1], g.at # "tgo",
         Placed(e, g), Stands(g), Locked(e, g)', Based(e, g), g \in Frames
  PROVE  IInv'
<1>1. TypeOK /\ Lives /\ StacksInOrder
  BY DEF IInv
<1>2. /\ SameProcs
      /\ \A d \in Execs, f \in Frames : Kept(e, d, f) => Stands(f)'
      /\ Stands(g)'
  BY <1>1, StillStands DEF Still
<1>3. KeptStand(e)
  BY <1>1, <1>2, KeptStandBy
<1>4. Placed(e, g)' /\ Based(e, g)'
  BY DEF Placed, Based, Still, SameButLists
<1>5. (Placed(e, stack[e][1]) /\ Stands(stack[e][1]) /\ Locked(e, stack[e][1])
           /\ Based(e, stack[e][1]))'
  BY <1>2, <1>4 DEF Placed, Stands, Locked, Locks, Based
<1>6. StacksInOrder'
  BY <1>1, <1>2, <1>3, <1>5, StacksOne
<1>7. lock' \in [All -> Execs \cup {NoProc}]
  BY <1>1, LockTypes
<1>8. /\ ~ Inside(e, "xkill")
      /\ ~ Inside(e, "xlock")
      /\ ~ (stack[e] # <<>> /\ Top(e).at \in Working)
  BY DEF Inside, Working
<1> DEFINE k == 1
<1>9. k \in 0 .. 2 /\ Moves(e, k)
  OBVIOUS
<1> HIDE DEF k
<1> QED
  BY <1>6, <1>7, <1>8, <1>9, StillHolds

\* A call returns, to the frame below, to user mode or to exit().
LEMMA ReturnStacks ==
  ASSUME TypeOK, Lives, StacksInOrder, NEW e \in Execs, stack[e] # <<>>, Return(e),
         KeptStand(e), SameProcs
  PROVE  /\ StacksInOrder'
         /\ \E k \in 0 .. 2 : Moves(e, k) /\ (k > 0 => stack'[e][1].at # "tgo")
<1>1. e \in Slots => tproc[e] \in All
  BY InsideFacts
<1>2. CASE Moves(e, 0)
  <2>1. StacksInOrder'
    BY <1>2, StacksPop
  <2> DEFINE k == 0
  <2>2. k \in 0 .. 2 /\ Moves(e, k) /\ ~ (k > 0)
    BY <1>2
  <2> HIDE DEF k
  <2> QED
    BY <2>1, <2>2
<1>3. CASE /\ e \in Slots /\ Len(stack[e]) = 1 /\ must_exit[e]
           /\ Moves(e, 1)
           /\ stack'[e][1] = [at |-> "quit", p |-> tproc[e], x |-> "exit_thread"]
  <2>1. tproc[e] \in Procs /\ Below(e) = 0 /\ tproc'[e] = tproc[e] /\ e \notin Workers
    BY <1>1, <1>3, StackFacts, ProcessesAssumption DEF Lives, SameProcs
  <2>2. ASSUME NEW g, g = stack'[e][1]
        PROVE  Placed(e, g)' /\ Stands(g)' /\ Locked(e, g)' /\ Based(e, g)'
    <3>1. g.at = "quit"
      BY <1>3, <2>2
    <3>2. Placed(e, g)'
      BY <2>1, <3>1 DEF Placed, Waiting
    <3>3. Stands(g)'
      BY <3>1 DEF Stands, Working, Quiet
    <3>4. Locked(e, g)' /\ Based(e, g)'
      BY <3>1 DEF Locked, Locks, Based, Working, LockedWait
    <3> QED
      BY <3>2, <3>3, <3>4
  <2>3. (Placed(e, stack[e][1]) /\ Stands(stack[e][1]) /\ Locked(e, stack[e][1])
           /\ Based(e, stack[e][1]))'
    BY <2>2 DEF Placed, Stands, Locked, Locks, Based
  <2>4. StacksInOrder'
    BY <1>3, <2>1, <2>3, StacksOne
  <2> DEFINE k == 1
  <2>5. k \in 0 .. 2 /\ Moves(e, k) /\ stack'[e][1].at # "tgo"
    BY <1>3
  <2> HIDE DEF k
  <2> QED
    BY <2>4, <2>5
<1> QED
  BY <1>1, <1>2, <1>3, MoveReturn

\* A system call or a task returns, in a step that changes nothing else.
LEMMA StillReturn ==
  ASSUME IInv, NEW e \in Execs, stack[e] # <<>>, Return(e), Still, LockStep(e),
         e \in Slots => tstate[e] = "running", UNCHANGED tasks,
         Top(e).at # "xkill", Top(e).at = "xlock" => status[Top(e).p] \notin Alive,
         Top(e).at \in Working => Top(e).p \in down
  PROVE  IInv'
<1>1. TypeOK /\ Lives /\ StacksInOrder /\ TasksDue
  BY DEF IInv
<1>2. SameProcs /\ KeptStand(e)
  BY <1>1, StillStands, KeptStandBy DEF Still
<1>3. TasksDue' /\ tasks' \subseteq Tasks /\ lock' \in [All -> Execs \cup {NoProc}]
  BY <1>1, StillDue, LockTypes DEF TypeOK, Still
<1>4. ~ Inside(e, "xkill") /\ (Inside(e, "xlock") => status[Top(e).p] \notin Alive)
  BY DEF Inside
<1>5. StacksInOrder'
  BY <1>1, <1>2, ReturnStacks
<1>6. PICK k \in 0 .. 2 : Moves(e, k) /\ (k > 0 => stack'[e][1].at # "tgo")
  BY <1>1, <1>2, ReturnStacks
<1> QED
  BY <1>3, <1>4, <1>5, <1>6, StillHolds

-----------------------------------------------------------------------------
(***************************************************************************)
(* System calls that change nothing but the caller's stack, and locks.     *)
(***************************************************************************)

\* An executor at a point of the kernel.
LEMMA AtFacts ==
  ASSUME IInv, NEW e \in Execs, NEW point, At(e, point)
  PROVE  /\ stack[e] # <<>> /\ Top(e).at = point
         /\ Top(e) \in Frames /\ Top(e) = stack[e][1]
         /\ Placed(e, Top(e)) /\ Stands(Top(e)) /\ Locked(e, Top(e))
         /\ Len(stack[e]) = 1 + Below(e) /\ Below(e) \in Nat
         /\ Below(e) = 0 => Based(e, Top(e))
         /\ Below(e) > 0 => Linked(e, Top(e), stack[e][2])
         /\ point \notin Working \cup {"xlock"} => Below(e) = 0
         /\ e \in Slots => tstate[e] = "running" /\ tproc[e] \in All
<1>1. stack[e] # <<>> /\ Top(e).at = point
  BY DEF At, Top
<1>2. e \in Slots => tstate[e] = "running" /\ tproc[e] \in All
  BY <1>1, InsideFacts DEF IInv, At, CanRun
<1> QED
  BY <1>1, <1>2, TopFacts DEF IInv

\* The innermost call goes on at another point, with other arguments ...
LEMMA GoWithMoves ==
  ASSUME TypeOK, NEW e \in Execs, stack[e] # <<>>, NEW point, NEW x,
         [at |-> point, p |-> Top(e).p, x |-> x] \in Frames, GoWith(e, point, x)
  PROVE  Moves(e, 1) /\ stack'[e][1] = [at |-> point, p |-> Top(e).p, x |-> x]
<1>1. Becomes(e, <<[at |-> point, p |-> Top(e).p, x |-> x]>>)
  BY DEF GoWith, Frame
<1> QED
  BY <1>1, MoveReplace

\* ... or with the ones it has.
LEMMA GoToMoves ==
  ASSUME TypeOK, NEW e \in Execs, stack[e] # <<>>, NEW point,
         [at |-> point, p |-> Top(e).p, x |-> Top(e).x] \in Frames, GoTo(e, point)
  PROVE  Moves(e, 1) /\ stack'[e][1] = [at |-> point, p |-> Top(e).p, x |-> Top(e).x]
BY GoWithMoves DEF GoTo

\* The frame that a system call begins with.
LEMMA SyscallFrame ==
  ASSUME IInv, NEW s \in Slots, NEW call \in Calls, NEW c \in All, Syscall(s, call, c)
  PROVE  \E g \in Frames :
           /\ stack' = [stack EXCEPT ![s] = <<g>>]
           /\ g.at \in {"quit", "sys", "tadd", "addchild", "wlock", "find"}
           /\ g.at = "tadd" => g.x = "thread"
           /\ g.at = "addchild" => status[g.p] = "none"
           /\ Placed(s, g)
<1>1. /\ stack[s] = <<>> /\ tproc[s] \in All /\ s \notin Workers
  BY ProcessesAssumption DEF Syscall, IInv, Lives, TypeOK
<1>2. NoProc \notin All
  BY ProcessesAssumption
<1>3. CASE call \in {"exit", "exit_thread"}
  <2> DEFINE g == Frame("quit", c, call)
  <2>1. stack' = [stack EXCEPT ![s] = <<g>>] /\ c = tproc[s] /\ tproc[s] # Root
    BY <1>3 DEF Syscall
  <2>2. g \in Frames /\ g.at = "quit" /\ Placed(s, g)
    BY <1>1, <2>1 DEF Frame, Frames, Placed, All, Waiting
  <2> QED
    BY <2>1, <2>2
<1>4. CASE call = "mmap"
  <2> DEFINE g == Frame("sys", c, NoProc)
  <2>1. stack' = [stack EXCEPT ![s] = <<g>>] /\ c = tproc[s]
    BY <1>4 DEF Syscall
  <2>2. g \in Frames /\ g.at = "sys" /\ Placed(s, g)
    BY <1>1, <2>1 DEF Frame, Frames, Placed, Waiting
  <2> QED
    BY <2>1, <2>2
<1>5. CASE call = "new_thread"
  <2> DEFINE g == Frame("tadd", c, "thread")
  <2>1. stack' = [stack EXCEPT ![s] = <<g>>] /\ c = tproc[s] /\ c \in Threaded
    BY <1>5 DEF Syscall
  <2>2. g \in Frames /\ g.at = "tadd" /\ g.x = "thread" /\ Placed(s, g)
    BY <1>1, <2>1 DEF Frame, Frames, Placed, Waiting
  <2> QED
    BY <2>1, <2>2
<1>6. CASE call = "new_proc"
  <2> DEFINE g == Frame("addchild", c, NoProc)
  <2>1. /\ stack' = [stack EXCEPT ![s] = <<g>>]
        /\ c \in Procs /\ Parent[c] = tproc[s] /\ status[c] = "none"
    BY <1>6 DEF Syscall
  <2>2. g \in Frames /\ g.at = "addchild" /\ g.p = c /\ Placed(s, g)
    BY <1>1, <2>1 DEF Frame, Frames, Placed, Waiting
  <2> QED
    BY <2>1, <2>2
<1>7. CASE call \in {"wait_any", "poll_any"}
  <2> DEFINE g == Frame("wlock", NoProc, call = "wait_any")
  <2>1. stack' = [stack EXCEPT ![s] = <<g>>]
    BY <1>7 DEF Syscall
  <2>2. g \in Frames /\ g.at = "wlock" /\ Placed(s, g)
    BY <1>1 DEF Frame, Frames, Placed, Waiting
  <2> QED
    BY <2>1, <2>2
<1>8. CASE call \in {"exec", "wait", "poll", "kill"}
  <2> DEFINE g == Frame("find", c, call)
  <2>1. stack' = [stack EXCEPT ![s] = <<g>>] /\ c \in Procs /\ Parent[c] = tproc[s]
    BY <1>8 DEF Syscall
  <2>2. g \in Frames /\ g.at = "find" /\ Placed(s, g)
    BY <1>1, <1>8, <2>1 DEF Frame, Frames, Placed, Waiting
  <2> QED
    BY <2>1, <2>2
<1> QED
  BY <1>3, <1>4, <1>5, <1>6, <1>7, <1>8 DEF Calls

\* syscall.c: a call begins; exit() also hands its task to a worker.
LEMMA SyscallStep ==
  ASSUME IInv, NEW s \in Slots, NEW call \in Calls, NEW c \in All, Syscall(s, call, c)
  PROVE  IInv'
<1>1. PICK g \in Frames :
           /\ stack' = [stack EXCEPT ![s] = <<g>>]
           /\ g.at \in {"quit", "sys", "tadd", "addchild", "wlock", "find"}
           /\ g.at = "tadd" => g.x = "thread"
           /\ g.at = "addchild" => status[g.p] = "none"
           /\ Placed(s, g)
  BY SyscallFrame
<1>2. s \in Execs /\ TypeOK /\ stack[s] = <<>> /\ tstate[s] = "running"
      /\ tproc[s] \in All /\ UNCHANGED lock /\ Still
  BY DEF Execs, IInv, Syscall, Still, SameButLists, procVars, threadVars, Lives, TypeOK
<1>3. Moves(s, 1) /\ stack'[s][1] = g /\ Below(s) = 0
  BY <1>1, <1>2, MoveStart DEF Below
<1>4. Stands(g) /\ Locked(s, g)' /\ Based(s, g) /\ g.at # "tgo"
  BY <1>1 DEF Stands, Locked, Locks, Based, Working, Quiet, LockedWait
<1>5. tasks' \subseteq Tasks /\ TasksDue'
  <2>1. CASE call # "exit"
    BY <2>1, <1>2, StillDue DEF Syscall, IInv, TypeOK, Still
  <2>2. CASE call = "exit"
    <3>1. tasks' = tasks \cup {Task("exit", s, c)} /\ c = tproc[s] /\ c \in Procs
      BY <2>2, <1>2 DEF Syscall, All
    <3>2. Task("exit", s, c) \in Tasks /\ TaskDue(Task("exit", s, c))
      BY <3>1, <1>2 DEF Task, Tasks, TaskDue, TypeOK, Lives, IInv
    <3>3. \A k \in tasks' : TaskDue(k)
      BY <3>1, <3>2 DEF IInv, TasksDue
    <3>4. (\A k \in tasks : TaskDue(k))'
      BY <3>3, <1>2 DEF TaskDue, Still, SameButLists
    <3> QED
      BY <3>1, <3>2, <3>4 DEF IInv, TypeOK, TasksDue
  <2> QED
    BY <2>1, <2>2
<1> QED
  BY <1>1, <1>2, <1>3, <1>4, <1>5, StillOne DEF LockStep

\* A thread that must exit does on its way to user mode.
LEMMA MaybeExitStep ==
  ASSUME IInv, NEW s \in Slots, maybe_exit(s)
  PROVE  IInv'
<1> SUFFICES ASSUME NEW g, g = [at |-> "quit", p |-> tproc[s], x |-> "exit_thread"]
             PROVE  IInv'
  OBVIOUS
<1>1. s \in Execs /\ s \notin Workers /\ TypeOK /\ TasksDue /\ stack[s] = <<>>
      /\ tstate[s] = "running" /\ tproc[s] \in Procs
      /\ UNCHANGED <<lock, tasks>> /\ Still
  BY ProcessesAssumption
     DEF Execs, IInv, maybe_exit, Still, SameButLists, procVars, threadVars, Lives, TypeOK
<1>2. g \in Frames /\ stack' = [stack EXCEPT ![s] = <<g>>]
  BY <1>1 DEF Frames, Calls, All, maybe_exit, Frame
<1>3. Moves(s, 1) /\ stack'[s][1] = g /\ Below(s) = 0
  BY <1>1, <1>2, MoveStart DEF Below
<1>4. g.at = "quit"
  OBVIOUS
<1>5. Placed(s, g) /\ Stands(g) /\ Locked(s, g)' /\ Based(s, g) /\ g.at # "tgo"
  BY <1>1, <1>4 DEF Placed, Stands, Locked, Locks, Based, Working, Quiet, Waiting, LockedWait
<1>6. tasks' \subseteq Tasks /\ TasksDue'
  BY <1>1, StillDue DEF TypeOK, Still
<1> QED
  BY <1>1, <1>2, <1>3, <1>5, <1>6, StillOne DEF LockStep

\* mmap() and others, under the lock of the process.
LEMMA SysLockStep ==
  ASSUME IInv, NEW s \in Slots, SysLock(s)
  PROVE  IInv'
<1> SUFFICES ASSUME NEW g, g = [at |-> "sysbody", p |-> Top(s).p, x |-> Top(s).x]
             PROVE  IInv'
  OBVIOUS
<1>1. s \in Execs /\ s \notin Workers /\ TypeOK /\ TasksDue /\ At(s, "sys")
      /\ UNCHANGED tasks /\ Still
  BY ProcessesAssumption
     DEF Execs, IInv, SysLock, Still, SameButLists, procVars, threadVars
<1>2. /\ stack[s] # <<>> /\ Top(s).at = "sys" /\ Below(s) = 0 /\ Top(s).p \in All
      /\ Top(s).x = NoProc /\ Top(s).p = tproc[s] /\ tstate[s] = "running"
  <2>1. Top(s) \in Frames /\ Top(s).at = "sys" /\ Placed(s, Top(s))
    BY <1>1, AtFacts
  <2> QED
    BY <1>1, <2>1, FrameFacts, AtFacts DEF Working, Placed
<1>3. g \in Frames /\ GoTo(s, "sysbody") /\ Take(s, Top(s).p)
  BY <1>2 DEF Frames, SysLock
<1>4. Moves(s, 1) /\ stack'[s][1] = g
  BY <1>1, <1>2, <1>3, GoToMoves
<1>5. g.at = "sysbody" /\ g.p = tproc[s] /\ lock'[g.p] = s
  BY <1>1, <1>2, <1>3 DEF Take, TypeOK
<1>6. Placed(s, g) /\ Stands(g) /\ Locked(s, g)' /\ Based(s, g) /\ g.at # "tgo"
  <2>1. Placed(s, g) /\ Stands(g) /\ Based(s, g)
    BY <1>1, <1>5 DEF Placed, Stands, Based, Working, Quiet, Waiting
  <2>2. \A p \in All : Locks(s, g, p)' => p = g.p
    BY <1>5 DEF Locks, LockedWait
  <2> QED
    BY <1>5, <2>1, <2>2 DEF Locked
<1>7. tasks' \subseteq Tasks /\ TasksDue'
  BY <1>1, StillDue DEF TypeOK, Still
<1>8. LockStep(s)
  BY <1>2, <1>3 DEF LockStep
<1> QED
  BY <1>1, <1>2, <1>3, <1>4, <1>6, <1>7, <1>8, StillOne DEF Working

\* mmap() and others: the lock is given back.
LEMMA SysUnlockStep ==
  ASSUME IInv, NEW s \in Slots, SysUnlock(s)
  PROVE  IInv'
<1>1. s \in Execs /\ At(s, "sysbody") /\ UNCHANGED tasks /\ Still
      /\ Return(s) /\ Release(Top(s).p)
  BY DEF Execs, SysUnlock, Still, SameButLists, procVars, threadVars
<1>2. /\ stack[s] # <<>> /\ Top(s).at = "sysbody" /\ Top(s) \in Frames
      /\ tstate[s] = "running"
  BY <1>1, AtFacts
<1>3. LockStep(s)
  BY <1>1, <1>2, FrameFacts DEF LockStep, Locks
<1> QED
  BY <1>1, <1>2, <1>3, StillReturn DEF Working

\* A kill: process_exit() on c, above the wait for it.
LEMMA KillPush ==
  ASSUME IInv, NEW s \in Slots, At(s, "find"), Still, UNCHANGED <<lock, tasks>>,
         Becomes(s, <<Frame("xlock", Top(s).p, "killed"), Frame("wlock", Top(s).p, TRUE)>>)
  PROVE  IInv'
<1>1. s \in Execs /\ s \notin Workers /\ TypeOK /\ TasksDue /\ Lives /\ StacksInOrder
  BY ProcessesAssumption DEF Execs, IInv
<1>2. /\ stack[s] # <<>> /\ Top(s).at = "find" /\ Below(s) = 0
      /\ Top(s) \in Frames /\ Placed(s, Top(s)) /\ tstate[s] = "running"
  BY <1>1, AtFacts DEF Working
<1>3. Top(s).p \in Procs /\ Parent[Top(s).p] = tproc[s]
  BY <1>2, FrameFacts DEF Placed
<1> SUFFICES ASSUME NEW f, f = [at |-> "xlock", p |-> Top(s).p, x |-> "killed"],
                    NEW g, g = [at |-> "wlock", p |-> Top(s).p, x |-> TRUE]
             PROVE  IInv'
  OBVIOUS
<1>4. f \in Frames /\ g \in Frames
  BY <1>3 DEF Frames, Waiting
<1>5. Moves(s, 2) /\ stack'[s][1] = f /\ stack'[s][2] = g
  BY <1>1, <1>2, <1>4, MovePush DEF Frame
<1>6. Placed(s, f)' /\ Stands(f)' /\ Locked(s, f)'
  BY <1>1 DEF Placed, Stands, Locked, Locks, Working, Quiet, Waiting, LockedWait
<1>7. Placed(s, g)' /\ Stands(g)' /\ Locked(s, g)'
  BY <1>1, <1>3 DEF Placed, Stands, Locked, Locks, Working, Quiet, Waiting, LockedWait, Still, SameButLists
<1>8. Linked(s, f, g) /\ Based(s, g)' /\ f.at \notin Working /\ g.at \notin Working
  BY DEF Linked, Based, Working
<1>9. SameProcs /\ KeptStand(s)
  BY <1>1, StillStands, KeptStandBy DEF LockStep, Still
<1> DEFINE k == 2
<1>10. k \in 0 .. 2 /\ Moves(s, k) /\ 1 .. k = {1, 2}
  BY <1>5
<1>11. \A i \in 1 .. k : (Placed(s, stack[s][i]) /\ Stands(stack[s][i])
                              /\ Locked(s, stack[s][i]))'
  BY <1>5, <1>6, <1>7, <1>10 DEF Placed, Stands, Locked, Locks
<1>12. Based(s, stack[s][k])'
  BY <1>5, <1>8 DEF Based
<1>13. \A i \in 1 .. k : stack'[s][i].at \notin Working
  BY <1>5, <1>8, <1>10
<1>14. k = 2 => Linked(s, stack'[s][1], stack'[s][2])
                  /\ ~ (stack'[s][1].at \in Working /\ stack'[s][2].at \in Working)
  BY <1>5, <1>8
<1>15. stack'[s][1].at # "tgo"
  BY <1>5
<1> HIDE DEF k
<1>16. StacksInOrder'
  BY <1>1, <1>2, <1>9, <1>10, <1>11, <1>12, <1>13, <1>14, StacksMove
<1>17. /\ tasks' \subseteq Tasks /\ TasksDue' /\ lock' \in [All -> Execs \cup {NoProc}]
       /\ ~ Inside(s, "xkill") /\ ~ Inside(s, "xlock") /\ Top(s).at \notin Working
  BY <1>1, <1>2, StillDue DEF TypeOK, Inside, Working, Still
<1> QED
  BY <1>1, <1>2, <1>10, <1>15, <1>16, <1>17, StillHolds

\* process_find_child(): what is done with the child that is found.
LEMMA FindChildStep ==
  ASSUME IInv, NEW s \in Slots, process_find_child(s)
  PROVE  IInv'
<1>1. s \in Execs /\ s \notin Workers /\ TypeOK /\ TasksDue /\ At(s, "find")
      /\ UNCHANGED <<lock, tasks>> /\ Still
  BY ProcessesAssumption
     DEF Execs, IInv, process_find_child, Still, SameButLists, procVars, threadVars
<1>2. /\ stack[s] # <<>> /\ Top(s).at = "find" /\ Below(s) = 0
      /\ Top(s) \in Frames /\ Placed(s, Top(s)) /\ tstate[s] = "running"
  BY <1>1, AtFacts DEF Working
<1>3. /\ Top(s).p \in Procs /\ Parent[Top(s).p] = tproc[s]
      /\ Top(s).x \in {"exec", "wait", "poll", "kill"}
  BY <1>2, FrameFacts DEF Placed
<1>4. LockStep(s) /\ TasksDue' /\ tasks' \subseteq Tasks
  BY <1>1, StillDue DEF LockStep, TypeOK, Still
<1>5. CASE Return(s)
  BY <1>1, <1>2, <1>4, <1>5, StillReturn DEF Working
<1>6. ASSUME NEW g \in Frames, Becomes(s, <<g>>), g.p = Top(s).p,
             g.at = "start" \/ g.at = "wlock", g.at = "start" => status[g.p] # "none"
      PROVE  IInv'
  <2>1. Moves(s, 1) /\ stack'[s][1] = g
    BY <1>1, <1>2, <1>6, MoveReplace
  <2>2. Placed(s, g) /\ Stands(g) /\ Locked(s, g)' /\ Based(s, g) /\ g.at # "tgo"
    BY <1>1, <1>3, <1>6
       DEF Placed, Stands, Locked, Locks, Based, Working, Quiet, Waiting, LockedWait
  <2> QED
    BY <1>1, <1>2, <1>4, <2>1, <2>2, StillOne DEF Working
<1>7. CASE Top(s).p \in children[tproc[s]] /\ Top(s).x = "exec"
           /\ Becomes(s, <<Frame("start", Top(s).p, NoProc)>>)
  <2>1. tproc[s] \in All /\ status[Top(s).p] # "none"
    BY <1>1, <1>7, AtFacts DEF IInv, Tree
  <2>2. Frame("start", Top(s).p, NoProc) \in Frames
    BY <1>3 DEF Frames, Frame
  <2> QED
    BY <1>6, <1>7, <2>1, <2>2 DEF Frame
<1>8. CASE Top(s).x \in {"wait", "poll"}
           /\ \E b \in BOOLEAN : Becomes(s, <<Frame("wlock", Top(s).p, b)>>)
  <2>1. \A b \in BOOLEAN : Frame("wlock", Top(s).p, b) \in Frames
    BY <1>3 DEF Frames, Frame, Waiting
  <2> QED
    BY <1>6, <1>8, <2>1 DEF Frame
<1>9. CASE Becomes(s, <<Frame("xlock", Top(s).p, "killed"), Frame("wlock", Top(s).p, TRUE)>>)
  BY <1>1, <1>9, KillPush
<1>10. \/ Return(s)
       \/ Top(s).p \in children[tproc[s]] /\ Top(s).x = "exec"
           /\ Becomes(s, <<Frame("start", Top(s).p, NoProc)>>)
       \/ Top(s).x \in {"wait", "poll"}
           /\ \E b \in BOOLEAN : Becomes(s, <<Frame("wlock", Top(s).p, b)>>)
       \/ Becomes(s, <<Frame("xlock", Top(s).p, "killed"), Frame("wlock", Top(s).p, TRUE)>>)
  <2>1. CASE Top(s).x = "exec"
    BY <2>1 DEF process_find_child
  <2>2. CASE Top(s).x = "wait"
    BY <2>2 DEF process_find_child
  <2>3. CASE Top(s).x = "poll"
    BY <2>3 DEF process_find_child
  <2>4. CASE Top(s).x = "kill"
    BY <2>4 DEF process_find_child
  <2> QED
    BY <1>3, <2>1, <2>2, <2>3, <2>4
<1> QED
  BY <1>5, <1>7, <1>8, <1>9, <1>10

\* A thread in process_wait() goes on to another point of it.
LEMMA WaitGoes ==
  ASSUME IInv, NEW s \in Slots, NEW from \in Waiting, NEW point \in Waiting, At(s, from),
         GoTo(s, point), Still, UNCHANGED tasks, LockStep(s),
         point \in LockedWait => lock'[tproc[s]] = s
  PROVE  IInv'
<1>1. s \in Execs /\ s \notin Workers /\ TypeOK /\ TasksDue
  BY ProcessesAssumption DEF Execs, IInv
<1>2. /\ stack[s] # <<>> /\ Top(s).at = from /\ Below(s) = 0
      /\ Top(s) \in Frames /\ Placed(s, Top(s)) /\ tstate[s] = "running"
  BY <1>1, AtFacts DEF Working, Waiting
<1>3. Top(s).p \in Procs \cup {NoProc} /\ Top(s).x \in BOOLEAN
  BY <1>2, FrameFacts
<1> SUFFICES ASSUME NEW g, g = [at |-> point, p |-> Top(s).p, x |-> Top(s).x]
             PROVE  IInv'
  OBVIOUS
<1>4. g \in Frames
  BY <1>3 DEF Frames
<1>5. Moves(s, 1) /\ stack'[s][1] = g
  BY <1>1, <1>2, <1>4, GoToMoves
<1>6. Placed(s, g) /\ Stands(g) /\ Based(s, g) /\ g.at # "tgo"
  BY <1>1, <1>2 DEF Placed, Stands, Based, Working, Quiet, Waiting
<1>7. Locked(s, g)'
  <2>1. ASSUME NEW p \in All, Locks(s, g, p)'
        PROVE  lock'[p] = s
    <3>1. g.at \notin Working \cup {"sysbody"}
      BY DEF Waiting, Working
    <3>2. g.at \in LockedWait /\ p = tproc[s]
      BY <2>1, <3>1 DEF Locks, Still, SameButLists
    <3> QED
      BY <3>2
  <2> QED
    BY <2>1 DEF Locked
<1>8. tasks' \subseteq Tasks /\ TasksDue'
  BY <1>1, StillDue DEF TypeOK, Still
<1> QED
  BY <1>1, <1>2, <1>4, <1>5, <1>6, <1>7, <1>8, StillOne DEF Working, Waiting

\* process_wait(): the lock of the caller is taken.
LEMMA WaitLockStep ==
  ASSUME IInv, NEW s \in Slots, WaitLock(s)
  PROVE  IInv'
<1>1. s \in Execs /\ TypeOK /\ At(s, "wlock") /\ UNCHANGED tasks /\ Still /\ Take(s, tproc[s])
      /\ GoTo(s, "wtest")
  BY DEF Execs, IInv, WaitLock, Still, SameButLists, procVars, threadVars
<1>2. tproc[s] \in All
  BY <1>1, AtFacts
<1>3. LockStep(s) /\ lock'[tproc[s]] = s
  BY <1>1, <1>2 DEF LockStep, Take, TypeOK
<1> QED
  BY <1>1, <1>3, WaitGoes DEF Waiting

\* process_wait(): nobody has exited, the call is to wait.
LEMMA WaitDecideStep ==
  ASSUME IInv, NEW s \in Slots, WaitDecide(s)
  PROVE  IInv'
<1>1. s \in Execs /\ At(s, "wtest") /\ UNCHANGED <<lock, tasks>> /\ Still /\ GoTo(s, "wsleep")
  BY DEF Execs, WaitDecide, Still, SameButLists, procVars, threadVars
<1>2. tproc[s] \in All /\ Locked(s, Top(s)) /\ Top(s).at = "wtest"
  BY <1>1, AtFacts
<1>3. LockStep(s) /\ lock'[tproc[s]] = s
  BY <1>1, <1>2 DEF LockStep, Locked, Locks, LockedWait
<1> QED
  BY <1>1, <1>3, WaitGoes DEF Waiting

\* wait_on() returns: the lock again, or the exit of the thread.
LEMMA WaitWokenStep ==
  ASSUME IInv, NEW s \in Slots, WaitWoken(s)
  PROVE  IInv'
<1>1. s \in Execs /\ At(s, "woken") /\ UNCHANGED <<lock, tasks>> /\ Still
      /\ (Return(s) \/ GoTo(s, "wlock"))
  BY DEF Execs, WaitWoken, Still, SameButLists, procVars
<1>2. /\ stack[s] # <<>> /\ Top(s).at = "woken" /\ tstate[s] = "running"
      /\ LockStep(s)
  BY <1>1, AtFacts DEF LockStep
<1>3. CASE Return(s)
  BY <1>1, <1>2, <1>3, StillReturn DEF Working
<1>4. CASE GoTo(s, "wlock")
  BY <1>1, <1>2, <1>4, WaitGoes DEF Waiting, LockedWait
<1> QED
  BY <1>1, <1>3, <1>4

\* process_wait(): nobody to wait for.
LEMMA WaitNoneStep ==
  ASSUME IInv, NEW s \in Slots, WaitNone(s)
  PROVE  IInv'
<1>1. s \in Execs /\ At(s, "wtest") /\ UNCHANGED tasks /\ Still
      /\ Return(s) /\ Release(tproc[s])
  BY DEF Execs, WaitNone, Still, SameButLists, procVars, threadVars
<1>2. /\ stack[s] # <<>> /\ Top(s).at = "wtest" /\ tstate[s] = "running"
      /\ tproc[s] \in All
  BY <1>1, AtFacts
<1>3. LockStep(s)
  BY <1>1, <1>2 DEF LockStep, Locks, LockedWait
<1> QED
  BY <1>1, <1>2, <1>3, StillReturn DEF Working

\* process_wait(): a child that is not alive any more has exited.
LEMMA WaitFoundStep ==
  ASSUME IInv, NEW s \in Slots, NEW c \in Procs, WaitFound(s, c)
  PROVE  IInv'
<1>1. s \in Execs /\ s \notin Workers /\ TypeOK /\ TasksDue /\ At(s, "wtest")
      /\ UNCHANGED <<lock, tasks>> /\ Still
      /\ c \in children[tproc[s]] /\ status[c] \notin Alive
      /\ Becomes(s, <<Frame("wreap", c, Top(s).x)>>)
  BY ProcessesAssumption
     DEF Execs, IInv, WaitFound, Candidates, Still, SameButLists, procVars, threadVars
<1>2. /\ stack[s] # <<>> /\ Top(s).at = "wtest" /\ Below(s) = 0
      /\ Top(s) \in Frames /\ Locked(s, Top(s)) /\ tstate[s] = "running" /\ tproc[s] \in All
  BY <1>1, AtFacts DEF Working
<1>3. Top(s).x \in BOOLEAN /\ lock[tproc[s]] = s
  BY <1>2, FrameFacts DEF Waiting, Locked, Locks, LockedWait
<1>4. Parent[c] = tproc[s] /\ Exited(c)
  <2>1. Parent[c] = tproc[s] /\ status[c] # "none"
    BY <1>1, <1>2 DEF IInv, Tree
  <2> QED
    BY <1>1, <2>1 DEF Exited, Alive, TypeOK, All
<1> SUFFICES ASSUME NEW g, g = [at |-> "wreap", p |-> c, x |-> Top(s).x]
             PROVE  IInv'
  OBVIOUS
<1>5. g \in Frames
  BY <1>3 DEF Frames
<1>6. Moves(s, 1) /\ stack'[s][1] = g
  BY <1>1, <1>2, <1>5, MoveReplace DEF Frame
<1>7. Placed(s, g) /\ Stands(g) /\ Based(s, g) /\ g.at # "tgo"
  BY <1>1, <1>4 DEF Placed, Stands, Based, Working, Quiet, Waiting
<1>8. Locked(s, g)'
  <2>1. g.at \notin Working \cup {"sysbody"}
    BY DEF Working
  <2> QED
    BY <1>1, <1>3, <2>1 DEF Locked, Locks, Still, SameButLists
<1>9. tasks' \subseteq Tasks /\ TasksDue' /\ LockStep(s)
  BY <1>1, StillDue DEF TypeOK, LockStep, Still
<1> QED
  BY <1>1, <1>2, <1>5, <1>6, <1>7, <1>8, <1>9, StillOne DEF Working

-----------------------------------------------------------------------------
(***************************************************************************)
(* Steps of workers and of process_exit() that change nothing but stacks.  *)
(***************************************************************************)

\* worker.c: a task is taken.
LEMMA TakeTaskStep ==
  ASSUME IInv, NEW w \in Workers, NEW k \in tasks, TakeTask(w, k)
  PROVE  IInv'
<1>1. w \in Execs /\ w \notin Slots /\ TypeOK /\ TasksDue /\ stack[w] = <<>>
      /\ tasks' = tasks \ {k} /\ UNCHANGED lock /\ Still /\ Below(w) = 0
  BY ProcessesAssumption
     DEF Execs, IInv, TakeTask, Still, SameButLists, procVars, threadVars, Below
<1>2. k \in Tasks /\ TaskDue(k)
  BY <1>1 DEF TypeOK, TasksDue
<1>3. \E g \in Frames : /\ stack' = [stack EXCEPT ![w] = <<g>>]
                        /\ \/ g.at = "xlock" /\ g.p \in begun
                           \/ g.at = "cleanup" /\ tproc[g.x] \in Procs /\ tstate[g.x] \in Gone
  <2>1. CASE k.kind = "exit"
    <3> DEFINE g == Frame("xlock", k.p, "finished")
    <3>1. g \in Frames
      BY <1>2, <2>1 DEF Frames, Frame, TaskDue
    <3>2. stack' = [stack EXCEPT ![w] = <<g>>]
      BY <2>1 DEF TakeTask
    <3>3. g.at = "xlock" /\ g.p \in begun
      BY <1>2, <2>1 DEF Frame, TaskDue
    <3> QED
      BY <3>1, <3>2, <3>3
  <2>2. CASE k.kind = "cleanup"
    <3> DEFINE g == Frame("cleanup", NoProc, k.t)
    <3>1. g \in Frames
      BY <1>2, <2>2 DEF Frames, Frame, TaskDue, Tasks
    <3>2. stack' = [stack EXCEPT ![w] = <<g>>]
      BY <2>2 DEF TakeTask
    <3>3. g.at = "cleanup" /\ tproc[g.x] \in Procs /\ tstate[g.x] \in Gone
      BY <1>2, <2>2 DEF Frame, TaskDue
    <3> QED
      BY <3>1, <3>2, <3>3
  <2> QED
    BY <1>2, <2>1, <2>2 DEF Tasks
<1>4. PICK g \in Frames : /\ stack' = [stack EXCEPT ![w] = <<g>>]
                        /\ \/ g.at = "xlock" /\ g.p \in begun
                           \/ g.at = "cleanup" /\ tproc[g.x] \in Procs /\ tstate[g.x] \in Gone
  BY <1>3
<1>5. Moves(w, 1) /\ stack'[w][1] = g
  BY <1>1, <1>4, MoveStart
<1>6. Placed(w, g) /\ Stands(g) /\ Locked(w, g)' /\ Based(w, g) /\ g.at # "tgo"
  BY <1>1, <1>4
     DEF Placed, Stands, Locked, Locks, Based, Working, Quiet, Waiting, LockedWait
<1>7. tasks' \subseteq Tasks /\ TasksDue' /\ LockStep(w)
  BY <1>1, StillDue DEF TypeOK, LockStep, Still
<1> QED
  BY <1>1, <1>5, <1>6, <1>7, StillOne

\* exit_cleanup_task(): process_thread_exited() for a process that runs.
LEMMA CleanupBeginStep ==
  ASSUME IInv, NEW w \in Workers, CleanupBegin(w)
  PROVE  IInv'
<1>1. w \in Execs /\ w \notin Slots /\ TypeOK /\ TasksDue /\ At(w, "cleanup")
      /\ UNCHANGED <<lock, tasks>> /\ Still
  BY ProcessesAssumption
     DEF Execs, IInv, CleanupBegin, Still, SameButLists, procVars, threadVars
<1>2. /\ stack[w] # <<>> /\ Top(w).at = "cleanup" /\ Below(w) = 0
      /\ Top(w) \in Frames /\ Stands(Top(w))
  BY <1>1, AtFacts DEF Working
<1>3. Top(w).x \in Slots /\ tproc[Top(w).x] \in Procs /\ tstate[Top(w).x] \in Gone
  BY <1>2, FrameFacts DEF Stands
<1>4. tasks' \subseteq Tasks /\ TasksDue' /\ LockStep(w)
  BY <1>1, StillDue DEF TypeOK, LockStep, Still
<1>5. CASE Return(w)
  BY <1>1, <1>2, <1>4, <1>5, StillReturn DEF Working
<1>6. CASE Becomes(w, <<Frame("cleanlock", tproc[Top(w).x], Top(w).x)>>)
  <2> SUFFICES ASSUME NEW g, g = [at |-> "cleanlock", p |-> tproc[Top(w).x], x |-> Top(w).x]
               PROVE  IInv'
    OBVIOUS
  <2>1. g \in Frames
    BY <1>3 DEF Frames
  <2>2. Moves(w, 1) /\ stack'[w][1] = g
    BY <1>1, <1>2, <1>6, <2>1, MoveReplace DEF Frame
  <2>3. Placed(w, g) /\ Stands(g) /\ Locked(w, g)' /\ Based(w, g) /\ g.at # "tgo"
    BY <1>1, <1>3
       DEF Placed, Stands, Locked, Locks, Based, Working, Quiet, Waiting, LockedWait
  <2> QED
    BY <1>1, <1>2, <1>4, <2>1, <2>2, <2>3, StillOne DEF Working
<1> QED
  BY <1>5, <1>6 DEF CleanupBegin

\* A frame of process_exit() with the lock of its process is in its place.
LEMMA WorkingFrame ==
  ASSUME NEW e \in Execs, NEW g, g.at \in Working
  PROVE  Placed(e, g) /\ (lock[g.p] = e => Locked(e, g))
BY DEF Placed, Locked, Locks, Working, Waiting, LockedWait

\* process_exit() goes on under the lock.
LEMMA StillExit ==
  ASSUME IInv, NEW e \in Execs, NEW from \in Working \ {"xkill"}, At(e, from),
         Still, UNCHANGED <<lock, tasks>>,
         NEW g \in Frames, Moves(e, 1), stack'[e][1] = g,
         g.at \in Working, g.p = Top(e).p, Stands(g)
  PROVE  IInv'
<1>1. TypeOK /\ TasksDue /\ StacksInOrder /\ Lives
  BY DEF IInv
<1>2. /\ stack[e] # <<>> /\ Top(e).at = from /\ Locked(e, Top(e)) /\ Top(e) \in Frames
      /\ e \in Slots => tstate[e] = "running"
  BY <1>1, AtFacts
<1>3. Top(e).p \in All
  BY <1>2, FrameFacts DEF All
<1>4. lock[g.p] = e
  BY <1>2, <1>3 DEF Locked, Locks
<1>5. tasks' \subseteq Tasks /\ TasksDue' /\ lock' \in [All -> Execs \cup {NoProc}]
  BY <1>1, StillDue DEF TypeOK, Still
<1>6. SameProcs /\ KeptStand(e) /\ Stands(g)'
  BY <1>1, StillStands, KeptStandBy DEF LockStep, Still
<1>7. Placed(e, g)' /\ Locked(e, g)'
  BY <1>4, WorkingFrame DEF Placed, Locked, Locks, Working, Waiting, LockedWait
<1>8. (Placed(e, stack[e][1]) /\ Stands(stack[e][1]) /\ Locked(e, stack[e][1]))'
  BY <1>6, <1>7 DEF Placed, Stands, Locked, Locks
<1>9. StacksInOrder'
  BY <1>1, <1>2, <1>6, <1>8, StacksExit DEF Working
<1>10. ~ Inside(e, "xkill") /\ ~ Inside(e, "xlock") /\ stack'[e][1].at # "tgo"
  BY <1>2 DEF Inside, Working
<1> DEFINE k == 1
<1>11. k \in 0 .. 2 /\ Moves(e, k)
       /\ \E i \in 1 .. k : stack'[e][i].at \in Working /\ stack'[e][i].p = Top(e).p
  OBVIOUS
<1> HIDE DEF k
<1> QED
  BY <1>1, <1>2, <1>5, <1>9, <1>10, <1>11, StillHolds

\* A thread that is not on the list of a process under exit has been deleted.
LEMMA NoThreadLeft ==
  ASSUME IInv, NEW e \in Execs, At(e, "xthreads"), threads[Top(e).p] = {},
         NEW t \in Slots, tproc[t] = Top(e).p
  PROVE  tstate[t] = "free"
<1> SUFFICES ASSUME tstate[t] # "free" PROVE FALSE
  OBVIOUS
<1>1. /\ stack[e] # <<>> /\ Top(e).at = "xthreads" /\ Locked(e, Top(e)) /\ Top(e) \in Frames
  BY AtFacts
<1>2. BeingWaitedFor(t)
  BY DEF IInv, Lives
<1>3. PICK d \in Execs : Inside(d, "xkill") /\ Top(d).x = t
  BY <1>2 DEF BeingWaitedFor
<1>4. Top(d) \in Frames /\ Top(d).at = "xkill" /\ Stands(Top(d)) /\ Locked(d, Top(d))
  BY <1>3, TopFacts DEF IInv, Inside
<1>5. Top(d).p = Top(e).p /\ Top(d).p \in All
  BY <1>3, <1>4, FrameFacts DEF Stands, All, Working
<1>6. lock[Top(e).p] = e /\ lock[Top(e).p] = d
  BY <1>1, <1>4, <1>5 DEF Locked, Locks, Working
<1> QED
  BY <1>1, <1>4, <1>6

\* process_exit(): no thread is left.
LEMMA ExitThreadsDoneStep ==
  ASSUME IInv, NEW e \in Execs, ExitThreadsDone(e)
  PROVE  IInv'
<1>1. TypeOK /\ At(e, "xthreads") /\ UNCHANGED <<lock, tasks>> /\ Still
      /\ threads[Top(e).p] = {} /\ GoTo(e, "xchildren")
  BY DEF IInv, ExitThreadsDone, Still, SameButLists, procVars, threadVars
<1>2. /\ stack[e] # <<>> /\ Top(e).at = "xthreads" /\ Top(e) \in Frames /\ Stands(Top(e))
  BY <1>1, AtFacts
<1> SUFFICES ASSUME NEW g, g = [at |-> "xchildren", p |-> Top(e).p, x |-> Top(e).x]
             PROVE  IInv'
  OBVIOUS
<1>3. g \in Frames
  <2>1. Top(e).p \in Procs /\ Top(e).x \in {"finished", "killed", NoProc}
    BY <1>2, FrameFacts DEF Working
  <2> QED
    BY <2>1 DEF Frames
<1>4. Moves(e, 1) /\ stack'[e][1] = g
  BY <1>1, <1>2, <1>3, GoToMoves
<1>5. \A t \in Slots : tproc[t] = g.p => tstate[t] = "free"
  BY <1>1, NoThreadLeft
<1>6. Exited(g.p)
  BY <1>2 DEF Stands, Working
<1>7. Stands(g)
  BY <1>5, <1>6 DEF Stands, Working, Quiet
<1> QED
  BY <1>1, <1>3, <1>4, <1>7, StillExit DEF Working

\* process_exit(): the process_t of a child is freed.
LEMMA ExitFreeStep ==
  ASSUME IInv, NEW e \in Execs, ExitFree(e)
  PROVE  IInv'
<1>1. TypeOK /\ At(e, "xfree") /\ UNCHANGED <<lock, tasks>> /\ Still
      /\ GoWith(e, "xchildren", NoProc)
  BY DEF IInv, ExitFree, Still, SameButLists, threadVars
<1>2. /\ stack[e] # <<>> /\ Top(e).at = "xfree" /\ Top(e) \in Frames /\ Stands(Top(e))
  BY <1>1, AtFacts
<1> SUFFICES ASSUME NEW g, g = [at |-> "xchildren", p |-> Top(e).p, x |-> NoProc]
             PROVE  IInv'
  OBVIOUS
<1>3. g \in Frames
  <2>1. Top(e).p \in Procs
    BY <1>2, FrameFacts DEF Working
  <2> QED
    BY <2>1 DEF Frames
<1>4. Moves(e, 1) /\ stack'[e][1] = g
  BY <1>1, <1>2, <1>3, GoWithMoves
<1>5. Stands(g)
  BY <1>2 DEF Stands, Working, Quiet
<1> QED
  BY <1>1, <1>3, <1>4, <1>5, StillExit DEF Working

-----------------------------------------------------------------------------
(***************************************************************************)
(* Steps that change the states of threads.                                *)
(***************************************************************************)

\* The step of e may delete t: it is off every list, and no one else waits for
\* it to finish.
Deleted(e, t) ==
  /\ \A p \in All : t \notin threads'[p]
  /\ \A d \in Execs, f \in Frames : Kept(e, d, f) /\ f.at = "xkill" => f.x # t

\* The states of threads change so that a thread that is gone stays so, and a
\* new one is started by the step of e only, if at all.
StatesMove(e) ==
  /\ UNCHANGED <<status, children, stacked, down, tproc, tgen, begun>>
  /\ must_exit' \in [Slots -> BOOLEAN]
  /\ \A t \in Slots : must_exit'[t] => must_exit[t] \/ tproc[t] \in Procs
  /\ tstate' \in [Slots -> {"free", "loading", "running", "paused", "finished"}]
  /\ threads' \in [All -> SUBSET Slots]
  /\ \A p \in All : threads'[p] \subseteq threads[p]
  /\ \A t \in Slots :
       /\ tstate[t] = "free" => tstate'[t] = "free"
       /\ tstate[t] = "finished" => tstate'[t] \in Gone
       /\ tstate[t] = "loading" =>
            tstate'[t] = "loading" \/ (Inside(e, "tgo") /\ Top(e).x = t)
       /\ tstate[t] # "free" /\ tstate'[t] = "free" => Deleted(e, t)

\* The frames that are kept stand, and the tasks stay due.
LEMMA StatesStand ==
  ASSUME IInv, NEW e \in Execs, StatesMove(e)
  PROVE  /\ SameProcs
         /\ \A d \in Execs, f \in Frames : Kept(e, d, f) => Stands(f)'
         /\ \A k \in Tasks : TaskDue(k) => TaskDue(k)'
         /\ \A t \in Slots : tstate[t] \in Gone => tstate'[t] \in Gone
<1>1. \A t \in Slots : tstate[t] \in Gone => tstate'[t] \in Gone
  BY DEF StatesMove, Gone
<1>2. ASSUME NEW d \in Execs, NEW f \in Frames, Kept(e, d, f)
      PROVE  Stands(f)'
  <2>1. Stands(f) /\ (f.at = "tgo" => d # e /\ f = Top(d) /\ stack[d] # <<>>) /\ Placed(d, f)
    BY <1>2, KeptFacts DEF IInv
  <2>2. f.at = "tgo" => tstate'[f.x] = "loading"
    <3> SUFFICES ASSUME f.at = "tgo" PROVE tstate'[f.x] = "loading"
      OBVIOUS
    <3>1. f.x \in Slots /\ tstate[f.x] = "loading"
      BY <2>1, FrameFacts DEF Stands
    <3>2. ~ (Inside(e, "tgo") /\ Top(e).x = f.x)
      <4> SUFFICES ASSUME Inside(e, "tgo"), Top(e).x = f.x PROVE FALSE
        OBVIOUS
      <4>1. Placed(e, Top(e)) /\ Top(e).at = "tgo"
        BY TopFacts DEF Inside, IInv
      <4>2. e \in Slots /\ d \in Slots
        BY <2>1, <4>1 DEF Placed, Execs, Working
      <4> QED
        BY <2>1, <4>2 DEF IInv, OneStarter, Inside
    <3> QED
      BY <3>1, <3>2 DEF StatesMove
  <2>3. f.at \in Quiet => \A t \in Slots : tproc[t] = f.p => tstate'[t] = "free"
    BY <2>1 DEF Stands, StatesMove
  <2>5. f.at = "xkill" => /\ tproc[f.x] = f.p /\ tstate'[f.x] # "free"
                          /\ f.x \notin threads'[f.p]
    <3> SUFFICES ASSUME f.at = "xkill"
                 PROVE  /\ tproc[f.x] = f.p /\ tstate'[f.x] # "free"
                        /\ f.x \notin threads'[f.p]
      OBVIOUS
    <3>1. /\ tproc[f.x] = f.p /\ tstate[f.x] # "free" /\ f.x \notin threads[f.p]
          /\ f.x \in Slots /\ f.p \in All
      BY <2>1, FrameFacts DEF Stands, Working, All
    <3>2. ~ Deleted(e, f.x)
      BY <1>2 DEF Deleted
    <3> QED
      BY <3>1, <3>2 DEF StatesMove
  <2>4. f.at \in {"cleanup", "cleanlock"} => tproc[f.x] \in Procs /\ tstate'[f.x] \in Gone
    BY <1>1, <2>1, FrameFacts DEF Stands
  <2> QED
    BY <2>1, <2>2, <2>3, <2>4, <2>5 DEF Stands, StatesMove, Exited
<1>3. ASSUME NEW k \in Tasks, TaskDue(k)
      PROVE  TaskDue(k)'
  <2>1. k.t \in Slots
    BY DEF Tasks
  <2> QED
    BY <1>1, <1>3, <2>1 DEF TaskDue, StatesMove
<1> QED
  BY <1>1, <1>2, <1>3 DEF SameProcs, StatesMove

\* The part of the invariant that speaks of stacks only in passing.
LEMMA StatesHold ==
  ASSUME IInv, NEW e \in Execs, NEW k \in 0 .. 2, Moves(e, k), StatesMove(e),
         \A s \in Slots : stack'[s] # <<>> => tstate'[s] \in {"running", "paused"},
         \A s \in Slots : tstate'[s] # "free" => s \in threads'[tproc[s]] \/ BeingWaitedFor(s)',
         lock' \in [All -> Execs \cup {NoProc}], tasks' \subseteq Tasks,
         TasksDue', StacksInOrder',
         ~ Inside(e, "xlock"),
         stack[e] # <<>> /\ Top(e).at \in Working =>
           \/ Top(e).p \in down
           \/ \E i \in 1 .. k : stack'[e][i].at \in Working /\ stack'[e][i].p = Top(e).p,
         k > 0 => stack'[e][1].at # "tgo"
  PROVE  IInv'
<1>1. TypeOK'
  BY DEF IInv, TypeOK, StatesMove, Moves
<1>2. Tree'
  <2>1. ASSUME NEW c \in Procs, BeingKilled(c)
        PROVE  BeingKilled(c)'
    BY <2>1, BeingKilledStays DEF IInv
  <2>2. Tree
    BY DEF IInv
  <2> QED
    BY <2>1, <2>2 DEF Tree, StatesMove
<1>3. Lives'
  <2>1. Lives
    BY DEF IInv
  <2>2. ASSUME NEW p \in All, NEW t \in threads'[p]
        PROVE  tproc[t] = p /\ tstate'[t] # "free"
    <3>1. t \in threads[p] /\ t \in Slots
      BY <2>2 DEF StatesMove
    <3>2. ~ Deleted(e, t)
      BY <2>2 DEF Deleted
    <3> QED
      BY <2>1, <3>1, <3>2 DEF Lives, StatesMove
  <2> QED
    BY <2>1, <2>2 DEF Lives, StatesMove
<1>4. OneStarter'
  BY OneStarterStays DEF IInv
<1>5. NotAgain'
  <2>1. ASSUME NEW s \in Slots, NEW c \in Procs, Ending(s, c), c \notin down
        PROVE  Ending(s, c)'
    <3>1. s \in Execs /\ TypeOK
      BY DEF Execs, IInv
    <3>2. CASE s # e
      BY <2>1, <3>1, <3>2, EndingStays
    <3>3. CASE s = e
      <4>1. stack[e] # <<>>
        BY <2>1, <3>1, <3>3, StackFacts DEF Ending
      <4> QED
        BY <2>1, <3>1, <4>1, EndingStays
    <3> QED
      BY <3>2, <3>3
  <2>2. NotAgain
    BY DEF IInv
  <2>3. \A s \in Slots : tstate'[s] \notin Gone => tstate[s] \notin Gone
    BY StatesStand
  <2> QED
    BY <2>1, <2>2, <2>3 DEF NotAgain, StatesMove, Exited
<1>6. DownIsExited' /\ NoThreadOutlives' /\ NoOrphanAlive'
  BY DEF IInv, DownIsExited, NoThreadOutlives, NoOrphanAlive, StatesMove, Exited
<1> QED
  BY <1>1, <1>2, <1>3, <1>4, <1>5, <1>6 DEF IInv

\* Who is on a list of threads or waited for still is, but for what e does.
LEMMA ListedStays ==
  ASSUME IInv, NEW e \in Execs, NEW k \in 0 .. 2, Moves(e, k), UNCHANGED threads,
         NEW s \in Slots, tstate[s] # "free", Inside(e, "xkill") => Top(e).x # s
  PROVE  s \in threads'[tproc[s]] \/ BeingWaitedFor(s)'
BY WaitedForStays DEF IInv, Lives

\* A thread that was in the kernel before the step of another still lives.
LEMMA ActiveStays ==
  ASSUME IInv, NEW e \in Execs, NEW k \in 0 .. 2, Moves(e, k), NEW s \in Slots,
         s # e, stack'[s] # <<>>
  PROVE  tstate[s] \in {"running", "paused"} /\ stack[s] # <<>>
<1>1. stack'[s] = stack[s]
  BY DEF Moves, Execs
<1> QED
  BY <1>1 DEF IInv, Lives

\* exit(): the cleanup task is pushed and the thread is finished.
LEMMA QuitStep ==
  ASSUME IInv, NEW s \in Slots, Quit(s)
  PROVE  IInv'
<1>1. /\ s \in Execs /\ TypeOK /\ Lives /\ TasksDue /\ StacksInOrder
      /\ At(s, "quit") /\ UNCHANGED lock
      /\ tasks' = tasks \cup {Task("cleanup", s, NoProc)}
      /\ tstate' = [tstate EXCEPT ![s] = "finished"]
      /\ stack' = [stack EXCEPT ![s] = <<>>]
      /\ UNCHANGED <<status, children, threads, stacked, down, tproc, tgen, begun, must_exit>>
  BY DEF Execs, IInv, Quit, procVars
<1>2. /\ stack[s] # <<>> /\ Top(s).at = "quit" /\ Below(s) = 0 /\ Len(stack[s]) = 1 + Below(s)
      /\ Placed(s, Top(s)) /\ tstate[s] = "running"
  BY <1>1, AtFacts DEF Working
<1>3. Moves(s, 0)
  <2>1. Len(stack[s]) = 1
    BY <1>2
  <2> QED
    BY <1>1, <2>1, MoveStop
<1>4. StatesMove(s)
  <2>1. tstate' \in [Slots -> {"free", "loading", "running", "paused", "finished"}]
    BY <1>1 DEF TypeOK
  <2>2. \A t \in Slots : tstate'[t] = IF t = s THEN "finished" ELSE tstate[t]
    BY <1>1 DEF TypeOK
  <2>3. threads' \in [All -> SUBSET Slots] /\ UNCHANGED <<threads, must_exit>>
        /\ must_exit' \in [Slots -> BOOLEAN]
    BY <1>1 DEF TypeOK
  <2> QED
    BY <1>1, <1>2, <2>1, <2>2, <2>3 DEF StatesMove, Gone
<1>5. KeptStand(s) /\ SameProcs /\ \A k \in Tasks : TaskDue(k) => TaskDue(k)'
  BY <1>1, <1>4, StatesStand, KeptStandBy DEF LockStep
<1>6. StacksInOrder'
  BY <1>1, <1>3, <1>5, StacksPop
<1>7. tasks' \subseteq Tasks /\ TasksDue'
  <2> SUFFICES ASSUME NEW k, k = Task("cleanup", s, NoProc) PROVE tasks' \subseteq Tasks /\ TasksDue'
    OBVIOUS
  <2>1. k \in Tasks /\ k.kind = "cleanup" /\ k.t = s
    BY <1>1 DEF Task, Tasks, TypeOK
  <2>2. tproc'[s] \in Procs /\ tstate'[s] \in Gone
    BY <1>1, <1>2 DEF Placed, Gone, TypeOK
  <2>3. TaskDue(k)'
    BY <2>1, <2>2 DEF TaskDue
  <2>4. \A j \in tasks : TaskDue(j)'
    BY <1>1, <1>5 DEF TasksDue, TypeOK
  <2>5. tasks' = tasks \cup {k}
    BY <1>1
  <2> QED
    BY <1>1, <2>1, <2>3, <2>4, <2>5 DEF TasksDue, TypeOK
<1> DEFINE z == 0
<1>8. z \in 0 .. 2 /\ Moves(s, z) /\ ~ (z > 0)
  BY <1>3
<1> HIDE DEF z
<1>9. ~ Inside(s, "xlock") /\ ~ Inside(s, "xkill") /\ Top(s).at \notin Working
  BY <1>2 DEF Inside, Working
<1>10. \A r \in Slots : tstate'[r] # "free" => r \in threads'[tproc[r]] \/ BeingWaitedFor(r)'
  <2>1. \A r \in Slots : tstate'[r] # "free" => tstate[r] # "free"
    BY <1>4 DEF StatesMove
  <2> QED
    BY <1>1, <1>8, <1>9, <2>1, ListedStays
<1>11. \A r \in Slots : stack'[r] # <<>> => tstate'[r] \in {"running", "paused"}
  <2>1. stack'[s] = <<>>
    BY <1>1 DEF TypeOK
  <2>2. \A r \in Slots : r # s => tstate'[r] = tstate[r]
    BY <1>1 DEF TypeOK
  <2> QED
    BY <1>1, <1>8, <2>1, <2>2, ActiveStays
<1>12. lock' \in [All -> Execs \cup {NoProc}]
  BY <1>1 DEF TypeOK
<1> QED
  BY <1>1, <1>4, <1>6, <1>7, <1>8, <1>9, <1>10, <1>11, <1>12, StatesHold

\* process_new_thread(): start_thread().
LEMMA StartThreadStep ==
  ASSUME IInv, NEW s \in Slots, start_thread(s)
  PROVE  IInv'
<1> DEFINE n == Top(s).x
<1>1. /\ s \in Execs /\ TypeOK /\ Lives /\ TasksDue /\ StacksInOrder
      /\ At(s, "tgo") /\ UNCHANGED <<lock, tasks>> /\ Return(s)
      /\ tstate' = [tstate EXCEPT ![n] = "running"]
      /\ UNCHANGED <<status, children, threads, stacked, down, tproc, tgen, begun, must_exit>>
  BY DEF Execs, IInv, start_thread, procVars
<1>2. /\ stack[s] # <<>> /\ Top(s).at = "tgo" /\ Stands(Top(s)) /\ Top(s) \in Frames
      /\ tstate[s] = "running"
  BY <1>1, AtFacts
<1>3. n \in Slots /\ tstate[n] = "loading" /\ n # s
  BY <1>2, FrameFacts DEF Stands
<1>4. tstate' \in [Slots -> {"free", "loading", "running", "paused", "finished"}]
      /\ \A t \in Slots : tstate'[t] = IF t = n THEN "running" ELSE tstate[t]
  BY <1>1, <1>3 DEF TypeOK
<1>5. StatesMove(s)
  <2>1. threads' \in [All -> SUBSET Slots] /\ UNCHANGED <<threads, must_exit>>
        /\ must_exit' \in [Slots -> BOOLEAN]
    BY <1>1 DEF TypeOK
  <2> QED
    BY <1>1, <1>2, <1>3, <1>4, <2>1 DEF StatesMove, Inside, Gone
<1> HIDE DEF n
<1>6. KeptStand(s) /\ SameProcs /\ \A k \in Tasks : TaskDue(k) => TaskDue(k)'
  BY <1>1, <1>5, StatesStand, KeptStandBy DEF LockStep
<1>7. StacksInOrder'
  BY <1>1, <1>2, <1>6, ReturnStacks
<1>8. PICK k \in 0 .. 2 : Moves(s, k) /\ (k > 0 => stack'[s][1].at # "tgo")
  BY <1>1, <1>2, <1>6, ReturnStacks
<1>9. ~ Inside(s, "xlock") /\ ~ Inside(s, "xkill") /\ Top(s).at \notin Working
  BY <1>2 DEF Inside, Working
<1>10. \A r \in Slots : tstate'[r] # "free" => r \in threads'[tproc[r]] \/ BeingWaitedFor(r)'
  BY <1>1, <1>3, <1>4, <1>8, <1>9, ListedStays
<1>11. \A r \in Slots : stack'[r] # <<>> => tstate'[r] \in {"running", "paused"}
  <2> SUFFICES ASSUME NEW r \in Slots, stack'[r] # <<>>
               PROVE  tstate'[r] \in {"running", "paused"}
    OBVIOUS
  <2>1. CASE r = s
    BY <2>1, <1>2, <1>3, <1>4
  <2>2. CASE r # s
    <3>1. tstate[r] \in {"running", "paused"}
      BY <1>1, <1>8, <2>2, ActiveStays
    <3> QED
      BY <3>1, <1>3, <1>4
  <2> QED
    BY <2>1, <2>2
<1>12. tasks' \subseteq Tasks /\ TasksDue' /\ lock' \in [All -> Execs \cup {NoProc}]
  BY <1>1, <1>6 DEF TypeOK, TasksDue
<1> QED
  BY <1>1, <1>5, <1>7, <1>8, <1>9, <1>10, <1>11, <1>12, StatesHold

\* wait_on(): the lock is given back and the thread sleeps, in one step.
LEMMA WaitSleepStep ==
  ASSUME IInv, NEW s \in Slots, WaitSleep(s)
  PROVE  IInv'
<1>1. /\ s \in Execs /\ s \notin Workers /\ TypeOK /\ Lives /\ TasksDue /\ StacksInOrder
      /\ At(s, "wsleep") /\ UNCHANGED tasks /\ Release(tproc[s]) /\ GoTo(s, "woken")
      /\ tstate' = [tstate EXCEPT ![s] = "paused"]
      /\ UNCHANGED <<status, children, threads, stacked, down, tproc, tgen, begun, must_exit>>
  BY ProcessesAssumption DEF Execs, IInv, WaitSleep, procVars
<1>2. /\ stack[s] # <<>> /\ Top(s).at = "wsleep" /\ Placed(s, Top(s)) /\ Top(s) \in Frames
      /\ tstate[s] = "running" /\ tproc[s] \in All /\ Below(s) = 0
  BY <1>1, AtFacts DEF Working
<1>3. tstate' \in [Slots -> {"free", "loading", "running", "paused", "finished"}]
      /\ \A t \in Slots : tstate'[t] = IF t = s THEN "paused" ELSE tstate[t]
  BY <1>1 DEF TypeOK
<1>4. StatesMove(s)
  <2>1. threads' \in [All -> SUBSET Slots] /\ UNCHANGED <<threads, must_exit>>
        /\ must_exit' \in [Slots -> BOOLEAN]
    BY <1>1 DEF TypeOK
  <2> QED
    BY <1>1, <1>2, <1>3, <2>1 DEF StatesMove, Gone
<1>5. LockStep(s)
  BY <1>1, <1>2 DEF LockStep, Locks, LockedWait
<1>6. KeptStand(s) /\ SameProcs /\ \A k \in Tasks : TaskDue(k) => TaskDue(k)'
  BY <1>1, <1>4, <1>5, StatesStand, KeptStandBy
<1> SUFFICES ASSUME NEW g, g = [at |-> "woken", p |-> Top(s).p, x |-> Top(s).x]
             PROVE  IInv'
  OBVIOUS
<1>7. g \in Frames
  BY <1>2, FrameFacts DEF Frames, Waiting
<1>8. Moves(s, 1) /\ stack'[s][1] = g
  BY <1>1, <1>2, <1>7, GoToMoves
<1>9. Placed(s, g)'
  BY <1>1, <1>2 DEF Placed, Waiting
<1>10. Stands(g)' /\ Locked(s, g)' /\ Based(s, g)'
  BY DEF Stands, Locked, Locks, Based, Working, Quiet, LockedWait
<1>11. (Placed(s, stack[s][1]) /\ Stands(stack[s][1]) /\ Locked(s, stack[s][1])
           /\ Based(s, stack[s][1]))'
  BY <1>8, <1>9, <1>10 DEF Placed, Stands, Locked, Locks, Based
<1>12. StacksInOrder'
  BY <1>1, <1>2, <1>6, <1>8, <1>11, StacksOne
<1> DEFINE k == 1
<1>13. k \in 0 .. 2 /\ Moves(s, k) /\ stack'[s][1].at # "tgo"
  BY <1>8
<1> HIDE DEF k
<1>14. ~ Inside(s, "xlock") /\ ~ Inside(s, "xkill") /\ Top(s).at \notin Working
  BY <1>2 DEF Inside, Working
<1>15. \A r \in Slots : tstate'[r] # "free" => r \in threads'[tproc[r]] \/ BeingWaitedFor(r)'
  BY <1>1, <1>2, <1>3, <1>13, <1>14, ListedStays
<1>16. \A r \in Slots : stack'[r] # <<>> => tstate'[r] \in {"running", "paused"}
  <2> SUFFICES ASSUME NEW r \in Slots, stack'[r] # <<>>
               PROVE  tstate'[r] \in {"running", "paused"}
    OBVIOUS
  <2>1. CASE r = s
    BY <2>1, <1>3
  <2>2. CASE r # s
    <3>1. tstate[r] \in {"running", "paused"}
      BY <1>1, <1>13, <2>2, ActiveStays
    <3> QED
      BY <2>2, <3>1, <1>3
  <2> QED
    BY <2>1, <2>2
<1>17. tasks' \subseteq Tasks /\ TasksDue' /\ lock' \in [All -> Execs \cup {NoProc}]
  BY <1>1, <1>5, <1>6, LockTypes DEF TypeOK, TasksDue
<1> QED
  BY <1>1, <1>4, <1>12, <1>13, <1>14, <1>15, <1>16, <1>17, StatesHold

\* A step of process_exit() that ends where it began or further on, and only
\* changes the states of threads.
LEMMA StatesExit ==
  ASSUME IInv, NEW e \in Execs, NEW from \in Working, At(e, from), StatesMove(e),
         UNCHANGED <<lock, tasks>>,
         NEW g \in Frames, Moves(e, 1), stack'[e][1] = g,
         g.at \in Working, g.p = Top(e).p, Stands(g)',
         \A s \in Slots : stack'[s] # <<>> => tstate'[s] \in {"running", "paused"},
         \A s \in Slots : tstate'[s] # "free" => s \in threads'[tproc[s]] \/ BeingWaitedFor(s)'
  PROVE  IInv'
<1>1. TypeOK /\ Lives /\ TasksDue /\ StacksInOrder
  BY DEF IInv
<1>2. /\ stack[e] # <<>> /\ Top(e).at = from /\ Locked(e, Top(e)) /\ Top(e) \in Frames
  BY <1>1, AtFacts
<1>3. Top(e).p \in All
  BY <1>2, FrameFacts DEF All
<1>4. lock[g.p] = e
  BY <1>2, <1>3 DEF Locked, Locks
<1>5. SameProcs /\ KeptStand(e) /\ \A k \in Tasks : TaskDue(k) => TaskDue(k)'
  BY <1>1, StatesStand, KeptStandBy DEF LockStep
<1>6. Placed(e, g)' /\ Locked(e, g)'
  BY <1>4, WorkingFrame DEF Placed, Locked, Locks, Working, Waiting, LockedWait
<1>7. (Placed(e, stack[e][1]) /\ Stands(stack[e][1]) /\ Locked(e, stack[e][1]))'
  BY <1>6 DEF Placed, Stands, Locked, Locks
<1>8. StacksInOrder'
  BY <1>1, <1>2, <1>5, <1>7, StacksExit DEF Working
<1>9. ~ Inside(e, "xlock") /\ stack'[e][1].at # "tgo"
  BY <1>2 DEF Inside, Working
<1>10. tasks' \subseteq Tasks /\ TasksDue' /\ lock' \in [All -> Execs \cup {NoProc}]
  BY <1>1, <1>5 DEF TypeOK, TasksDue
<1> DEFINE k == 1
<1>11. k \in 0 .. 2 /\ Moves(e, k)
       /\ \E i \in 1 .. k : stack'[e][i].at \in Working /\ stack'[e][i].p = Top(e).p
  OBVIOUS
<1> HIDE DEF k
<1> QED
  BY <1>8, <1>9, <1>10, <1>11, StatesHold

\* kill_thread() wakes the thread it waits for.
LEMMA KillWakesStep ==
  ASSUME IInv, NEW e \in Execs, KillWakes(e)
  PROVE  IInv'
<1> DEFINE n == Top(e).x
<1>1. /\ TypeOK /\ Lives /\ At(e, "xkill") /\ UNCHANGED <<lock, tasks, stack>>
      /\ tstate[n] = "paused"
      /\ tstate' = [tstate EXCEPT ![n] = "running"]
      /\ UNCHANGED <<status, children, threads, stacked, down, tproc, tgen, begun, must_exit>>
  BY DEF IInv, KillWakes, procVars
<1>2. /\ stack[e] # <<>> /\ Top(e).at = "xkill" /\ Stands(Top(e)) /\ Top(e) \in Frames
      /\ Top(e) = stack[e][1] /\ Len(stack[e]) = 1 + Below(e) /\ Below(e) \in Nat
  BY <1>1, AtFacts
<1>3. n \in Slots
  BY <1>2, FrameFacts
<1>4. tstate' \in [Slots -> {"free", "loading", "running", "paused", "finished"}]
      /\ \A t \in Slots : tstate'[t] = IF t = n THEN "running" ELSE tstate[t]
  BY <1>1, <1>3 DEF TypeOK
<1>5. StatesMove(e)
  <2>1. threads' \in [All -> SUBSET Slots] /\ UNCHANGED <<threads, must_exit>>
        /\ must_exit' \in [Slots -> BOOLEAN]
    BY <1>1 DEF TypeOK
  <2> QED
    BY <1>1, <1>3, <1>4, <2>1 DEF StatesMove, Gone
<1>6. Moves(e, 1)
  <2>1. stack' \in [Execs -> Seq(Frames)] /\ \A d \in Execs : stack'[d] = stack[d]
    BY <1>1 DEF TypeOK
  <2> QED
    BY <1>2, <2>1 DEF Moves
<1>7. stack'[e][1] = Top(e)
  BY <1>1, <1>2
<1>8. Stands(Top(e))'
  BY <1>1, <1>2 DEF Stands, Working, Quiet, Exited, Top
<1>9. \A s \in Slots : stack'[s] # <<>> => tstate'[s] \in {"running", "paused"}
  BY <1>1, <1>4 DEF Lives
<1>10. \A s \in Slots : tstate'[s] # "free" => s \in threads'[tproc[s]] \/ BeingWaitedFor(s)'
  BY <1>1, <1>4 DEF Lives, BeingWaitedFor, Inside, Top
<1> SUFFICES ASSUME NEW g, g = Top(e) PROVE IInv'
  OBVIOUS
<1>11. Stands(g)'
  BY <1>1, <1>2 DEF Stands, Working, Quiet, Exited
<1> HIDE DEF n
<1> QED
  BY <1>1, <1>2, <1>5, <1>6, <1>7, <1>9, <1>10, <1>11, StatesExit DEF Working

\* kill_thread() returns: the thread has finished, and is deleted.
LEMMA KillDoneStep ==
  ASSUME IInv, NEW e \in Execs, KillDone(e)
  PROVE  IInv'
<1> DEFINE n == Top(e).x
<1>1. /\ TypeOK /\ Lives /\ At(e, "xkill") /\ UNCHANGED <<lock, tasks>>
      /\ GoWith(e, "xthreads", NoProc)
      /\ tstate[n] = "finished"
      /\ tstate' = [tstate EXCEPT ![n] = "free"]
      /\ UNCHANGED <<status, children, threads, stacked, down, tproc, tgen, begun, must_exit>>
  BY DEF IInv, KillDone, procVars
<1>2. /\ stack[e] # <<>> /\ Top(e).at = "xkill" /\ Stands(Top(e)) /\ Top(e) \in Frames
      /\ e \in Slots => tstate[e] = "running"
  BY <1>1, AtFacts
<1>3. n \in Slots /\ Top(e).p \in Procs /\ n # e
  BY <1>1, <1>2, FrameFacts DEF Working
<1>4. tstate' \in [Slots -> {"free", "loading", "running", "paused", "finished"}]
      /\ \A t \in Slots : tstate'[t] = IF t = n THEN "free" ELSE tstate[t]
  BY <1>1, <1>3 DEF TypeOK
<1>5. StatesMove(e)
  <2>1. threads' \in [All -> SUBSET Slots] /\ UNCHANGED <<threads, must_exit>>
        /\ must_exit' \in [Slots -> BOOLEAN]
    BY <1>1 DEF TypeOK
  <2>2. Deleted(e, n)
    <3>1. tproc[n] = Top(e).p /\ n \notin threads[Top(e).p] /\ lock[Top(e).p] = e
      BY <1>1, <1>2, <1>3, TopFacts DEF Stands, Locked, Locks, Working, All, IInv
    <3>2. \A p \in All : n \notin threads'[p]
      BY <1>1, <3>1 DEF Lives
    <3>3. ASSUME NEW d \in Execs, NEW f \in Frames, Kept(e, d, f), f.at = "xkill"
          PROVE  f.x # n
      <4>1. /\ d # e /\ Stands(f) /\ Locked(d, f)
        BY <3>3, KeptFacts DEF IInv
      <4>2. f.p \in All /\ tproc[f.x] = f.p
        BY <3>3, <4>1, FrameFacts DEF Stands, Working, All
      <4>3. lock[f.p] = d
        BY <3>3, <4>1, <4>2 DEF Locked, Locks, Working
      <4> QED
        BY <3>1, <4>1, <4>2, <4>3
    <3> QED
      BY <3>2, <3>3 DEF Deleted
  <2> QED
    BY <1>1, <1>3, <1>4, <2>1, <2>2 DEF StatesMove, Gone
<1> SUFFICES ASSUME NEW g, g = [at |-> "xthreads", p |-> Top(e).p, x |-> NoProc] PROVE IInv'
  OBVIOUS
<1>6. g \in Frames
  BY <1>3 DEF Frames
<1>7. Moves(e, 1) /\ stack'[e][1] = g
  BY <1>1, <1>2, <1>6, GoWithMoves
<1>8. Stands(g)'
  BY <1>1, <1>2 DEF Stands, Working, Quiet, Exited
<1> DEFINE k == 1
<1>9. k \in 0 .. 2 /\ Moves(e, k)
  BY <1>7
<1> HIDE DEF k
<1>10. \A s \in Slots : stack'[s] # <<>> => tstate'[s] \in {"running", "paused"}
  <2> SUFFICES ASSUME NEW s \in Slots, stack'[s] # <<>>
               PROVE  tstate'[s] \in {"running", "paused"}
    OBVIOUS
  <2>1. CASE s = e
    BY <2>1, <1>2, <1>3, <1>4
  <2>2. CASE s # e
    <3>1. tstate[s] \in {"running", "paused"}
      BY <1>9, <2>2, ActiveStays
    <3> QED
      BY <3>1, <1>1, <1>4
  <2> QED
    BY <2>1, <2>2
<1>11. \A s \in Slots : tstate'[s] # "free" => s \in threads'[tproc[s]] \/ BeingWaitedFor(s)'
  BY <1>1, <1>4, <1>9, ListedStays
<1> HIDE DEF n
<1> QED
  BY <1>1, <1>5, <1>6, <1>7, <1>8, <1>10, <1>11, StatesExit DEF Working

\* process_exit(): the next thread is told to exit.
LEMMA ExitThreadStep ==
  ASSUME IInv, NEW e \in Execs, NEW t \in Slots, ExitThread(e, t)
  PROVE  IInv'
<1> DEFINE p == Top(e).p
<1>1. /\ TypeOK /\ Lives /\ At(e, "xthreads") /\ UNCHANGED <<lock, tasks>>
      /\ GoWith(e, "xkill", t)
      /\ t \in threads[p]
      /\ threads' = [threads EXCEPT ![p] = @ \ {t}]
      /\ must_exit' = [must_exit EXCEPT ![t] = TRUE]
      /\ UNCHANGED <<status, children, stacked, down, tstate, tproc, tgen, begun>>
  BY DEF IInv, ExitThread
<1>2. /\ stack[e] # <<>> /\ Top(e).at = "xthreads" /\ Stands(Top(e)) /\ Top(e) \in Frames
      /\ e \in Slots => tstate[e] = "running"
  BY <1>1, AtFacts
<1>3. p \in Procs /\ p \in All
  BY <1>2, FrameFacts DEF Working, All
<1>4. tproc[t] = p
  BY <1>1, <1>3 DEF Lives
<1>5. /\ threads' \in [All -> SUBSET Slots]
      /\ \A q \in All : threads'[q] = IF q = p THEN threads[q] \ {t} ELSE threads[q]
      /\ must_exit' \in [Slots -> BOOLEAN]
      /\ \A s \in Slots : must_exit'[s] = IF s = t THEN TRUE ELSE must_exit[s]
  BY <1>1, <1>3 DEF TypeOK
<1>6. StatesMove(e)
  <2>1. tstate' \in [Slots -> {"free", "loading", "running", "paused", "finished"}]
    BY <1>1 DEF TypeOK
  <2> QED
    BY <1>1, <1>3, <1>4, <1>5, <2>1 DEF StatesMove, Gone
<1> SUFFICES ASSUME NEW g, g = [at |-> "xkill", p |-> Top(e).p, x |-> t] PROVE IInv'
  OBVIOUS
<1>7. g \in Frames
  BY <1>3 DEF Frames
<1>8. Moves(e, 1) /\ stack'[e][1] = g
  BY <1>1, <1>2, <1>7, GoWithMoves
<1>9. Stands(g)'
  <2>1. tstate'[t] # "free" /\ t \notin threads'[p] /\ tproc'[t] = p
    BY <1>1, <1>3, <1>4, <1>5 DEF Lives
  <2> QED
    BY <1>1, <1>2, <2>1 DEF Stands, Working, Quiet, Exited
<1> DEFINE k == 1
<1>10. k \in 0 .. 2 /\ Moves(e, k)
  BY <1>8
<1> HIDE DEF k
<1>11. \A s \in Slots : stack'[s] # <<>> => tstate'[s] \in {"running", "paused"}
  <2> SUFFICES ASSUME NEW s \in Slots, stack'[s] # <<>>
               PROVE  tstate[s] \in {"running", "paused"}
    BY <1>1
  <2>1. CASE s = e
    BY <2>1, <1>2
  <2>2. CASE s # e
    BY <1>10, <2>2, ActiveStays
  <2> QED
    BY <2>1, <2>2
<1>12. \A s \in Slots : tstate'[s] # "free" => s \in threads'[tproc[s]] \/ BeingWaitedFor(s)'
  <2> SUFFICES ASSUME NEW s \in Slots, tstate[s] # "free"
               PROVE  s \in threads'[tproc[s]] \/ BeingWaitedFor(s)'
    BY <1>1
  <2>1. CASE s = t
    <3>1. stack'[e] # <<>> /\ Head(stack'[e]) = g
      <4>1. stack'[e] \in Seq(Frames) /\ Len(stack'[e]) = 1 + Below(e) /\ Below(e) \in Nat
        BY <1>1, <1>2, <1>8, StackFacts DEF Moves
      <4> QED
        BY <1>8, <4>1
    <3> QED
      BY <2>1, <3>1 DEF BeingWaitedFor, Inside, Top
  <2>2. CASE s # t
    <3>1. s \in threads[tproc[s]] \/ BeingWaitedFor(s)
      BY <1>1 DEF Lives
    <3>2. BeingWaitedFor(s) => BeingWaitedFor(s)'
      BY <1>2, <1>10, WaitedForStays DEF Inside
    <3>3. tproc[s] \in All
      BY <1>1 DEF Lives, TypeOK
    <3> QED
      BY <2>2, <3>1, <3>2, <3>3, <1>5
  <2> QED
    BY <2>1, <2>2
<1> HIDE DEF p
<1> QED
  BY <1>1, <1>6, <1>7, <1>8, <1>9, <1>11, <1>12, StatesExit DEF Working

\* process_exit() returns: the parent's threads that wait are woken, the lock
\* is given back.
LEMMA ExitNotifyStep ==
  ASSUME IInv, NEW e \in Execs, ExitNotify(e)
  PROVE  IInv'
<1>1. PICK woken \in SUBSET Slots :
        /\ \A s \in woken : tstate[s] = "paused"
        /\ tstate' = [s \in Slots |-> IF s \in woken THEN "running" ELSE tstate[s]]
  <2> DEFINE woken == {s \in Slots :
                        /\ status[Parent[Top(e).p]] = "running"
                        /\ tstate[s] = "paused"
                        /\ waiting_on[s] \in {<<"children", Parent[Top(e).p]>>,
                                              <<"proc", Top(e).p>>}}
  <2>1. tstate' = [s \in Slots |-> IF s \in woken THEN "running" ELSE tstate[s]]
    BY DEF ExitNotify
  <2>2. woken \in SUBSET Slots /\ \A s \in woken : tstate[s] = "paused"
    OBVIOUS
  <2> QED
    BY <2>1, <2>2
<1>2. /\ TypeOK /\ Lives /\ TasksDue /\ StacksInOrder
      /\ At(e, "xnotify") /\ UNCHANGED tasks /\ Release(Top(e).p) /\ Return(e)
      /\ UNCHANGED <<status, children, threads, stacked, down, tproc, tgen, begun, must_exit>>
  BY DEF IInv, ExitNotify, procVars
<1>3. /\ stack[e] # <<>> /\ Top(e).at = "xnotify" /\ Stands(Top(e)) /\ Top(e) \in Frames
      /\ e \in Slots => tstate[e] = "running"
  BY <1>2, AtFacts
<1>4. Top(e).p \in All /\ Top(e).p \in down
  BY <1>3, FrameFacts DEF Working, All, Stands
<1>5. /\ tstate' \in [Slots -> {"free", "loading", "running", "paused", "finished"}]
      /\ \A s \in Slots : tstate'[s] = tstate[s]
                          \/ (tstate[s] = "paused" /\ tstate'[s] = "running")
  BY <1>1, <1>2 DEF TypeOK
<1>6. StatesMove(e)
  <2>1. threads' \in [All -> SUBSET Slots] /\ UNCHANGED <<threads, must_exit>>
        /\ must_exit' \in [Slots -> BOOLEAN]
    BY <1>2 DEF TypeOK
  <2> QED
    BY <1>2, <1>5, <2>1 DEF StatesMove, Gone
<1>7. LockStep(e)
  BY <1>2, <1>3, <1>4 DEF LockStep, Locks, Working
<1>8. KeptStand(e) /\ SameProcs /\ \A k \in Tasks : TaskDue(k) => TaskDue(k)'
  BY <1>2, <1>6, <1>7, StatesStand, KeptStandBy
<1>9. StacksInOrder'
  BY <1>2, <1>3, <1>8, ReturnStacks
<1>10. PICK k \in 0 .. 2 : Moves(e, k) /\ (k > 0 => stack'[e][1].at # "tgo")
  BY <1>2, <1>3, <1>8, ReturnStacks
<1>11. ~ Inside(e, "xlock") /\ ~ Inside(e, "xkill")
  BY <1>3 DEF Inside
<1>12. \A s \in Slots : tstate'[s] # "free" => s \in threads'[tproc[s]] \/ BeingWaitedFor(s)'
  BY <1>2, <1>5, <1>10, <1>11, ListedStays
<1>13. \A s \in Slots : stack'[s] # <<>> => tstate'[s] \in {"running", "paused"}
  <2> SUFFICES ASSUME NEW s \in Slots, stack'[s] # <<>>
               PROVE  tstate'[s] \in {"running", "paused"}
    OBVIOUS
  <2>1. CASE s = e
    BY <2>1, <1>3, <1>5
  <2>2. CASE s # e
    <3>1. tstate[s] \in {"running", "paused"}
      BY <1>10, <2>2, ActiveStays
    <3> QED
      BY <3>1, <1>5
  <2> QED
    BY <2>1, <2>2
<1>14. tasks' \subseteq Tasks /\ TasksDue' /\ lock' \in [All -> Execs \cup {NoProc}]
  BY <1>2, <1>7, <1>8, LockTypes DEF TypeOK, TasksDue
<1> QED
  BY <1>4, <1>6, <1>9, <1>10, <1>11, <1>12, <1>13, <1>14, StatesHold

\* process_thread_exited(): a thread that has ended is taken off the list; the
\* last one ends the process.
LEMMA ThreadExitedStep ==
  ASSUME IInv, NEW w \in Workers, process_thread_exited(w)
  PROVE  IInv'
<1> DEFINE p == Top(w).p
           t == Top(w).x
<1>1. /\ w \in Execs /\ w \notin Slots /\ TypeOK /\ Lives /\ TasksDue /\ StacksInOrder
      /\ At(w, "cleanlock") /\ UNCHANGED <<lock, tasks>>
      /\ UNCHANGED <<status, children, stacked, down, tproc, tgen, begun, must_exit>>
  BY ProcessesAssumption DEF Execs, IInv, process_thread_exited
<1>2. /\ stack[w] # <<>> /\ Top(w).at = "cleanlock" /\ Stands(Top(w)) /\ Top(w) \in Frames
      /\ Below(w) = 0
  BY <1>1, AtFacts DEF Working
<1>3. /\ p \in Procs /\ p \in All /\ t \in Slots
      /\ tproc[t] = p /\ tstate[t] \in Gone
  BY <1>2, FrameFacts DEF Stands, All
<1>4. CASE Return(w) /\ UNCHANGED <<threads, tstate>>
  BY <1>1, <1>2, <1>4, StillReturn DEF Still, SameButLists, LockStep, Working
<1>5. CASE /\ status[p] = "running"
           /\ threads' = [threads EXCEPT ![p] = @ \ {t}]
           /\ tstate' = [tstate EXCEPT ![t] = "free"]
           /\ Return(w) \/ Becomes(w, <<Frame("xlock", p, "finished")>>)
  <2>1. /\ threads' \in [All -> SUBSET Slots]
        /\ \A q \in All : threads'[q] = IF q = p THEN threads[q] \ {t} ELSE threads[q]
        /\ tstate' \in [Slots -> {"free", "loading", "running", "paused", "finished"}]
        /\ \A s \in Slots : tstate'[s] = IF s = t THEN "free" ELSE tstate[s]
    BY <1>1, <1>3, <1>5 DEF TypeOK
  <2> HIDE DEF t
  <2>2. StatesMove(w)
    <3>1. UNCHANGED must_exit /\ must_exit' \in [Slots -> BOOLEAN]
      BY <1>1 DEF TypeOK
    <3>2. Deleted(w, t)
      <4>1. \A q \in All : t \notin threads'[q]
        BY <1>1, <1>3, <2>1 DEF Lives
      <4>2. ASSUME NEW d \in Execs, NEW f \in Frames, Kept(w, d, f), f.at = "xkill"
            PROVE  f.x # t
        <5>1. Stands(f)
          BY <4>2, <1>1, KeptFacts
        <5> QED
          BY <4>2, <5>1, <1>3, <1>5 DEF Stands, Working, Exited
      <4> QED
        BY <4>1, <4>2 DEF Deleted
    <3> QED
      BY <1>1, <1>3, <2>1, <3>1, <3>2 DEF StatesMove, Gone
  <2>3. KeptStand(w) /\ SameProcs /\ \A k \in Tasks : TaskDue(k) => TaskDue(k)'
    BY <1>1, <2>2, StatesStand, KeptStandBy DEF LockStep
  <2>4. StacksInOrder' /\ \E k \in 0 .. 2 : Moves(w, k) /\ (k > 0 => stack'[w][1].at # "tgo")
    <3>1. CASE Return(w)
      BY <1>1, <1>2, <2>3, <3>1, ReturnStacks
    <3>2. CASE Becomes(w, <<Frame("xlock", p, "finished")>>)
      <4> SUFFICES ASSUME NEW g, g = [at |-> "xlock", p |-> p, x |-> "finished"]
                   PROVE  /\ StacksInOrder'
                          /\ \E k \in 0 .. 2 : Moves(w, k) /\ (k > 0 => stack'[w][1].at # "tgo")
        OBVIOUS
      <4>1. g \in Frames
        BY <1>3 DEF Frames
      <4>2. Moves(w, 1) /\ stack'[w][1] = g
        BY <1>1, <1>2, <3>2, <4>1, MoveReplace DEF Frame
      <4>3. Placed(w, g)' /\ Stands(g)' /\ Locked(w, g)'
        BY <1>1 DEF Placed, Stands, Locked, Locks, Working, Quiet, Waiting, LockedWait
      <4>4. Based(w, g)'
        BY <1>1, <1>3 DEF Based, Lives
      <4>5. (Placed(w, stack[w][1]) /\ Stands(stack[w][1]) /\ Locked(w, stack[w][1])
              /\ Based(w, stack[w][1]))'
        BY <4>2, <4>3, <4>4 DEF Placed, Stands, Locked, Locks, Based
      <4>6. StacksInOrder'
        BY <1>1, <1>2, <2>3, <4>2, <4>5, StacksOne
      <4> DEFINE k == 1
      <4>7. k \in 0 .. 2 /\ Moves(w, k) /\ stack'[w][1].at # "tgo"
        BY <4>2
      <4> HIDE DEF k
      <4> QED
        BY <4>6, <4>7
    <3> QED
      BY <1>5, <3>1, <3>2
  <2>5. PICK k \in 0 .. 2 : Moves(w, k) /\ (k > 0 => stack'[w][1].at # "tgo")
    BY <2>4
  <2>6. ~ Inside(w, "xlock") /\ ~ Inside(w, "xkill") /\ Top(w).at \notin Working
    BY <1>2 DEF Inside, Working
  <2>7. \A s \in Slots : stack'[s] # <<>> => tstate'[s] \in {"running", "paused"}
    <3> SUFFICES ASSUME NEW s \in Slots, stack'[s] # <<>>
                 PROVE  tstate'[s] \in {"running", "paused"}
      OBVIOUS
    <3>1. tstate[s] \in {"running", "paused"}
      BY <1>1, <2>5, ActiveStays
    <3> QED
      BY <3>1, <1>3, <2>1 DEF Gone
  <2>8. \A s \in Slots : tstate'[s] # "free" => s \in threads'[tproc[s]] \/ BeingWaitedFor(s)'
    <3> SUFFICES ASSUME NEW s \in Slots, tstate'[s] # "free"
                 PROVE  s \in threads'[tproc[s]] \/ BeingWaitedFor(s)'
      OBVIOUS
    <3>1. s # t /\ tstate[s] # "free"
      BY <2>1
    <3>2. s \in threads[tproc[s]] \/ BeingWaitedFor(s)
      BY <1>1, <3>1 DEF Lives
    <3>3. BeingWaitedFor(s) => BeingWaitedFor(s)'
      BY <1>1, <2>5, <2>6, WaitedForStays
    <3>4. tproc[s] \in All
      BY <1>1, <3>1 DEF Lives, TypeOK
    <3> QED
      BY <3>1, <3>2, <3>3, <3>4, <2>1
  <2>9. tasks' \subseteq Tasks /\ TasksDue' /\ lock' \in [All -> Execs \cup {NoProc}]
    BY <1>1, <2>3 DEF TypeOK, TasksDue
  <2> QED
    BY <1>1, <2>2, <2>4, <2>5, <2>6, <2>7, <2>8, <2>9, StatesHold
<1>6. \/ Return(w) /\ UNCHANGED <<threads, tstate>>
      \/ /\ status[p] = "running"
         /\ threads' = [threads EXCEPT ![p] = @ \ {t}]
         /\ tstate' = [tstate EXCEPT ![t] = "free"]
         /\ Return(w) \/ Becomes(w, <<Frame("xlock", p, "finished")>>)
  BY DEF process_thread_exited
<1> QED
  BY <1>4, <1>5, <1>6

-----------------------------------------------------------------------------
(***************************************************************************)
(* Steps that change the lists of children.                                *)
(***************************************************************************)

\* process_wait(): a child that has exited leaves the list.
LEMMA ReapStep ==
  ASSUME IInv, NEW s \in Slots, Reap(s)
  PROVE  IInv'
<1> DEFINE par == tproc[s]
           c == Top(s).p
<1>1. /\ s \in Execs /\ s \notin Workers /\ TypeOK /\ Lives /\ TasksDue /\ StacksInOrder
      /\ Tree /\ At(s, "wreap") /\ UNCHANGED tasks /\ Release(par) /\ Return(s)
      /\ children' = [children EXCEPT ![par] = @ \ {c}]
      /\ SameButLists
  BY ProcessesAssumption DEF Execs, IInv, Reap, SameButLists, threadVars
<1>2. /\ stack[s] # <<>> /\ Top(s).at = "wreap" /\ Stands(Top(s)) /\ Top(s) \in Frames
      /\ tstate[s] = "running" /\ par \in All
  BY <1>1, AtFacts
<1>3. Exited(c)
  BY <1>2 DEF Stands
<1>4. /\ children' \in [All -> SUBSET Procs]
      /\ \A q \in All : children'[q] = IF q = par THEN children[q] \ {c} ELSE children[q]
  BY <1>1, <1>2 DEF TypeOK
<1>5. LockStep(s)
  BY <1>1, <1>2 DEF LockStep, Locks, LockedWait
<1>6. SameProcs /\ KeptStand(s)
  BY <1>1, <1>5, StillStands, KeptStandBy
<1>7. StacksInOrder'
  BY <1>1, <1>2, <1>6, ReturnStacks
<1>8. PICK k \in 0 .. 2 : Moves(s, k) /\ (k > 0 => stack'[s][1].at # "tgo")
  BY <1>1, <1>2, <1>6, ReturnStacks
<1>9. ~ Inside(s, "xkill") /\ ~ Inside(s, "xlock") /\ Top(s).at \notin Working
  BY <1>2 DEF Inside, Working
<1>10. Tree'
  <2>1. \A q \in Procs : BeingKilled(q) => BeingKilled(q)'
    BY <1>1, <1>8, <1>9, BeingKilledStays
  <2>2. ASSUME NEW q \in Procs, status[q] \in Alive
        PROVE  q \in children'[Parent[q]] \/ BeingKilled(q)'
    <3>1. q \in children[Parent[q]] \/ BeingKilled(q)
      BY <1>1, <2>2 DEF Tree
    <3>2. q # c /\ Parent[q] \in All
      BY <1>3, <2>2, ProcessesAssumption DEF Exited, Alive
    <3> QED
      BY <3>1, <3>2, <2>1, <1>4
  <2>3. \A q \in All : \A d \in children'[q] : Parent[d] = q /\ status[d] # "none"
    BY <1>1, <1>4 DEF Tree
  <2> QED
    BY <1>1, <2>2, <2>3 DEF Tree, SameButLists
<1>11. tasks' \subseteq Tasks /\ TasksDue' /\ lock' \in [All -> Execs \cup {NoProc}]
  BY <1>1, <1>5, LockTypes, StillDue DEF TypeOK
<1> HIDE DEF par, c
<1> QED
  BY <1>1, <1>2, <1>4, <1>7, <1>8, <1>9, <1>10, <1>11, ListsHold

\* The end of a child by its parent's exit: process_exit() on it, above the one
\* of the parent.
LEMMA StacksKill ==
  ASSUME IInv, NEW e \in Execs, NEW c \in Procs, At(e, "xchildren"), SameButLists,
         Parent[c] = Top(e).p, UNCHANGED lock,
         Becomes(e, <<Frame("xlock", c, "killed"), Frame("xfree", Top(e).p, c)>>)
  PROVE  /\ StacksInOrder' /\ BeingKilled(c)'
         /\ \E k \in 0 .. 2 : /\ Moves(e, k)
                              /\ stack'[e][1].at # "tgo"
                              /\ \E i \in 1 .. k : /\ stack'[e][i].at \in Working
                                                   /\ stack'[e][i].p = Top(e).p
<1>1. TypeOK /\ Lives /\ StacksInOrder
  BY DEF IInv
<1>2. /\ stack[e] # <<>> /\ Top(e).at = "xchildren" /\ Stands(Top(e)) /\ Top(e) \in Frames
      /\ Locked(e, Top(e)) /\ Below(e) \in Nat
      /\ Below(e) = 0 => Based(e, Top(e))
      /\ Below(e) > 0 => Linked(e, Top(e), stack[e][2])
  BY AtFacts
<1>3. Top(e).p \in Procs /\ Top(e).p \in All
  BY <1>2, FrameFacts DEF Working, All
<1> SUFFICES ASSUME NEW f, f = [at |-> "xlock", p |-> c, x |-> "killed"],
                    NEW g, g = [at |-> "xfree", p |-> Top(e).p, x |-> c]
             PROVE  /\ StacksInOrder' /\ BeingKilled(c)'
                    /\ \E k \in 0 .. 2 : /\ Moves(e, k)
                                         /\ stack'[e][1].at # "tgo"
                                         /\ \E i \in 1 .. k : /\ stack'[e][i].at \in Working
                                                              /\ stack'[e][i].p = Top(e).p
  OBVIOUS
<1>4. f \in Frames /\ g \in Frames
  BY <1>3 DEF Frames
<1>5. Moves(e, 2) /\ stack'[e][1] = f /\ stack'[e][2] = g
  BY <1>1, <1>2, <1>4, MovePush DEF Frame
<1>6. SameProcs /\ KeptStand(e) /\ \A h \in Frames : Stands(h) => Stands(h)'
  BY <1>1, StillStands, KeptStandBy DEF LockStep
<1>7. Placed(e, f)' /\ Stands(f)' /\ Locked(e, f)'
  <2>1. e \notin Slots \/ e \notin Workers
    BY ProcessesAssumption
  <2> QED
    BY <2>1 DEF Placed, Stands, Locked, Locks, Working, Quiet, Waiting, LockedWait
<1>8. Placed(e, g)' /\ Stands(g)' /\ Locked(e, g)'
  <2>1. lock[g.p] = e
    BY <1>2, <1>3 DEF Locked, Locks, Working
  <2>2. Placed(e, g)' /\ Locked(e, g)'
    BY <2>1, WorkingFrame DEF Placed, Locked, Locks, Working, Waiting, LockedWait
  <2>3. Stands(g)
    BY <1>2 DEF Stands, Working, Quiet
  <2> QED
    BY <1>4, <1>6, <2>2, <2>3
<1>9. Linked(e, f, g) /\ f.at \notin Working
  BY DEF Linked, Working
<1>10. Below(e) > 0 => Linked(e, g, stack[e][2])
  BY <1>2 DEF Linked, Working
<1>11. Below(e) = 0 => Based(e, g)'
  BY <1>2, <1>3, <1>6 DEF Based, SameProcs, Working
<1>12. ASSUME NEW j \in 2 .. Len(stack[e]), stack[e][j].at \in Working
       PROVE  stack[e][j].p # g.p
  <2> SUFFICES ASSUME NEW h, h = stack[e][j] PROVE h.p # g.p
    OBVIOUS
  <2>1. h \in Frames /\ Kept(e, e, h)
    <3>1. j \in 1 .. Len(stack[e])
      BY <1>1, StackFacts
    <3> QED
      BY <1>1, <3>1, BelowKept, StackFacts
  <2> QED
    BY <1>1, <1>2, <1>12, <2>1, KeptFacts DEF Working
<1> DEFINE k == 2
<1>13. k \in 0 .. 2 /\ Moves(e, k) /\ 1 .. k = {1, 2}
  BY <1>5
<1>14. \A i \in 1 .. k : (Placed(e, stack[e][i]) /\ Stands(stack[e][i])
                              /\ Locked(e, stack[e][i]))'
  BY <1>5, <1>7, <1>8, <1>13 DEF Placed, Stands, Locked, Locks
<1>15. Below(e) = 0 => Based(e, stack[e][k])'
  BY <1>5, <1>11 DEF Based
<1>16. Below(e) > 0 => Linked(e, stack'[e][k], stack[e][2])
  BY <1>5, <1>10
<1>17. \A i \in 1 .. k : stack'[e][i].at \in Working =>
         \A j \in 2 .. Len(stack[e]) :
           stack[e][j].at \in Working => stack[e][j].p # stack'[e][i].p
  BY <1>5, <1>9, <1>12, <1>13
<1>18. k = 2 => Linked(e, stack'[e][1], stack'[e][2])
                  /\ ~ (stack'[e][1].at \in Working /\ stack'[e][2].at \in Working)
  BY <1>5, <1>9
<1>19. \E i \in 1 .. k : stack'[e][i].at \in Working /\ stack'[e][i].p = Top(e).p
  BY <1>5, <1>13 DEF Working
<1> HIDE DEF k
<1>20. StacksInOrder'
  BY <1>1, <1>6, <1>13, <1>14, <1>15, <1>16, <1>17, <1>18, StacksMove
<1>21. BeingKilled(c)'
  <2>1. Len(stack'[e]) = 2 + Below(e)
    BY <1>5 DEF Moves
  <2> QED
    BY <1>2, <1>5, <2>1 DEF BeingKilled
<1> QED
  BY <1>5, <1>13, <1>19, <1>20, <1>21

\* process_exit(): the next child is taken off the list, and ended if it is
\* alive.
LEMMA ExitChildStep ==
  ASSUME IInv, NEW e \in Execs, NEW c \in Procs, ExitChild(e, c)
  PROVE  IInv'
<1> DEFINE p == Top(e).p
<1>1. /\ TypeOK /\ Lives /\ TasksDue /\ StacksInOrder /\ Tree
      /\ At(e, "xchildren") /\ UNCHANGED <<lock, tasks>> /\ SameButLists
      /\ c \in children[p]
      /\ children' = [children EXCEPT ![p] = @ \ {c}]
  BY DEF IInv, ExitChild, SameButLists, threadVars
<1>2. /\ stack[e] # <<>> /\ Top(e).at = "xchildren" /\ Stands(Top(e)) /\ Top(e) \in Frames
      /\ Locked(e, Top(e))
      /\ e \in Slots => tstate[e] = "running"
  BY <1>1, AtFacts
<1>3. p \in Procs /\ p \in All
  BY <1>2, FrameFacts DEF Working, All
<1>4. Parent[c] = p
  BY <1>1, <1>3 DEF Tree
<1>11. lock[Top(e).p] = e
  BY <1>2, <1>3 DEF Locked, Locks, Working
<1>5. /\ children' \in [All -> SUBSET Procs]
      /\ \A q \in All : children'[q] = IF q = p THEN children[q] \ {c} ELSE children[q]
  BY <1>1, <1>3 DEF TypeOK
<1>6. /\ StacksInOrder' /\ (status[c] \in Alive => BeingKilled(c)')
      /\ \E k \in 0 .. 2 : /\ Moves(e, k)
                           /\ stack'[e][1].at # "tgo"
                           /\ \E i \in 1 .. k : stack'[e][i].at \in Working /\ stack'[e][i].p = p
  <2>1. CASE status[c] \in Alive
    <3>1. Becomes(e, <<Frame("xlock", c, "killed"), Frame("xfree", Top(e).p, c)>>)
      BY <2>1 DEF ExitChild
    <3> QED
      BY <1>1, <1>4, <3>1, StacksKill
  <2>2. CASE status[c] \notin Alive
    <3> SUFFICES ASSUME NEW g, g = [at |-> "xfree", p |-> Top(e).p, x |-> c]
                 PROVE  /\ StacksInOrder'
                        /\ \E k \in 0 .. 2 : /\ Moves(e, k)
                                             /\ stack'[e][1].at # "tgo"
                                             /\ \E i \in 1 .. k : /\ stack'[e][i].at \in Working
                                                                  /\ stack'[e][i].p = p
      BY <2>2
    <3>1. g \in Frames
      BY <1>3 DEF Frames
    <3>2. Becomes(e, <<g>>)
      BY <2>2 DEF ExitChild, Frame
    <3>3. Moves(e, 1) /\ stack'[e][1] = g
      BY <1>1, <1>2, <3>1, <3>2, MoveReplace
    <3>4. SameProcs /\ KeptStand(e) /\ \A h \in Frames : Stands(h) => Stands(h)'
      BY <1>1, StillStands, KeptStandBy DEF LockStep
    <3>5. Placed(e, g)' /\ Locked(e, g)'
      <4>1. lock[g.p] = e
        BY <1>11
      <4> QED
        BY <1>1, <4>1, WorkingFrame DEF Placed, Locked, Locks, Working, Waiting, LockedWait
    <3>6. Stands(g)'
      <4>1. Stands(g)
        BY <1>2 DEF Stands, Working, Quiet
      <4> QED
        BY <3>1, <3>4, <4>1
    <3>7. (Placed(e, stack[e][1]) /\ Stands(stack[e][1]) /\ Locked(e, stack[e][1]))'
      BY <3>3, <3>5, <3>6 DEF Placed, Stands, Locked, Locks
    <3>8. StacksInOrder'
      BY <1>1, <1>2, <3>3, <3>4, <3>7, StacksExit DEF Working
    <3> DEFINE k == 1
    <3>9. k \in 0 .. 2 /\ Moves(e, k) /\ stack'[e][1].at # "tgo"
          /\ \E i \in 1 .. k : stack'[e][i].at \in Working /\ stack'[e][i].p = p
      BY <3>3 DEF Working
    <3> HIDE DEF k
    <3> QED
      BY <3>8, <3>9
  <2> QED
    BY <2>1, <2>2
<1>7. PICK k \in 0 .. 2 : /\ Moves(e, k)
                          /\ stack'[e][1].at # "tgo"
                          /\ \E i \in 1 .. k : stack'[e][i].at \in Working /\ stack'[e][i].p = p
  BY <1>6
<1>8. ~ Inside(e, "xkill") /\ ~ Inside(e, "xlock")
  BY <1>2 DEF Inside
<1>9. Tree'
  <2>1. \A q \in Procs : BeingKilled(q) => BeingKilled(q)'
    BY <1>1, <1>7, <1>8, BeingKilledStays
  <2>2. ASSUME NEW q \in Procs, status[q] \in Alive
        PROVE  q \in children'[Parent[q]] \/ BeingKilled(q)'
    <3>1. q \in children[Parent[q]] \/ BeingKilled(q)
      BY <1>1, <2>2 DEF Tree
    <3>2. Parent[q] \in All
      BY ProcessesAssumption
    <3> QED
      BY <3>1, <3>2, <2>1, <2>2, <1>5, <1>6
  <2>3. \A q \in All : \A d \in children'[q] : Parent[d] = q /\ status[d] # "none"
    BY <1>1, <1>5 DEF Tree
  <2> QED
    BY <1>1, <2>2, <2>3 DEF Tree, SameButLists
<1>10. tasks' \subseteq Tasks /\ TasksDue' /\ lock' \in [All -> Execs \cup {NoProc}]
  BY <1>1, StillDue DEF TypeOK
<1>12. \E i \in 1 .. k : stack'[e][i].at \in Working /\ stack'[e][i].p = Top(e).p
  BY <1>7
<1> HIDE DEF p
<1> QED
  BY <1>1, <1>2, <1>5, <1>6, <1>7, <1>8, <1>9, <1>10, <1>12, ListsHold

-----------------------------------------------------------------------------
(***************************************************************************)
(* Steps that map and unmap.                                               *)
(***************************************************************************)

\* Stacks are mapped and resources released; the stack of a process that has
\* not had a thread may be unmapped again by the thread that starts it.
MapMove(e) ==
  /\ UNCHANGED <<status, children, threads, tstate, tproc, tgen, begun, must_exit>>
  /\ stacked' \subseteq All /\ down' \subseteq Procs /\ down \subseteq down'
  /\ \A p \in down' \ down :
       /\ Exited(p)
       /\ \A t \in Slots : tproc[t] = p => tstate[t] = "free"
       /\ \A c \in Procs : Parent[c] = p => status[c] \notin Alive
  /\ \A p \in stacked \cup down :
       \/ p \in stacked' \cup down'
       \/ /\ p \in Procs /\ e \in Slots /\ tproc[e] = Parent[p] /\ Inside(e, "tadd")
          /\ status[p] \in Alive
          /\ p \notin begun

\* The frames that are kept stand: a thread alone starts its children.
LEMMA MapStand ==
  ASSUME IInv, SingleThreadedParents, NEW e \in Execs, MapMove(e)
  PROVE  /\ SameProcs
         /\ \A d \in Execs, f \in Frames : Kept(e, d, f) => Stands(f)'
         /\ \A k \in Tasks : TaskDue(k) => TaskDue(k)'
<1>1. TypeOK /\ Lives /\ StacksInOrder
  BY DEF IInv
<1>2. ASSUME NEW d \in Execs, NEW f \in Frames, Kept(e, d, f)
      PROVE  Stands(f)'
  <2>1. /\ Stands(f) /\ Placed(d, f) /\ stack[d] # <<>>
        /\ f.at \notin {"xfree", "wlock"} => d # e
    BY <1>1, <1>2, KeptFacts
  <2>2. ASSUME f.at = "run" \/ (f.at = "tadd" /\ f.x = "start")
        PROVE  f.p \in stacked' \cup down'
    <3> SUFFICES ASSUME f.p \notin stacked' \cup down' PROVE FALSE
      OBVIOUS
    <3>1. f.p \in stacked \cup down
      BY <2>1, <2>2 DEF Stands
    <3>2. f.p \in Procs /\ e \in Slots /\ tproc[e] = Parent[f.p]
      BY <3>1 DEF MapMove
    <3>3. d \in Slots /\ tproc[d] = Parent[f.p]
      BY <2>1, <2>2 DEF Placed, Execs, Working
    <3>4. d = e
      BY <1>1, <3>2, <3>3, OneThread
    <3> QED
      BY <2>1, <2>2, <3>4
  <2>3. f.p \in down => f.p \in down'
    BY DEF MapMove
  <2> QED
    BY <2>1, <2>2, <2>3 DEF Stands, MapMove, Exited
<1>3. \A k \in Tasks : TaskDue(k) => TaskDue(k)'
  BY DEF TaskDue, MapMove
<1> QED
  BY <1>2, <1>3 DEF SameProcs, MapMove

\* The part of the invariant that is not about stacks.
LEMMA MapHold ==
  ASSUME IInv, NEW e \in Execs, NEW k \in 0 .. 2, Moves(e, k), MapMove(e),
         e \in Slots => tstate[e] = "running",
         lock' \in [All -> Execs \cup {NoProc}], tasks' \subseteq Tasks,
         TasksDue', StacksInOrder',
         ~ Inside(e, "xkill"), ~ Inside(e, "xlock"),
         stack[e] # <<>> /\ Top(e).at \in Working =>
           \E i \in 1 .. k : stack'[e][i].at \in Working /\ stack'[e][i].p = Top(e).p,
         k > 0 => stack'[e][1].at # "tgo"
  PROVE  IInv'
<1>1. TypeOK'
  BY DEF IInv, TypeOK, MapMove, Moves
<1>2. Tree'
  <2>1. \A c \in Procs : BeingKilled(c) => BeingKilled(c)'
    BY BeingKilledStays DEF IInv
  <2>2. Tree
    BY DEF IInv
  <2> QED
    BY <2>1, <2>2 DEF Tree, MapMove
<1>3. Lives'
  <2>1. \A s \in Slots : BeingWaitedFor(s) => BeingWaitedFor(s)'
    BY WaitedForStays
  <2>2. ASSUME NEW s \in Slots, stack'[s] # <<>>
        PROVE  tstate[s] \in {"running", "paused"}
    <3>1. CASE s = e
      BY <3>1
    <3>2. CASE s # e
      <4>1. stack'[s] = stack[s]
        BY <3>2 DEF Moves, Execs
      <4> QED
        BY <2>2, <4>1 DEF IInv, Lives
    <3> QED
      BY <3>1, <3>2
  <2>3. Lives
    BY DEF IInv
  <2>4. \A p \in begun : p \in Procs => p \in stacked' \cup down'
    BY <2>3 DEF Lives, MapMove
  <2> QED
    BY <2>1, <2>2, <2>3, <2>4 DEF Lives, MapMove
<1>4. OneStarter'
  BY OneStarterStays DEF IInv
<1>5. NotAgain'
  <2>1. ASSUME NEW s \in Slots, NEW c \in Procs, Ending(s, c)
        PROVE  Ending(s, c)'
    <3>1. s \in Execs /\ TypeOK
      BY DEF Execs, IInv
    <3>2. CASE s # e
      BY <2>1, <3>1, <3>2, EndingStays
    <3>3. CASE s = e
      <4>1. stack[e] # <<>>
        BY <2>1, <3>1, <3>3, StackFacts DEF Ending
      <4> QED
        BY <2>1, <3>1, <4>1, EndingStays
    <3> QED
      BY <3>2, <3>3
  <2>2. NotAgain
    BY DEF IInv
  <2>3. \A c \in Procs : Exited(c) /\ c \in stacked \cup down => c \in stacked' \cup down'
    BY DEF MapMove, Exited, Alive
  <2> QED
    BY <2>1, <2>2, <2>3 DEF NotAgain, MapMove, Exited
<1>6. DownIsExited' /\ NoThreadOutlives' /\ NoOrphanAlive'
  BY DEF IInv, DownIsExited, NoThreadOutlives, NoOrphanAlive, MapMove, Exited
<1> QED
  BY <1>1, <1>2, <1>3, <1>4, <1>5, <1>6 DEF IInv

\* start_process(): the stack of a process that has never had one is mapped.
LEMMA StartMmapStep ==
  ASSUME IInv, SingleThreadedParents, NEW s \in Slots, start_mmap(s)
  PROVE  IInv'
<1> DEFINE c == Top(s).p
<1>1. /\ s \in Execs /\ s \notin Workers /\ TypeOK /\ Lives /\ TasksDue /\ StacksInOrder
      /\ NotAgain /\ At(s, "start") /\ UNCHANGED <<lock, tasks>>
      /\ UNCHANGED <<status, children, threads, down, tstate, tproc, tgen, begun, must_exit>>
  BY ProcessesAssumption DEF Execs, IInv, start_mmap, threadVars
<1>2. /\ stack[s] # <<>> /\ Top(s).at = "start" /\ Stands(Top(s)) /\ Top(s) \in Frames
      /\ Top(s) = stack[s][1] /\ Placed(s, Top(s)) /\ tstate[s] = "running" /\ Below(s) = 0
      /\ Len(stack[s]) = 1 + Below(s)
  BY <1>1, AtFacts DEF Working
<1>3. /\ c \in Procs /\ c \in All /\ tproc[s] = Parent[c] /\ status[c] # "none"
      /\ Top(s).x = NoProc
  BY <1>2, FrameFacts DEF Placed, Stands, All
<1>4. CASE c \in stacked \cup down
  <2>1. Return(s) /\ UNCHANGED stacked
    BY <1>4 DEF start_mmap
  <2> QED
    BY <1>1, <1>2, <2>1, StillReturn DEF Still, SameButLists, LockStep, Working
<1>5. CASE c \notin stacked \cup down
  <2>1. GoTo(s, "run") /\ stacked' = stacked \cup {c}
    BY <1>5 DEF start_mmap
  <2>2. status[c] \in Alive
    <3>1. ~ Ending(s, c)
      <4>1. Len(stack[s]) = 1
        BY <1>2
      <4> QED
        BY <1>2, <4>1 DEF Ending, Working
    <3>2. ~ Exited(c)
      BY <1>1, <1>2, <1>3, <1>5, <3>1 DEF NotAgain, Gone
    <3> QED
      BY <1>1, <1>3, <3>2 DEF TypeOK, Exited, Alive
  <2>3. c \notin begun
    BY <1>1, <1>3, <1>5 DEF Lives
  <2>4. MapMove(s)
    BY <1>1, <1>3, <2>1 DEF MapMove, TypeOK
  <2>5. SameProcs /\ KeptStand(s) /\ \A k \in Tasks : TaskDue(k) => TaskDue(k)'
    BY <1>1, <2>4, MapStand, KeptStandBy DEF LockStep
  <2> SUFFICES ASSUME NEW g, g = [at |-> "run", p |-> Top(s).p, x |-> Top(s).x] PROVE IInv'
    OBVIOUS
  <2>6. g \in Frames
    BY <1>3 DEF Frames
  <2>7. Moves(s, 1) /\ stack'[s][1] = g
    BY <1>1, <1>2, <2>1, <2>6, GoToMoves
  <2>8. Placed(s, g)'
    BY <1>1, <1>3 DEF Placed, Waiting
  <2>9. Stands(g)'
    <3>1. status'[g.p] \in Alive /\ g.p \in stacked' \cup down' /\ g.p \notin begun'
      BY <1>1, <2>1, <2>2, <2>3
    <3> QED
      BY <3>1 DEF Stands, Working, Quiet
  <2>10. Locked(s, g)' /\ Based(s, g)'
    BY DEF Locked, Locks, Based, Working, LockedWait
  <2>11. (Placed(s, stack[s][1]) /\ Stands(stack[s][1]) /\ Locked(s, stack[s][1])
           /\ Based(s, stack[s][1]))'
    BY <2>7, <2>8, <2>9, <2>10 DEF Placed, Stands, Locked, Locks, Based
  <2>12. StacksInOrder'
    BY <1>1, <1>2, <2>5, <2>7, <2>11, StacksOne
  <2> DEFINE k == 1
  <2>13. k \in 0 .. 2 /\ Moves(s, k) /\ stack'[s][1].at # "tgo"
    BY <2>7
  <2> HIDE DEF k
  <2>14. ~ Inside(s, "xlock") /\ ~ Inside(s, "xkill") /\ Top(s).at \notin Working
    BY <1>2 DEF Inside, Working
  <2>15. tasks' \subseteq Tasks /\ TasksDue' /\ lock' \in [All -> Execs \cup {NoProc}]
    BY <1>1, <2>5 DEF TypeOK, TasksDue
  <2> QED
    BY <1>1, <1>2, <2>4, <2>12, <2>13, <2>14, <2>15, MapHold
<1> QED
  BY <1>4, <1>5

\* process_new_thread() fails, and start_process() unmaps the stack.
LEMMA NewThreadFailsStep ==
  ASSUME IInv, SingleThreadedParents, NEW s \in Slots, new_thread_fails(s)
  PROVE  IInv'
<1> DEFINE c == Top(s).p
<1>1. /\ s \in Execs /\ s \notin Workers /\ TypeOK /\ Lives /\ TasksDue /\ StacksInOrder
      /\ At(s, "tadd") /\ UNCHANGED <<lock, tasks>> /\ Return(s)
      /\ UNCHANGED <<status, children, threads, down, tstate, tproc, tgen, begun, must_exit>>
  BY ProcessesAssumption DEF Execs, IInv, new_thread_fails, threadVars
<1>2. /\ stack[s] # <<>> /\ Top(s).at = "tadd" /\ Stands(Top(s)) /\ Top(s) \in Frames
      /\ Placed(s, Top(s)) /\ tstate[s] = "running"
  BY <1>1, AtFacts
<1>3. CASE UNCHANGED stacked
  BY <1>1, <1>2, <1>3, StillReturn DEF Still, SameButLists, LockStep, Working
<1>4. CASE Top(s).x = "start" /\ stacked' = stacked \ {c}
  <2>1. /\ c \in Procs /\ tproc[s] = Parent[c] /\ status[c] \in Alive
        /\ c \notin begun
    BY <1>2, <1>4 DEF Placed, Stands
  <2>2. MapMove(s)
    BY <1>1, <1>2, <1>4, <2>1 DEF MapMove, TypeOK, Inside
  <2>3. SameProcs /\ KeptStand(s) /\ \A k \in Tasks : TaskDue(k) => TaskDue(k)'
    BY <1>1, <2>2, MapStand, KeptStandBy DEF LockStep
  <2>4. StacksInOrder'
    BY <1>1, <1>2, <2>3, ReturnStacks
  <2>5. PICK k \in 0 .. 2 : Moves(s, k) /\ (k > 0 => stack'[s][1].at # "tgo")
    BY <1>1, <1>2, <2>3, ReturnStacks
  <2>6. ~ Inside(s, "xlock") /\ ~ Inside(s, "xkill") /\ Top(s).at \notin Working
    BY <1>2 DEF Inside, Working
  <2>7. tasks' \subseteq Tasks /\ TasksDue' /\ lock' \in [All -> Execs \cup {NoProc}]
    BY <1>1, <2>3 DEF TypeOK, TasksDue
  <2> QED
    BY <1>1, <1>2, <2>2, <2>4, <2>5, <2>6, <2>7, MapHold
<1> QED
  BY <1>3, <1>4 DEF new_thread_fails

\* A child of a process under exit that is alive is on the list.
LEMMA NoChildLeft ==
  ASSUME IInv, NEW e \in Execs, At(e, "xchildren"), children[Top(e).p] = {},
         NEW c \in Procs, Parent[c] = Top(e).p
  PROVE  status[c] \notin Alive
<1> SUFFICES ASSUME status[c] \in Alive PROVE FALSE
  OBVIOUS
<1>1. /\ stack[e] # <<>> /\ Top(e).at = "xchildren" /\ Locked(e, Top(e)) /\ Top(e) \in Frames
      /\ Top(e) = stack[e][1]
  BY AtFacts
<1>2. Top(e).p \in All
  BY <1>1, FrameFacts DEF All, Working
<1>3. BeingKilled(c)
  BY DEF IInv, Tree
<1>4. PICK d \in Execs : /\ Len(stack[d]) > 1
                         /\ stack[d][1].at = "xlock" /\ stack[d][1].p = c
                         /\ stack[d][2].at = "xfree"
  BY <1>3 DEF BeingKilled
<1>5. StackInOrder(d) /\ Len(stack[d]) \in Nat
  BY StackFacts DEF IInv, StacksInOrder
<1>6. 1 \in 1 .. (Len(stack[d]) - 1) /\ 2 \in 1 .. Len(stack[d])
  BY <1>4, <1>5
<1>7. Linked(d, stack[d][1], stack[d][1 + 1]) /\ Locked(d, stack[d][2])
  BY <1>5, <1>6 DEF StackInOrder
<1>8. stack[d][2].p = Top(e).p
  BY <1>4, <1>7 DEF Linked
<1>9. lock[Top(e).p] = d /\ lock[Top(e).p] = e
  BY <1>1, <1>2, <1>4, <1>7, <1>8 DEF Locked, Locks, Working
<1> QED
  BY <1>1, <1>4, <1>9

\* process_exit(): the resources of the process are released.
LEMMA ExitReleaseStep ==
  ASSUME IInv, SingleThreadedParents, NEW e \in Execs, ExitRelease(e)
  PROVE  IInv'
<1> DEFINE p == Top(e).p
<1>1. /\ TypeOK /\ Lives /\ TasksDue /\ StacksInOrder
      /\ At(e, "xchildren") /\ UNCHANGED <<lock, tasks>> /\ GoTo(e, "xnotify")
      /\ children[p] = {}
      /\ down' = down \cup {p} /\ stacked' = stacked \ {p}
      /\ UNCHANGED <<status, children, threads, tstate, tproc, tgen, begun, must_exit>>
  BY DEF IInv, ExitRelease, threadVars
<1>2. /\ stack[e] # <<>> /\ Top(e).at = "xchildren" /\ Stands(Top(e)) /\ Top(e) \in Frames
      /\ Locked(e, Top(e))
      /\ e \in Slots => tstate[e] = "running"
  BY <1>1, AtFacts
<1>3. /\ p \in Procs /\ p \in All /\ Top(e).x \in {"finished", "killed", NoProc}
      /\ lock[p] = e
  BY <1>2, FrameFacts DEF Working, All, Locked, Locks
<1>4. Exited(p) /\ \A t \in Slots : tproc[t] = p => tstate[t] = "free"
  BY <1>2 DEF Stands, Working, Quiet
<1>5. \A c \in Procs : Parent[c] = p => status[c] \notin Alive
  BY <1>1, NoChildLeft
<1>6. MapMove(e)
  BY <1>1, <1>3, <1>4, <1>5 DEF MapMove, TypeOK
<1>7. SameProcs /\ KeptStand(e) /\ \A k \in Tasks : TaskDue(k) => TaskDue(k)'
  BY <1>1, <1>6, MapStand, KeptStandBy DEF LockStep
<1> SUFFICES ASSUME NEW g, g = [at |-> "xnotify", p |-> Top(e).p, x |-> Top(e).x] PROVE IInv'
  OBVIOUS
<1>8. g \in Frames
  BY <1>3 DEF Frames
<1>9. Moves(e, 1) /\ stack'[e][1] = g
  BY <1>1, <1>2, <1>8, GoToMoves
<1>10. Placed(e, g)' /\ Locked(e, g)'
  BY <1>1, <1>3, WorkingFrame DEF Placed, Locked, Locks, Working, Waiting, LockedWait
<1>11. Stands(g)'
  BY <1>1, <1>4 DEF Stands, Working, Quiet, Exited
<1>12. (Placed(e, stack[e][1]) /\ Stands(stack[e][1]) /\ Locked(e, stack[e][1]))'
  BY <1>9, <1>10, <1>11 DEF Placed, Stands, Locked, Locks
<1>13. StacksInOrder'
  BY <1>1, <1>2, <1>7, <1>9, <1>12, StacksExit DEF Working
<1> DEFINE k == 1
<1>14. k \in 0 .. 2 /\ Moves(e, k) /\ stack'[e][1].at # "tgo"
       /\ \E i \in 1 .. k : stack'[e][i].at \in Working /\ stack'[e][i].p = Top(e).p
  BY <1>9 DEF Working
<1> HIDE DEF k
<1>15. ~ Inside(e, "xlock") /\ ~ Inside(e, "xkill")
  BY <1>2 DEF Inside
<1>16. tasks' \subseteq Tasks /\ TasksDue' /\ lock' \in [All -> Execs \cup {NoProc}]
  BY <1>1, <1>7 DEF TypeOK, TasksDue
<1> QED
  BY <1>1, <1>2, <1>6, <1>13, <1>14, <1>15, <1>16, MapHold

-----------------------------------------------------------------------------
(***************************************************************************)
(* Steps that change the status of a process.                              *)
(***************************************************************************)

\* A process goes on in its life.
StatusMove ==
  /\ UNCHANGED <<threads, stacked, down, tstate, tproc, tgen, begun, must_exit>>
  /\ status' \in [All -> {"none", "loading", "running", "finished", "killed"}]
  /\ children' \in [All -> SUBSET Procs]
  /\ \A p \in All : /\ status[p] # "none" => status'[p] # "none"
                    /\ Exited(p) => status'[p] = status[p]

\* The frames that are kept stand, if the children that their threads make and
\* start are as they were.
LEMMA StatusStand ==
  ASSUME IInv, NEW e \in Execs, StatusMove,
         \A d \in Execs, f \in Frames : Kept(e, d, f) =>
           /\ f.at = "addchild" => status'[f.p] = "none"
           /\ f.at = "run" \/ (f.at = "tadd" /\ f.x = "start") => status'[f.p] \in Alive
  PROVE  /\ SameProcs
         /\ \A d \in Execs, f \in Frames : Kept(e, d, f) => Stands(f)'
         /\ \A k \in Tasks : TaskDue(k) => TaskDue(k)'
<1>1. ASSUME NEW d \in Execs, NEW f \in Frames, Kept(e, d, f)
      PROVE  Stands(f)'
  <2>1. Stands(f)
    BY <1>1, KeptFacts DEF IInv
  <2>2. f.at = "start" => status'[f.p] # "none"
    BY <2>1, FrameFacts DEF Stands, StatusMove, All
  <2>3. f.at \in Working \cup {"wreap"} => Exited(f.p)'
    <3> SUFFICES ASSUME f.at \in Working \cup {"wreap"} PROVE Exited(f.p)'
      OBVIOUS
    <3>1. Exited(f.p) /\ f.p \in All
      BY <2>1, FrameFacts DEF Stands, All
    <3> QED
      BY <3>1 DEF StatusMove, Exited
  <2> QED
    BY <1>1, <2>1, <2>2, <2>3 DEF Stands, StatusMove
<1>2. \A k \in Tasks : TaskDue(k) => TaskDue(k)'
  BY DEF TaskDue, StatusMove
<1> QED
  BY <1>1, <1>2 DEF SameProcs, StatusMove

\* The part of the invariant that does not depend on which status changes.
LEMMA StatusHold ==
  ASSUME IInv, NEW e \in Execs, NEW k \in 0 .. 2, Moves(e, k), StatusMove,
         e \in Slots => tstate[e] = "running",
         lock' \in [All -> Execs \cup {NoProc}], tasks' \subseteq Tasks,
         TasksDue', StacksInOrder', Tree', NotAgain', NoOrphanAlive',
         ~ Inside(e, "xkill"),
         k > 0 => stack'[e][1].at # "tgo"
  PROVE  IInv'
<1>1. TypeOK'
  BY DEF IInv, TypeOK, StatusMove, Moves
<1>2. Lives'
  <2>1. \A s \in Slots : BeingWaitedFor(s) => BeingWaitedFor(s)'
    BY WaitedForStays
  <2>2. ASSUME NEW s \in Slots, stack'[s] # <<>>
        PROVE  tstate[s] \in {"running", "paused"}
    <3>1. CASE s = e
      BY <3>1
    <3>2. CASE s # e
      <4>1. stack'[s] = stack[s]
        BY <3>2 DEF Moves, Execs
      <4> QED
        BY <2>2, <4>1 DEF IInv, Lives
    <3> QED
      BY <3>1, <3>2
  <2>3. Lives
    BY DEF IInv
  <2> QED
    BY <2>1, <2>2, <2>3 DEF Lives, StatusMove
<1>3. OneStarter'
  BY OneStarterStays DEF IInv
<1>4. DownIsExited'
  <2>1. \A p \in down : p \in All /\ Exited(p)
    BY DEF IInv, DownIsExited, TypeOK, All
  <2> QED
    BY <2>1 DEF DownIsExited, StatusMove, Exited
<1>5. NoThreadOutlives'
  BY DEF IInv, NoThreadOutlives, StatusMove
<1> QED
  BY <1>1, <1>2, <1>3, <1>4, <1>5 DEF IInv

\* Nobody exits in a step that only makes or starts a process.
LEMMA NotAgainStays ==
  ASSUME IInv, NEW e \in Execs, NEW k \in 0 .. 2, Moves(e, k), StatusMove,
         stack[e] # <<>>, Top(e).at \notin Working,
         \A c \in Procs : Exited(c)' => Exited(c)
  PROVE  NotAgain'
<1>1. TypeOK /\ NotAgain
  BY DEF IInv
<1>2. ASSUME NEW s \in Slots, NEW c \in Procs, Ending(s, c)
      PROVE  Ending(s, c)'
  <2>1. s \in Execs
    BY DEF Execs
  <2> QED
    BY <1>1, <1>2, <2>1, EndingStays
<1> QED
  BY <1>1, <1>2 DEF NotAgain, StatusMove

\* new_process(): a child, on the list of its parent.
LEMMA NewProcessStep ==
  ASSUME IInv, SingleThreadedParents, NEW s \in Slots, new_process(s)
  PROVE  IInv'
<1> DEFINE c == Top(s).p
<1>1. /\ s \in Execs /\ s \notin Workers /\ TypeOK /\ Lives /\ TasksDue /\ StacksInOrder
      /\ Tree /\ At(s, "addchild") /\ UNCHANGED <<lock, tasks>> /\ Return(s)
      /\ status' = [status EXCEPT ![c] = "loading"]
      /\ children' = [children EXCEPT ![Parent[c]] = @ \cup {c}]
      /\ UNCHANGED <<threads, stacked, down, tstate, tproc, tgen, begun, must_exit>>
  BY ProcessesAssumption DEF Execs, IInv, new_process, threadVars
<1>2. /\ stack[s] # <<>> /\ Top(s).at = "addchild" /\ Stands(Top(s)) /\ Top(s) \in Frames
      /\ Placed(s, Top(s)) /\ tstate[s] = "running"
  BY <1>1, AtFacts
<1>3. /\ c \in Procs /\ c \in All /\ c # Root /\ Parent[c] \in All
      /\ tproc[s] = Parent[c] /\ status[c] = "none"
  BY <1>2, FrameFacts, ProcessesAssumption DEF Placed, Stands, All
<1>4. /\ \A p \in All : status'[p] = IF p = c THEN "loading" ELSE status[p]
      /\ \A p \in All : children'[p] = IF p = Parent[c] THEN children[p] \cup {c}
                                       ELSE children[p]
      /\ status' \in [All -> {"none", "loading", "running", "finished", "killed"}]
      /\ children' \in [All -> SUBSET Procs]
  BY <1>1, <1>3 DEF TypeOK
<1>5. StatusMove
  BY <1>1, <1>3, <1>4 DEF StatusMove, Exited
<1>6. ASSUME NEW d \in Execs, NEW f \in Frames, Kept(s, d, f)
      PROVE  /\ f.at = "addchild" => status'[f.p] = "none"
             /\ f.at = "run" \/ (f.at = "tadd" /\ f.x = "start") => status'[f.p] \in Alive
  <2>1. Stands(f) /\ Placed(d, f) /\ (f.at \notin {"xfree", "wlock"} => d # s)
    BY <1>1, <1>6, KeptFacts
  <2>2. CASE f.at = "addchild"
    <3>1. f.p \in Procs /\ status[f.p] = "none" /\ d # s /\ d \in Slots /\ tproc[d] = Parent[f.p]
      BY <2>1, <2>2, FrameFacts DEF Stands, Placed, Execs, Working
    <3>2. f.p # c
      BY <1>1, <1>3, <3>1, OneThread
    <3> QED
      BY <2>2, <3>1, <3>2, <1>4 DEF All
  <2>3. CASE f.at = "run" \/ (f.at = "tadd" /\ f.x = "start")
    <3>1. f.p \in All /\ status[f.p] \in Alive
      BY <2>1, <2>3, FrameFacts DEF Stands, All
    <3> QED
      BY <2>3, <3>1, <1>4 DEF Alive
  <2> QED
    BY <2>2, <2>3
<1>7. SameProcs /\ KeptStand(s) /\ \A k \in Tasks : TaskDue(k) => TaskDue(k)'
  BY <1>1, <1>5, <1>6, StatusStand, KeptStandBy DEF LockStep
<1>8. StacksInOrder'
  BY <1>1, <1>2, <1>7, ReturnStacks
<1>9. PICK k \in 0 .. 2 : Moves(s, k) /\ (k > 0 => stack'[s][1].at # "tgo")
  BY <1>1, <1>2, <1>7, ReturnStacks
<1>10. ~ Inside(s, "xlock") /\ ~ Inside(s, "xkill") /\ Top(s).at \notin Working
  BY <1>2 DEF Inside, Working
<1>11. Tree'
  <2>1. \A q \in Procs : BeingKilled(q) => BeingKilled(q)'
    BY <1>1, <1>9, <1>10, BeingKilledStays
  <2>2. status'[Root] = "running"
    BY <1>1, <1>3, <1>4 DEF Tree, All
  <2>3. ASSUME NEW p \in All, NEW d \in children'[p]
        PROVE  Parent[d] = p /\ status'[d] # "none"
    <3>1. d \in All
      BY <1>4 DEF All
    <3> QED
      BY <3>1, <1>1, <1>3, <1>4 DEF Tree
  <2>4. ASSUME NEW q \in Procs, status'[q] # "none"
        PROVE  /\ Parent[q] \in begun'
               /\ status'[q] \in Alive => q \in children'[Parent[q]] \/ BeingKilled(q)'
    <3>1. CASE q = c
      BY <3>1, <1>1, <1>3, <1>4 DEF Lives
    <3>2. CASE q # c
      <4>1. status'[q] = status[q] /\ Parent[q] \in All
        BY <3>2, <1>4, ProcessesAssumption DEF All
      <4>2. children[Parent[q]] \subseteq children'[Parent[q]]
        BY <4>1, <1>4
      <4> QED
        BY <4>1, <4>2, <2>1, <2>4, <1>1 DEF Tree
    <3> QED
      BY <3>1, <3>2
  <2>5. \A q \in Procs : status'[q] \in Alive => status'[q] # "none"
    BY DEF Alive
  <2> QED
    BY <2>2, <2>3, <2>4, <2>5 DEF Tree
<1>12. NotAgain'
  <2>1. \A q \in Procs : Exited(q)' => Exited(q)
    BY <1>4 DEF Exited, All
  <2> QED
    BY <1>1, <1>2, <1>5, <1>9, <1>10, <2>1, NotAgainStays
<1>13. NoOrphanAlive'
  <2>1. Parent[c] \notin down
    BY <1>2, <1>3 DEF IInv, NoThreadOutlives
  <2>2. \A q \in Procs : q # c => status'[q] = status[q]
    BY <1>4 DEF All
  <2> QED
    BY <1>1, <2>1, <2>2 DEF IInv, NoOrphanAlive
<1>14. tasks' \subseteq Tasks /\ TasksDue' /\ lock' \in [All -> Execs \cup {NoProc}]
  BY <1>1, <1>7 DEF TypeOK, TasksDue
<1> HIDE DEF c
<1> QED
  BY <1>1, <1>2, <1>5, <1>8, <1>9, <1>10, <1>11, <1>12, <1>13, <1>14, StatusHold

\* start_process(): p->status = PS_RUNNING.
LEMMA StartProcessStep ==
  ASSUME IInv, NEW s \in Slots, start_process(s)
  PROVE  IInv'
<1> DEFINE c == Top(s).p
<1>1. /\ s \in Execs /\ s \notin Workers /\ TypeOK /\ Lives /\ TasksDue /\ StacksInOrder
      /\ Tree /\ At(s, "run") /\ UNCHANGED <<lock, tasks>> /\ GoWith(s, "tadd", "start")
      /\ status' = [status EXCEPT ![c] = "running"]
      /\ UNCHANGED <<children, threads, stacked, down, tstate, tproc, tgen, begun, must_exit>>
  BY ProcessesAssumption DEF Execs, IInv, start_process, threadVars
<1>2. /\ stack[s] # <<>> /\ Top(s).at = "run" /\ Stands(Top(s)) /\ Top(s) \in Frames
      /\ Placed(s, Top(s)) /\ tstate[s] = "running" /\ Below(s) = 0
  BY <1>1, AtFacts DEF Working
<1>3. /\ c \in Procs /\ c \in All /\ c # Root
      /\ tproc[s] = Parent[c] /\ status[c] \in Alive
      /\ c \in stacked \cup down /\ c \notin begun
  BY <1>2, FrameFacts, ProcessesAssumption DEF Placed, Stands, All
<1>4. /\ \A p \in All : status'[p] = IF p = c THEN "running" ELSE status[p]
      /\ status' \in [All -> {"none", "loading", "running", "finished", "killed"}]
      /\ children' \in [All -> SUBSET Procs]
  BY <1>1, <1>3 DEF TypeOK
<1>5. StatusMove
  BY <1>1, <1>3, <1>4 DEF StatusMove, Exited, Alive
<1>6. ASSUME NEW d \in Execs, NEW f \in Frames, Kept(s, d, f)
      PROVE  /\ f.at = "addchild" => status'[f.p] = "none"
             /\ f.at = "run" \/ (f.at = "tadd" /\ f.x = "start") => status'[f.p] \in Alive
  <2>1. Stands(f)
    BY <1>1, <1>6, KeptFacts
  <2>2. f.at \in {"addchild", "run", "tadd"} => f.p \in All
    BY FrameFacts DEF All
  <2> QED
    BY <2>1, <2>2, <1>3, <1>4 DEF Stands, Alive
<1>7. SameProcs /\ KeptStand(s) /\ \A k \in Tasks : TaskDue(k) => TaskDue(k)'
  BY <1>1, <1>5, <1>6, StatusStand, KeptStandBy DEF LockStep
<1> SUFFICES ASSUME NEW g, g = [at |-> "tadd", p |-> Top(s).p, x |-> "start"] PROVE IInv'
  OBVIOUS
<1>8. g \in Frames
  BY <1>3 DEF Frames
<1>9. Moves(s, 1) /\ stack'[s][1] = g
  BY <1>1, <1>2, <1>8, GoWithMoves
<1>10. Placed(s, g)'
  BY <1>1, <1>3 DEF Placed, Waiting
<1>11. Stands(g)'
  <2>1. status'[g.p] \in Alive /\ g.p \in stacked' \cup down' /\ g.p \notin begun'
    BY <1>1, <1>3, <1>4 DEF Alive
  <2> QED
    BY <2>1 DEF Stands, Working, Quiet
<1>12. Locked(s, g)' /\ Based(s, g)'
  BY DEF Locked, Locks, Based, Working, LockedWait
<1>13. (Placed(s, stack[s][1]) /\ Stands(stack[s][1]) /\ Locked(s, stack[s][1])
         /\ Based(s, stack[s][1]))'
  BY <1>9, <1>10, <1>11, <1>12 DEF Placed, Stands, Locked, Locks, Based
<1>14. StacksInOrder'
  BY <1>1, <1>2, <1>7, <1>9, <1>13, StacksOne
<1> DEFINE k == 1
<1>15. k \in 0 .. 2 /\ Moves(s, k) /\ stack'[s][1].at # "tgo"
  BY <1>9
<1> HIDE DEF k
<1>16. ~ Inside(s, "xlock") /\ ~ Inside(s, "xkill") /\ Top(s).at \notin Working
  BY <1>2 DEF Inside, Working
<1>17. \A q \in All : /\ status'[q] \in Alive <=> status[q] \in Alive
                      /\ status'[q] = "none" <=> status[q] = "none"
  BY <1>3, <1>4 DEF Alive
<1>18. Tree'
  <2>1. \A q \in Procs : BeingKilled(q) => BeingKilled(q)'
    BY <1>1, <1>15, <1>16, BeingKilledStays
  <2>2. status'[Root] = "running"
    BY <1>1, <1>3, <1>4 DEF Tree, All
  <2>3. \A p \in All : children[p] \subseteq All
    BY <1>1 DEF TypeOK, All
  <2>4. Procs \subseteq All
    BY DEF All
  <2> QED
    BY <1>1, <1>17, <2>1, <2>2, <2>3, <2>4 DEF Tree
<1>19. NotAgain'
  <2>1. \A q \in Procs : Exited(q)' => Exited(q)
    BY <1>4 DEF Exited, All
  <2> QED
    BY <1>1, <1>2, <1>5, <1>15, <1>16, <2>1, NotAgainStays
<1>20. NoOrphanAlive'
  BY <1>1, <1>17 DEF IInv, NoOrphanAlive, All
<1>21. tasks' \subseteq Tasks /\ TasksDue' /\ lock' \in [All -> Execs \cup {NoProc}]
  BY <1>1, <1>7 DEF TypeOK, TasksDue
<1> HIDE DEF c
<1> QED
  BY <1>1, <1>2, <1>5, <1>14, <1>15, <1>16, <1>18, <1>19, <1>20, <1>21, StatusHold

\* Where process_exit() begins on a process that is alive, that process has had
\* a thread; or all threads of its parent are gone, whose exit this is part of;
\* or its parent's thread kills it.
LEMMA ExitBegins ==
  ASSUME IInv, SingleThreadedParents, NEW e \in Execs, At(e, "xlock")
  PROVE  \/ Top(e).p \in begun
         \/ \A t \in Slots : tproc[t] = Parent[Top(e).p] => tstate[t] = "free"
         \/ /\ e \in Slots /\ tproc[e] = Parent[Top(e).p]
            /\ \A t \in Slots : tproc[t] = Parent[Top(e).p] => t = e
<1>1. TypeOK /\ Lives /\ StacksInOrder
  BY DEF IInv
<1>2. /\ stack[e] # <<>> /\ Top(e).at = "xlock" /\ Top(e) \in Frames
      /\ Below(e) \in Nat /\ Len(stack[e]) = 1 + Below(e)
      /\ Below(e) = 0 => Based(e, Top(e))
      /\ Below(e) > 0 => Linked(e, Top(e), stack[e][2])
  BY AtFacts
<1>3. Top(e).p \in Procs
  BY <1>2, FrameFacts
<1>4. CASE Below(e) = 0
  BY <1>2, <1>4 DEF Based
<1>5. CASE Below(e) > 0
  <2> SUFFICES ASSUME NEW g, g = stack[e][2]
               PROVE  \/ Top(e).p \in begun
                      \/ \A t \in Slots : tproc[t] = Parent[Top(e).p] => tstate[t] = "free"
                      \/ /\ e \in Slots /\ tproc[e] = Parent[Top(e).p]
                         /\ \A t \in Slots : tproc[t] = Parent[Top(e).p] => t = e
    OBVIOUS
  <2>1. 2 \in 2 .. Len(stack[e]) /\ 2 \in 1 .. Len(stack[e])
    BY <1>2, <1>5
  <2>2. g \in Frames /\ Kept(e, e, g)
    BY <1>1, <2>1, BelowKept, StackFacts
  <2>3. Placed(e, g) /\ Stands(g) /\ Linked(e, Top(e), g)
    BY <1>1, <1>2, <1>5, <2>2, KeptFacts
  <2>4. CASE g.at = "xfree"
    BY <2>3, <2>4 DEF Linked, Stands, Quiet
  <2>5. CASE g.at = "wlock"
    <3>1. e \in Slots /\ g.p = Top(e).p /\ g.p # NoProc
      BY <1>3, <2>3, <2>5, ProcessesAssumption DEF Linked, All
    <3>2. tproc[e] = Parent[Top(e).p]
      BY <2>3, <2>5, <3>1 DEF Placed, Waiting
    <3> QED
      BY <1>1, <1>3, <3>1, <3>2, OneThread
  <2> QED
    BY <2>3, <2>4, <2>5 DEF Linked
<1> QED
  BY <1>2, <1>4, <1>5

\* process_exit(): the lock is taken, and the status set if the process is alive.
LEMMA ExitLockStep ==
  ASSUME IInv, SingleThreadedParents, NEW e \in Execs, ExitLock(e)
  PROVE  IInv'
<1> DEFINE p == Top(e).p
<1>1. /\ TypeOK /\ Lives /\ TasksDue /\ StacksInOrder /\ Tree
      /\ At(e, "xlock") /\ UNCHANGED tasks /\ Free(p)
      /\ UNCHANGED <<children, threads, stacked, down, tstate, tproc, tgen, begun, must_exit>>
  BY DEF IInv, ExitLock, threadVars
<1>2. /\ stack[e] # <<>> /\ Top(e).at = "xlock" /\ Top(e) \in Frames
      /\ e \in Slots => tstate[e] = "running"
  BY <1>1, AtFacts
<1>3. p \in Procs /\ p \in All /\ p # Root /\ Top(e).x \in {"finished", "killed"}
  BY <1>2, FrameFacts, ProcessesAssumption DEF All
<1>4. CASE status[p] \notin Alive /\ Return(e) /\ UNCHANGED <<status, lock>>
  BY <1>1, <1>2, <1>4, StillReturn DEF Still, SameButLists, LockStep, Working
<1>5. CASE /\ status[p] \in Alive /\ Take(e, p) /\ GoTo(e, "xthreads")
           /\ status' = [status EXCEPT ![p] = Top(e).x]
  <2>1. /\ \A q \in All : status'[q] = IF q = p THEN Top(e).x ELSE status[q]
        /\ status' \in [All -> {"none", "loading", "running", "finished", "killed"}]
        /\ children' \in [All -> SUBSET Procs]
        /\ status'[p] \in {"finished", "killed"} /\ ~ Exited(p)
    BY <1>1, <1>3, <1>5 DEF TypeOK, Exited, Alive
  <2>2. StatusMove
    BY <1>1, <1>3, <2>1 DEF StatusMove, Exited
  <2>3. LockStep(e) /\ lock'[p] = e
    BY <1>1, <1>3, <1>5 DEF LockStep, Take, TypeOK
  <2>4. ASSUME NEW d \in Execs, NEW f \in Frames, Kept(e, d, f)
        PROVE  /\ f.at = "addchild" => status'[f.p] = "none"
               /\ f.at = "run" \/ (f.at = "tadd" /\ f.x = "start") => status'[f.p] \in Alive
    <3>1. /\ Stands(f) /\ Placed(d, f) /\ stack[d] # <<>>
          /\ f.at \notin {"xfree", "wlock"} => d # e
      BY <1>1, <2>4, KeptFacts
    <3>2. CASE f.at = "addchild"
      <4>1. f.p \in All /\ status[f.p] = "none"
        BY <3>1, <3>2, FrameFacts DEF Stands, All
      <4> QED
        BY <3>2, <4>1, <1>5, <2>1 DEF Alive
    <3>3. CASE f.at = "run" \/ (f.at = "tadd" /\ f.x = "start")
      <4>1. /\ f.p \in All /\ status[f.p] \in Alive /\ f.p \notin begun
            /\ d # e /\ d \in Slots /\ tproc[d] = Parent[f.p]
        BY <3>1, <3>3, FrameFacts DEF Stands, Placed, Execs, Working, All
      <4>2. tstate[d] # "free"
        BY <1>1, <3>1, <4>1 DEF Lives
      <4>3. f.p # p
        BY <1>1, <4>1, <4>2, ExitBegins
      <4> QED
        BY <3>3, <4>1, <4>3, <2>1
    <3> QED
      BY <3>2, <3>3
  <2>5. SameProcs /\ KeptStand(e) /\ \A k \in Tasks : TaskDue(k) => TaskDue(k)'
    BY <1>1, <2>2, <2>3, <2>4, StatusStand, KeptStandBy
  <2> SUFFICES ASSUME NEW g, g = [at |-> "xthreads", p |-> Top(e).p, x |-> Top(e).x] PROVE IInv'
    OBVIOUS
  <2>6. g \in Frames
    BY <1>3 DEF Frames
  <2>7. Moves(e, 1) /\ stack'[e][1] = g
    BY <1>1, <1>2, <1>5, <2>6, GoToMoves
  <2>8. Placed(e, g)' /\ Locked(e, g)'
    BY <2>3 DEF Placed, Locked, Locks, Working, Waiting, LockedWait
  <2>9. Stands(g)'
    BY <2>1 DEF Stands, Working, Quiet, Exited
  <2>10. (Placed(e, stack[e][1]) /\ Stands(stack[e][1]) /\ Locked(e, stack[e][1]))'
    BY <2>7, <2>8, <2>9 DEF Placed, Stands, Locked, Locks
  <2>11. StacksInOrder'
    BY <1>1, <1>2, <2>5, <2>7, <2>10, StacksExit DEF Working
  <2> DEFINE k == 1
  <2>12. k \in 0 .. 2 /\ Moves(e, k) /\ stack'[e][1].at # "tgo"
    BY <2>7
  <2> HIDE DEF k
  <2>13. ~ Inside(e, "xkill")
    BY <1>2 DEF Inside
  <2>14. Tree'
    <3>1. ASSUME NEW q \in Procs, q # p, BeingKilled(q)
          PROVE  BeingKilled(q)'
      BY <1>1, <2>12, <3>1, BeingKilledStays
    <3>2. status'[Root] = "running"
      BY <1>1, <1>3, <2>1 DEF Tree, All
    <3>3. \A q \in All : /\ status'[q] = "none" <=> status[q] = "none"
                         /\ status'[q] \in Alive => status[q] \in Alive /\ q # p
      BY <1>3, <1>5, <2>1 DEF Alive
    <3>4. \A q \in All : children[q] \subseteq All
      BY <1>1 DEF TypeOK, All
    <3>5. Procs \subseteq All
      BY DEF All
    <3> QED
      BY <1>1, <3>1, <3>2, <3>3, <3>4, <3>5 DEF Tree
  <2>15. NotAgain'
    <3> SUFFICES ASSUME NEW s \in Slots, NEW c \in Procs,
                        Exited(c)', tproc[s] = Parent[c], tstate[s] \notin Gone,
                        c \notin stacked \cup down
                 PROVE  Ending(s, c)'
      BY <1>1 DEF NotAgain
    <3>1. s \in Execs
      BY DEF Execs
    <3>2. CASE c = p
      <4>1. p \notin begun
        BY <1>1, <1>3, <3>2 DEF Lives
      <4>2. s = e
        BY <1>1, <3>2, <4>1, ExitBegins DEF Gone
      <4>3. 1 \in 1 .. Len(stack'[e])
        BY <2>7, StackFacts, <1>1 DEF Moves
      <4> QED
        BY <2>7, <3>2, <4>2, <4>3 DEF Ending, Working
    <3>3. CASE c # p
      <4>1. Exited(c)
        BY <3>3, <2>1 DEF Exited, All
      <4>2. Ending(s, c)
        BY <4>1 DEF IInv, NotAgain
      <4> QED
        BY <1>1, <1>2, <2>12, <3>1, <4>2, EndingStays DEF Working
    <3> QED
      BY <3>2, <3>3
  <2>16. NoOrphanAlive'
    <3>1. \A q \in Procs : status'[q] \in Alive => status[q] \in Alive
      BY <1>3, <2>1 DEF Alive, All
    <3> QED
      BY <1>1, <3>1 DEF IInv, NoOrphanAlive
  <2>17. tasks' \subseteq Tasks /\ TasksDue' /\ lock' \in [All -> Execs \cup {NoProc}]
    BY <1>1, <2>3, <2>5, LockTypes DEF TypeOK, TasksDue
  <2> QED
    BY <1>1, <1>2, <2>2, <2>11, <2>12, <2>13, <2>14, <2>15, <2>16, <2>17, StatusHold
<1> QED
  BY <1>4, <1>5 DEF ExitLock

-----------------------------------------------------------------------------
(***************************************************************************)
(* A new thread.                                                           *)
(***************************************************************************)

\* process_new_thread(): a thread in memory that no cleanup task is about.
LEMMA NewThreadStep ==
  ASSUME IInv, CleanedFirst, SingleThreadedParents,
         NEW s \in Slots, NEW n \in Slots, process_new_thread(s, n)
  PROVE  IInv'
<1> DEFINE c == Top(s).p
<1>1. /\ s \in Execs /\ s \notin Workers /\ TypeOK /\ Lives /\ TasksDue /\ StacksInOrder
      /\ Tree /\ At(s, "tadd") /\ UNCHANGED <<lock, tasks>> /\ GoWith(s, "tgo", n) /\ Free(c)
      /\ tstate' = [tstate EXCEPT ![n] = "loading"]
      /\ tproc' = [tproc EXCEPT ![n] = c]
      /\ tgen' = [tgen EXCEPT ![n] = @ + 1]
      /\ begun' = begun \cup {c}
      /\ must_exit' = [must_exit EXCEPT ![n] = FALSE]
      /\ threads' = [threads EXCEPT ![c] = @ \cup {n}]
      /\ UNCHANGED <<status, children, stacked, down>>
  BY ProcessesAssumption DEF Execs, IInv, process_new_thread
<1>2. /\ stack[s] # <<>> /\ Top(s).at = "tadd" /\ Stands(Top(s)) /\ Top(s) \in Frames
      /\ Placed(s, Top(s)) /\ tstate[s] = "running" /\ Below(s) = 0
  BY <1>1, AtFacts DEF Working
<1>3. tstate[n] = "free" /\ stack[n] = <<>> /\ NoProc \notin All /\ n # s
  <2>1. tstate[n] = "free"
    BY DEF process_new_thread
  <2> QED
    BY <1>1, <1>2, <2>1, ProcessesAssumption DEF Lives
<1>4. \/ c = tproc[s] /\ c \in Threaded
      \/ tproc[s] = Parent[c] /\ status[c] \in Alive /\ c \notin begun
  <2>1. Top(s).x \in {"thread", "start"}
    BY <1>2, FrameFacts
  <2> QED
    BY <1>2, <2>1 DEF Placed, Stands
<1>5. /\ c \in Procs /\ c \in All /\ c # NoProc
      /\ c \in stacked \cup down
  <2>1. CASE Top(s).x = "thread"
    BY <1>1, <1>2, <1>3, <2>1, ProcessesAssumption DEF Placed, Lives, All
  <2>2. CASE Top(s).x = "start"
    BY <1>2, <1>3, <2>2 DEF Placed, Stands, All
  <2> QED
    BY <1>2, <2>1, <2>2, FrameFacts
<1>6. /\ \A t \in Slots : tstate'[t] = IF t = n THEN "loading" ELSE tstate[t]
      /\ \A t \in Slots : tproc'[t] = IF t = n THEN c ELSE tproc[t]
      /\ tgen'[n] # tgen[n]
      /\ \A t \in Slots : must_exit'[t] = IF t = n THEN FALSE ELSE must_exit[t]
      /\ \A p \in All : threads'[p] = IF p = c THEN threads[p] \cup {n} ELSE threads[p]
  <2>1. \A t \in Slots : tstate'[t] = IF t = n THEN "loading" ELSE tstate[t]
    BY <1>1 DEF TypeOK
  <2>2. \A t \in Slots : tproc'[t] = IF t = n THEN c ELSE tproc[t]
    BY <1>1 DEF TypeOK
  <2>3. tgen'[n] # tgen[n]
    <3>1. tgen[n] \in Nat /\ tgen'[n] = tgen[n] + 1
      BY <1>1 DEF TypeOK
    <3> QED
      BY <3>1
  <2>4. \A t \in Slots : must_exit'[t] = IF t = n THEN FALSE ELSE must_exit[t]
    BY <1>1 DEF TypeOK
  <2>5. \A p \in All : threads'[p] = IF p = c THEN threads[p] \cup {n} ELSE threads[p]
    BY <1>1, <1>5 DEF TypeOK
  <2> QED
    BY <2>1, <2>2, <2>3, <2>4, <2>5
<1>7. /\ tstate' \in [Slots -> {"free", "loading", "running", "paused", "finished"}]
      /\ tproc' \in [Slots -> All \cup {NoProc}]
      /\ tgen' \in [Slots -> Nat] /\ begun' \subseteq All
      /\ must_exit' \in [Slots -> BOOLEAN]
      /\ threads' \in [All -> SUBSET Slots]
  <2>1. tstate' \in [Slots -> {"free", "loading", "running", "paused", "finished"}]
    BY <1>1 DEF TypeOK
  <2>2. tproc' \in [Slots -> All \cup {NoProc}]
    BY <1>1, <1>5 DEF TypeOK
  <2>3. tgen' \in [Slots -> Nat] /\ begun' \subseteq All
    <3>1. tgen \in [Slots -> Nat] /\ begun \subseteq All
      BY <1>1 DEF TypeOK
    <3> QED
      BY <1>1, <1>5, <3>1
  <2>4. must_exit' \in [Slots -> BOOLEAN]
    BY <1>1 DEF TypeOK
  <2>5. threads' \in [All -> SUBSET Slots]
    BY <1>1, <1>5 DEF TypeOK
  <2> QED
    BY <2>1, <2>2, <2>3, <2>4, <2>5
<1> SUFFICES ASSUME NEW g, g = [at |-> "tgo", p |-> Top(s).p, x |-> n] PROVE IInv'
  OBVIOUS
<1> HIDE DEF c
<1>8. SameProcs /\ ~ CleanupDue(n) /\ begun' = begun \cup {c}
  BY <1>1, <1>3, <1>6 DEF SameProcs, CleanedFirst, c
<1>9. ASSUME NEW d \in Execs, NEW f \in Frames, Kept(s, d, f)
      PROVE  Stands(f)'
  <2>1. /\ Stands(f) /\ Placed(d, f) /\ Locked(d, f)
        /\ f.at \notin {"xfree", "wlock"} => d # s
    BY <1>1, <1>9, KeptFacts
  <2>2. ASSUME f.at = "run" \/ (f.at = "tadd" /\ f.x = "start")
        PROVE  f.p \notin begun'
    <3>1. /\ f.p \notin begun
          /\ d # s /\ d \in Slots /\ tproc[d] = Parent[f.p] /\ f.p \in Procs
      BY <2>1, <2>2, FrameFacts DEF Stands, Placed, Execs, Working
    <3>2. f.p # c
      <4>1. CASE c = tproc[s]
        BY <4>1, <1>1, <1>5, <3>1 DEF Lives
      <4>2. CASE tproc[s] = Parent[c]
        BY <4>2, <1>1, <1>5, <3>1, OneThread
      <4> QED
        BY <4>1, <4>2, <1>4
    <3> QED
      BY <3>1, <3>2, <1>8
  <2>3. f.at = "tgo" => tstate'[f.x] = "loading"
    BY <2>1, <1>6, FrameFacts DEF Stands
  <2>4. f.at = "xkill" => /\ tproc'[f.x] = f.p /\ tstate'[f.x] # "free"
                          /\ f.x \notin threads'[f.p]
    <3> SUFFICES ASSUME f.at = "xkill"
                 PROVE  /\ tproc'[f.x] = f.p /\ tstate'[f.x] # "free"
                        /\ f.x \notin threads'[f.p]
      OBVIOUS
    <3>1. /\ tproc[f.x] = f.p /\ tstate[f.x] # "free" /\ f.x \notin threads[f.p]
          /\ f.p \in All /\ f.x \in Slots
      BY <2>1, FrameFacts DEF Stands, Working, All
    <3> QED
      BY <3>1, <1>3, <1>6
  <2>5. f.at \in Quiet => \A t \in Slots : tproc'[t] = f.p => tstate'[t] = "free"
    <3> SUFFICES ASSUME f.at \in Quiet
                 PROVE  \A t \in Slots : tproc'[t] = f.p => tstate'[t] = "free"
      OBVIOUS
    <3>1. f.p \in All
      BY FrameFacts DEF Quiet, Working, All
    <3>2. lock[f.p] = d
      BY <2>1, <3>1 DEF Locked, Locks, Working, Quiet
    <3>3. f.p # c
      BY <1>1, <3>2, ProcessesAssumption DEF Free, c
    <3> QED
      BY <2>1, <3>3, <1>6 DEF Stands
  <2>6. f.at \in {"cleanup", "cleanlock"} =>
          tproc'[f.x] \in Procs /\ tstate'[f.x] \in Gone /\ tproc'[f.x] = tproc[f.x]
    <3> SUFFICES ASSUME f.at \in {"cleanup", "cleanlock"}
                 PROVE  tproc'[f.x] \in Procs /\ tstate'[f.x] \in Gone /\ tproc'[f.x] = tproc[f.x]
      OBVIOUS
    <3>1. f.x \in Slots /\ tproc[f.x] \in Procs /\ tstate[f.x] \in Gone
      BY <2>1, FrameFacts DEF Stands
    <3>2. d \in Workers /\ d # s
      BY <2>1, <1>1 DEF Placed, Execs
    <3>3. f = Top(d) /\ stack[d] # <<>>
      BY <1>1, <1>9, KeptFacts
    <3>4. f.x # n
      BY <3>2, <3>3, <1>8 DEF CleanupDue, Inside
    <3> QED
      BY <3>1, <3>4, <1>6
  <2> QED
    BY <1>1, <2>1, <2>2, <2>3, <2>4, <2>5, <2>6 DEF Stands, Exited
<1>10. KeptStand(s)
  BY <1>1, <1>8, <1>9, KeptStandBy DEF LockStep
<1>11. g \in Frames
  BY <1>5 DEF Frames, c
<1>12. Moves(s, 1) /\ stack'[s][1] = g
  BY <1>1, <1>2, <1>11, GoWithMoves
<1>13. Placed(s, g)' /\ Stands(g)' /\ Locked(s, g)' /\ Based(s, g)'
  <2>1. Placed(s, g)'
    BY <1>1 DEF Placed, Waiting
  <2>2. Stands(g)'
    BY <1>6 DEF Stands, Working, Quiet
  <2>3. Locked(s, g)' /\ Based(s, g)'
    BY DEF Locked, Locks, Based, Working, LockedWait
  <2> QED
    BY <2>1, <2>2, <2>3
<1>14. (Placed(s, stack[s][1]) /\ Stands(stack[s][1]) /\ Locked(s, stack[s][1])
         /\ Based(s, stack[s][1]))'
  BY <1>12, <1>13 DEF Placed, Stands, Locked, Locks, Based
<1>15. StacksInOrder'
  BY <1>1, <1>2, <1>8, <1>10, <1>12, <1>14, StacksOne
<1> DEFINE k == 1
<1>16. k \in 0 .. 2 /\ Moves(s, k)
  BY <1>12
<1> HIDE DEF k
<1>17. ~ Inside(s, "xlock") /\ ~ Inside(s, "xkill") /\ Top(s).at \notin Working
  BY <1>2 DEF Inside, Working
<1>18. \A d \in Execs : d # s => stack'[d] = stack[d]
  BY <1>16 DEF Moves
<1>19. TypeOK'
  BY <1>1, <1>7, <1>16 DEF TypeOK, Moves
<1>20. Tree'
  <2>1. \A q \in Procs : BeingKilled(q) => BeingKilled(q)'
    BY <1>1, <1>16, <1>17, BeingKilledStays
  <2>2. ASSUME NEW q \in Procs, status[q] # "none"
        PROVE  Parent[q] \in begun'
    BY <1>1, <1>8, <2>2 DEF Tree
  <2> QED
    BY <1>1, <2>1, <2>2 DEF Tree
<1>21. Lives'
  <2>1. \A t \in Slots : tproc'[t] \in All => tproc'[t] \in begun'
    BY <1>1, <1>6, <1>8 DEF Lives
  <2>2. \A t \in Slots : tproc'[t] = NoProc => tstate'[t] = "free"
    BY <1>1, <1>5, <1>6 DEF Lives
  <2>3. \A t \in Slots : stack'[t] # <<>> => tstate'[t] \in {"running", "paused"}
    <3> SUFFICES ASSUME NEW t \in Slots, stack'[t] # <<>>
                 PROVE  tstate'[t] \in {"running", "paused"}
      OBVIOUS
    <3>1. CASE t = s
      BY <3>1, <1>2, <1>3, <1>6
    <3>2. CASE t # s
      <4>1. stack'[t] = stack[t]
        BY <3>2, <1>18 DEF Execs
      <4> QED
        BY <4>1, <1>1, <1>3, <1>6 DEF Lives
    <3> QED
      BY <3>1, <3>2
  <2>4. \A t \in Slots : tstate'[t] # "free" => t \in threads'[tproc'[t]] \/ BeingWaitedFor(t)'
    <3> SUFFICES ASSUME NEW t \in Slots, tstate'[t] # "free"
                 PROVE  t \in threads'[tproc'[t]] \/ BeingWaitedFor(t)'
      OBVIOUS
    <3>1. CASE t = n
      BY <3>1, <1>5, <1>6
    <3>2. CASE t # n
      <4>1. BeingWaitedFor(t) => BeingWaitedFor(t)'
        BY <1>1, <1>16, <1>17, WaitedForStays
      <4>2. tstate[t] # "free" /\ tproc'[t] = tproc[t]
        BY <3>2, <1>6
      <4>3. tproc[t] \in All
        BY <1>1, <4>2 DEF Lives, TypeOK
      <4> QED
        BY <4>1, <4>2, <4>3, <1>1, <1>6 DEF Lives
    <3> QED
      BY <3>1, <3>2
  <2>5. ASSUME NEW p \in All, NEW t \in threads'[p]
        PROVE  tproc'[t] = p /\ tstate'[t] # "free"
    <3>1. CASE t = n
      <4>1. n \notin threads[p]
        BY <1>1, <1>3 DEF Lives
      <4> QED
        BY <3>1, <4>1, <2>5, <1>5, <1>6
    <3>2. CASE t # n
      <4>1. t \in threads[p] /\ t \in Slots
        BY <3>2, <2>5, <1>1, <1>6 DEF TypeOK
      <4> QED
        BY <3>2, <4>1, <1>1, <1>6 DEF Lives
    <3> QED
      BY <3>1, <3>2
  <2>6. ASSUME NEW a \in Slots, NEW b \in Slots, tproc'[a] = tproc'[b], tproc'[a] \in All \ Threaded
        PROVE  a = b
    <3>1. \A t \in Slots : t # n => tproc'[t] = tproc[t]
      BY <1>6
    <3>2. tproc'[n] = c
      BY <1>6
    <3>3. CASE a # n /\ b # n
      BY <3>1, <3>3, <2>6, <1>1 DEF Lives
    <3>4. CASE a = n \/ b = n
      <4>1. c \notin Threaded /\ c \notin begun
        BY <3>2, <3>4, <2>6, <1>4
      <4>2. \A t \in Slots : tproc[t] # c
        BY <4>1, <1>1, <1>5 DEF Lives
      <4> QED
        BY <3>1, <3>2, <3>4, <4>2, <2>6
    <3> QED
      BY <3>3, <3>4
  <2>7. \A p \in begun' : p \in Procs => p \in stacked \cup down
    BY <1>1, <1>5, <1>8 DEF Lives
  <2>8. ASSUME NEW t \in Slots, must_exit'[t]
        PROVE  tproc'[t] \in Procs
    <3>1. t # n /\ tproc'[t] = tproc[t]
      BY <2>8, <1>6
    <3>2. must_exit[t]
      BY <2>8, <3>1, <1>6
    <3> QED
      BY <3>1, <3>2, <1>1 DEF Lives
  <2> QED
    BY <1>1, <2>1, <2>2, <2>3, <2>4, <2>5, <2>6, <2>7, <2>8 DEF Lives
<1>22. tasks' \subseteq Tasks /\ TasksDue'
  <2>1. ASSUME NEW j \in tasks
        PROVE  TaskDue(j)'
    <3>1. TaskDue(j) /\ j \in Tasks /\ j.t \in Slots
      BY <1>1 DEF TasksDue, TypeOK, Tasks
    <3>2. begun \subseteq begun'
      BY <1>8
    <3>3. j.kind = "cleanup" => j.t # n
      BY <1>8 DEF CleanupDue
    <3> QED
      BY <3>1, <3>2, <3>3, <1>6 DEF TaskDue
  <2> QED
    BY <1>1, <2>1 DEF TasksDue, TypeOK
<1>23. OneStarter'
  <2> SUFFICES ASSUME NEW a \in Slots, NEW b \in Slots, Inside(a, "tgo")', Inside(b, "tgo")',
                      (Top(a).x = Top(b).x)'
               PROVE  a = b
    BY DEF OneStarter
  <2>1. a \in Execs /\ b \in Execs
    BY DEF Execs
  <2>2. \A t \in Execs : t # s /\ Inside(t, "tgo")' => Inside(t, "tgo") /\ Head(stack'[t]) = Top(t)
                           /\ Head(stack'[t]).x # n
    <3> SUFFICES ASSUME NEW t \in Execs, t # s, Inside(t, "tgo")'
                 PROVE  Inside(t, "tgo") /\ Head(stack'[t]) = Top(t) /\ Head(stack'[t]).x # n
      OBVIOUS
    <3>1. stack'[t] = stack[t]
      BY <1>18
    <3>2. Inside(t, "tgo") /\ Head(stack'[t]) = Top(t)
      BY <3>1 DEF Inside, Top
    <3>3. Stands(Top(t))
      BY <1>1, <3>2, TopFacts DEF Inside
    <3> QED
      BY <3>2, <3>3, <1>3 DEF Stands, Inside
  <2>3. Head(stack'[s]) = g
    <3>1. stack'[s] \in Seq(Frames) /\ Len(stack'[s]) = 1
      BY <1>1, <1>2, <1>12 DEF Moves
    <3> QED
      BY <3>1, <1>12
  <2>4. g.x = n
    OBVIOUS
  <2>5. Head(stack'[a]).x = Head(stack'[b]).x
    BY DEF Top
  <2>6. CASE a # s /\ b # s
    BY <2>1, <2>2, <2>5, <2>6, <1>1 DEF IInv, OneStarter
  <2>7. CASE a = s \/ b = s
    BY <2>1, <2>2, <2>3, <2>4, <2>5, <2>7
  <2> QED
    BY <2>6, <2>7
<1>24. NotAgain'
  <2> SUFFICES ASSUME NEW r \in Slots, NEW q \in Procs, Exited(q),
                      tproc'[r] = Parent[q], tstate'[r] \notin Gone
               PROVE  q \in stacked \cup down \/ Ending(r, q)'
    BY <1>1 DEF NotAgain, Exited
  <2>1. CASE r = n
    <3>1. c = Parent[q] /\ c \notin Threaded
      BY <2>1, <1>6 DEF SingleThreadedParents
    <3>2. c \notin begun
      BY <3>1, <1>4
    <3>3. Parent[q] \in begun
      BY <1>1 DEF Tree, Exited
    <3> QED
      BY <3>1, <3>2, <3>3
  <2>2. CASE r # n
    <3>1. tproc[r] = Parent[q] /\ tstate[r] \notin Gone /\ r \in Execs
      BY <2>2, <1>6 DEF Execs
    <3>2. Ending(r, q) => Ending(r, q)'
      BY <1>1, <1>16, <1>17, <3>1, EndingStays
    <3> QED
      BY <3>1, <3>2 DEF IInv, NotAgain
  <2> QED
    BY <2>1, <2>2
<1>25. NoThreadOutlives'
  <2>1. c \notin down
    <3>1. CASE c = tproc[s]
      BY <3>1, <1>2 DEF IInv, NoThreadOutlives
    <3>2. CASE status[c] \in Alive
      BY <3>2 DEF IInv, DownIsExited, Exited, Alive
    <3> QED
      BY <3>1, <3>2, <1>4
  <2> QED
    BY <2>1, <1>1, <1>6 DEF IInv, NoThreadOutlives
<1>26. DownIsExited' /\ NoOrphanAlive'
  BY <1>1 DEF IInv, DownIsExited, NoOrphanAlive, Exited
<1> QED
  BY <1>15, <1>19, <1>20, <1>21, <1>22, <1>23, <1>24, <1>25, <1>26 DEF IInv

-----------------------------------------------------------------------------
(***************************************************************************)
(* The theorems.                                                           *)
(***************************************************************************)

\* The invariant holds at the start: only init exists, outside the kernel.
LEMMA InitHolds ==
  Init => IInv
<1> SUFFICES ASSUME Init PROVE IInv
  OBVIOUS
<1>1. /\ Root \in All /\ RootSlot \in Slots /\ Root \notin Procs /\ NoProc \notin All
      /\ NoProc \notin Execs
  BY ProcessesAssumption DEF All
<1>2. /\ \A e \in Execs : stack[e] = <<>>
      /\ \A p \in All : status[p] = IF p = Root THEN "running" ELSE "none"
      /\ \A p \in All : children[p] = {}
      /\ \A p \in All : threads[p] = IF p = Root THEN {RootSlot} ELSE {}
      /\ \A s \in Slots : tstate[s] = IF s = RootSlot THEN "running" ELSE "free"
      /\ \A s \in Slots : tproc[s] = IF s = RootSlot THEN Root ELSE NoProc
      /\ begun = {Root}
      /\ \A s \in Slots : must_exit[s] = FALSE
      /\ tasks = {} /\ stacked = {} /\ down = {}
  BY DEF Init
<1>3. TypeOK
  BY <1>1 DEF Init, TypeOK
<1>4. Tree
  BY <1>1, <1>2 DEF Tree, Alive, All
<1>5. \A s \in Slots : stack[s] = <<>>
  BY <1>2 DEF Execs
<1>6. Lives
  BY <1>1, <1>2, <1>5 DEF Lives, All
<1>7. TasksDue /\ DownIsExited /\ NoThreadOutlives /\ NoOrphanAlive
  BY <1>2, ProcessesAssumption DEF TasksDue, DownIsExited, NoThreadOutlives, NoOrphanAlive
<1>8. StacksInOrder
  BY <1>2 DEF StacksInOrder, StackInOrder
<1>9. OneStarter
  BY <1>5 DEF OneStarter, Inside
<1>10. NotAgain
  BY <1>2 DEF NotAgain, Exited, All
<1> QED
  BY <1>3, <1>4, <1>6, <1>7, <1>8, <1>9, <1>10 DEF IInv

\* Every step keeps the invariant.
LEMMA NextHolds ==
  ASSUME SingleThreadedParents, IInv, [Next]_vars, [CleanedFirst]_vars
  PROVE  IInv'
<1>0. CleanedFirst
  BY DEF CleanedFirst, vars, threadVars
<1>1. CASE UNCHANGED vars
  <2> USE DEF IInv
  <2>1. UNCHANGED <<status, children, threads, stacked, down, freed, lock, tstate, tproc,
                    tgen, begun, must_exit, waiting_on, tasks, stack>>
    BY <1>1 DEF vars, procVars, threadVars
  <2>2. TypeOK' /\ Tree'
    BY <2>1 DEF TypeOK, Tree, BeingKilled
  <2>3. Lives' /\ TasksDue'
    BY <2>1 DEF Lives, BeingWaitedFor, Inside, Top, TasksDue, TaskDue
  <2>4. StacksInOrder'
    BY <2>1 DEF StacksInOrder, StackInOrder, Placed, Stands, Locked, Locks, Linked, Based, Exited
  <2>5. OneStarter' /\ NotAgain'
    BY <2>1 DEF OneStarter, Inside, Top, NotAgain, Ending, Exited
  <2>6. DownIsExited' /\ NoThreadOutlives' /\ NoOrphanAlive'
    BY <2>1 DEF DownIsExited, NoThreadOutlives, NoOrphanAlive, Exited
  <2> QED
    BY <2>2, <2>3, <2>4, <2>5, <2>6
<1>2. ASSUME NEW s \in Slots, NEW call \in Calls, NEW c \in All, Syscall(s, call, c)
      PROVE  IInv'
  BY <1>2, SyscallStep
<1>3. ASSUME NEW s \in Slots, ThreadStep(s)
      PROVE  IInv'
  <2>1. CASE maybe_exit(s)
    BY <2>1, MaybeExitStep
  <2>2. CASE Quit(s)
    BY <2>2, QuitStep
  <2>3. CASE SysLock(s)
    BY <2>3, SysLockStep
  <2>4. CASE SysUnlock(s)
    BY <2>4, SysUnlockStep
  <2>5. CASE process_find_child(s)
    BY <2>5, FindChildStep
  <2>6. CASE new_process(s)
    BY <2>6, NewProcessStep
  <2>7. CASE start_mmap(s)
    BY <2>7, StartMmapStep
  <2>8. CASE start_process(s)
    BY <2>8, StartProcessStep
  <2>9. ASSUME NEW n \in Slots, process_new_thread(s, n)
        PROVE  IInv'
    BY <1>0, <2>9, NewThreadStep
  <2>10. CASE new_thread_fails(s)
    BY <2>10, NewThreadFailsStep
  <2>11. CASE start_thread(s)
    BY <2>11, StartThreadStep
  <2>12. CASE WaitLock(s)
    BY <2>12, WaitLockStep
  <2>13. ASSUME NEW c \in Procs, WaitFound(s, c)
         PROVE  IInv'
    BY <2>13, WaitFoundStep
  <2>14. CASE WaitNone(s)
    BY <2>14, WaitNoneStep
  <2>15. CASE WaitDecide(s)
    BY <2>15, WaitDecideStep
  <2>16. CASE Reap(s)
    BY <2>16, ReapStep
  <2>17. CASE WaitSleep(s)
    BY <2>17, WaitSleepStep
  <2>18. CASE WaitWoken(s)
    BY <2>18, WaitWokenStep
  <2> QED
    BY <1>3, <2>1, <2>2, <2>3, <2>4, <2>5, <2>6, <2>7, <2>8, <2>9, <2>10, <2>11, <2>12,
       <2>13, <2>14, <2>15, <2>16, <2>17, <2>18 DEF ThreadStep
<1>4. ASSUME NEW e \in Execs, ExitStep(e)
      PROVE  IInv'
  <2>1. CASE ExitLock(e)
    BY <2>1, ExitLockStep
  <2>2. ASSUME NEW t \in Slots, ExitThread(e, t)
        PROVE  IInv'
    BY <2>2, ExitThreadStep
  <2>3. CASE ExitThreadsDone(e)
    BY <2>3, ExitThreadsDoneStep
  <2>4. CASE KillWakes(e)
    BY <2>4, KillWakesStep
  <2>5. CASE KillDone(e)
    BY <2>5, KillDoneStep
  <2>6. ASSUME NEW c \in Procs, ExitChild(e, c)
        PROVE  IInv'
    BY <2>6, ExitChildStep
  <2>7. CASE ExitFree(e)
    BY <2>7, ExitFreeStep
  <2>8. CASE ExitRelease(e)
    BY <2>8, ExitReleaseStep
  <2>9. CASE ExitNotify(e)
    BY <2>9, ExitNotifyStep
  <2> QED
    BY <1>4, <2>1, <2>2, <2>3, <2>4, <2>5, <2>6, <2>7, <2>8, <2>9 DEF ExitStep
<1>5. ASSUME NEW w \in Workers, WorkerStep(w)
      PROVE  IInv'
  <2>1. ASSUME NEW k \in tasks, TakeTask(w, k)
        PROVE  IInv'
    BY <2>1, TakeTaskStep
  <2>2. CASE CleanupBegin(w)
    BY <2>2, CleanupBeginStep
  <2>3. CASE process_thread_exited(w)
    BY <2>3, ThreadExitedStep
  <2> QED
    BY <1>5, <2>1, <2>2, <2>3 DEF WorkerStep
<1> QED
  BY <1>1, <1>2, <1>3, <1>4, <1>5 DEF Next

\* The invariant that the theorems follow from holds in every state that can be
\* reached.
THEOREM InvariantHolds ==
  ASSUME SingleThreadedParents
  PROVE  Spec /\ [][CleanedFirst]_vars => []IInv
<1>1. Init => IInv
  BY InitHolds
<1>2. IInv /\ [Next]_vars /\ [CleanedFirst]_vars => IInv'
  BY NextHolds
<1> QED
  BY <1>1, <1>2, PTL DEF Spec

\* process_exit() releases the resources of a process, its page directory among
\* them, when no thread of it is left (NoThreadOutlives): the only way to break
\* this is memory of a thread_t that is used again too early.
THEOREM ThreadsEndFirst ==
  ASSUME SingleThreadedParents
  PROVE  Spec /\ [][CleanedFirst]_vars => []NoThreadOutlives
<1>1. IInv => NoThreadOutlives
  BY DEF IInv
<1> QED
  BY <1>1, InvariantHolds, PTL

\* No child of a process survives it: once its resources are released none of
\* them is alive (NoOrphanAlive), whatever its threads and other workers did.
THEOREM ChildrenEndFirst ==
  ASSUME SingleThreadedParents
  PROVE  Spec /\ [][CleanedFirst]_vars => []NoOrphanAlive
<1>1. IInv => NoOrphanAlive
  BY DEF IInv
<1> QED
  BY <1>1, InvariantHolds, PTL

\* Only three steps set a status, and none of them that of a process that has
\* exited.
LEMMA StatusFinal ==
  ASSUME IInv, [Next]_vars, NEW p \in Procs, Exited(p)
  PROVE  status'[p] = status[p]
<1> SUFFICES ASSUME Next PROVE status'[p] = status[p]
  BY DEF vars, procVars
<1>1. TypeOK /\ p \in All
  BY DEF IInv, All
<1>2. ASSUME NEW s \in Slots, new_process(s)
      PROVE  status'[p] = status[p]
  <2>1. /\ Top(s).at = "addchild" /\ Stands(Top(s))
    BY <1>2, AtFacts DEF new_process, Execs
  <2>2. status' = [status EXCEPT ![Top(s).p] = "loading"]
    BY <1>2 DEF new_process
  <2> QED
    BY <1>1, <2>1, <2>2 DEF Stands, Exited, TypeOK
<1>3. ASSUME NEW s \in Slots, start_process(s)
      PROVE  status'[p] = status[p]
  <2>1. /\ Top(s).at = "run" /\ Stands(Top(s))
    BY <1>3, AtFacts DEF start_process, Execs
  <2>2. status' = [status EXCEPT ![Top(s).p] = "running"]
    BY <1>3 DEF start_process
  <2> QED
    BY <1>1, <2>1, <2>2 DEF Stands, Exited, TypeOK, Alive
<1>4. ASSUME NEW e \in Execs, ExitLock(e)
      PROVE  status'[p] = status[p]
  <2>1. \/ UNCHANGED status
        \/ status[Top(e).p] \in Alive /\ status' = [status EXCEPT ![Top(e).p] = Top(e).x]
    BY <1>4 DEF ExitLock
  <2> QED
    BY <1>1, <2>1 DEF Exited, TypeOK, Alive
<1>5. ASSUME NEW s \in Slots, ThreadStep(s), ~ new_process(s), ~ start_process(s)
      PROVE  UNCHANGED status
  BY <1>5 DEF ThreadStep, maybe_exit, Quit, SysLock, SysUnlock, process_find_child,
              start_mmap, process_new_thread, new_thread_fails, start_thread, WaitLock,
              WaitFound, WaitNone, WaitDecide, Reap, WaitSleep, WaitWoken, procVars
<1>6. ASSUME NEW e \in Execs, ExitStep(e), ~ ExitLock(e)
      PROVE  UNCHANGED status
  BY <1>6 DEF ExitStep, ExitThread, ExitThreadsDone, KillWakes, KillDone, ExitChild,
              ExitFree, ExitRelease, ExitNotify, procVars
<1>7. ASSUME NEW w \in Workers, WorkerStep(w)
      PROVE  UNCHANGED status
  BY <1>7 DEF WorkerStep, TakeTask, CleanupBegin, process_thread_exited, procVars
<1>8. ASSUME NEW s \in Slots, NEW call \in Calls, NEW c \in All, Syscall(s, call, c)
      PROVE  UNCHANGED status
  BY <1>8 DEF Syscall, procVars
<1> QED
  BY <1>2, <1>3, <1>4, <1>5, <1>6, <1>7, <1>8 DEF Next

\* A process that has exited is not started, killed or torn down again
\* (ExitIsFinal): start_process() sets the status without a test, but does not
\* get there, as it maps a stack first.
THEOREM ExitsOnce ==
  ASSUME SingleThreadedParents
  PROVE  Spec /\ [][CleanedFirst]_vars => ExitIsFinal
<1>1. IInv /\ [Next]_vars => [\A p \in Procs : Exited(p) => status'[p] = status[p]]_vars
  BY StatusFinal
<1> QED
  BY <1>1, InvariantHolds, PTL DEF Spec, ExitIsFinal
=============================================================================
