---------------------------- MODULE ThreadsProofs ----------------------------
(***************************************************************************)
(* Machine-checked proofs about Threads, for any number of threads,        *)
(* workers and objects.                                                    *)
(*                                                                         *)
(* The properties of Threads are not inductive by themselves: they also    *)
(* need to know what a thread's control point says of its state (Control), *)
(* who owns the thread between new_thread() and its first queueing         *)
(* (Starting), and that nothing can take the processor away between        *)
(* worker_push() and state = FINISHED in exit() (Exiting).                 *)
(*                                                                         *)
(* The last part is about module Sleep, what threads and the worker do     *)
(* with time, for any number of threads and any delays.                    *)
(***************************************************************************)
EXTENDS Threads, Timers, FiniteSetTheorems, WellFoundedInduction, TLAPS

\* What the control point of a thread says of its state
Control ==
  \A t \in Threads :
    /\ t \in Workers => pc[t] \in WorkerPCs
    /\ t \in Clients => pc[t] \in ClientPCs
    /\ state[t] = "UNUSED" <=> pc[t] = "none"
    /\ state[t] = "LOADING" => pc[t] = "begin"
    /\ state[t] = "PAUSED" => pc[t] = "asleep"
    /\ state[t] = "FINISHED" <=> pc[t] = "exit_yield"

\* A thread being started belongs to the one thread that starts it
Starting ==
  LET starters == {t \in Threads : pc[t] \in {"start", "start_enq"}}
  IN  /\ \A t \in starters :
           /\ arg[t] \in Threads
           /\ arg[t] # current
           /\ pc[arg[t]] = "begin"
           /\ state[arg[t]] = IF pc[t] = "start" THEN "LOADING" ELSE "RUNNING"
      /\ \A s, t \in starters : arg[s] = arg[t] => s = t

\* A thread in exit() cannot be preempted until it has finished
Exiting ==
  \A t \in Threads :
    /\ pc[t] \in {"exit_lock", "exit_push", "exit_finish"}
         => critical_level[t] = CL_NOSWITCH
    /\ pc[t] = "exit_finish" => current = t
    /\ pc[t] = "w_do" => arg[t] \in Threads

\* The thread on the processor runs or is just leaving exit(): run_thread()'s
\* ASSERT, and "expected never to return!" of exit().
CurrentRuns ==
  current # NoThread =>
    \/ state[current] = "RUNNING" /\ pc[current] # "exit_yield"
    \/ state[current] = "FINISHED" /\ pc[current] = "exit_yield"

IInv ==
  /\ TypeOK
  /\ RunQueueExact
  /\ CurrentRuns
  /\ CleanupFinished
  /\ TasksMutex
  /\ Control
  /\ Starting
  /\ Exiting

-----------------------------------------------------------------------------
(***************************************************************************)
(* Facts about sequences without repetition.                               *)
(***************************************************************************)

\* Putting p before q, when they share nothing
LEMMA ConcatDistinct ==
  ASSUME NEW S, NEW p \in Seq(S), NEW q \in Seq(S),
         IsInjective(p), IsInjective(q), Range(p) \cap Range(q) = {}
  PROVE  /\ p \o q \in Seq(S)
         /\ IsInjective(p \o q)
         /\ Range(p \o q) = Range(p) \cup Range(q)
<1> DEFINE r == p \o q
<1>1. /\ r \in Seq(S)
      /\ Len(r) = Len(p) + Len(q)
      /\ \A i \in 1 .. Len(p) : r[i] = p[i]
      /\ \A i \in 1 .. Len(q) : r[Len(p) + i] = q[i]
      /\ \A i \in 1 .. Len(r) : i \in 1 .. Len(p) \/ i - Len(p) \in 1 .. Len(q)
  OBVIOUS
<1>2. /\ DOMAIN r = 1 .. Len(r) /\ DOMAIN p = 1 .. Len(p)
      /\ DOMAIN q = 1 .. Len(q)
  BY <1>1
<1>3. Range(r) = Range(p) \cup Range(q)
  <2>1. ASSUME NEW x \in Range(r) PROVE x \in Range(p) \cup Range(q)
    <3>1. PICK i \in 1 .. Len(r) : x = r[i]
      BY <1>2 DEF Range
    <3>2. CASE i \in 1 .. Len(p)
      BY <3>1, <3>2, <1>1, <1>2 DEF Range
    <3>3. CASE i - Len(p) \in 1 .. Len(q)
      <4>1. x = q[i - Len(p)]
        BY <3>1, <3>3, <1>1
      <4> QED BY <4>1, <3>3, <1>2 DEF Range
    <3> QED BY <3>1, <3>2, <3>3, <1>1
  <2>2. ASSUME NEW x \in Range(p) PROVE x \in Range(r)
    BY <1>1, <1>2 DEF Range
  <2>3. ASSUME NEW x \in Range(q) PROVE x \in Range(r)
    <3>1. PICK i \in 1 .. Len(q) : x = q[i]
      BY <1>2 DEF Range
    <3>2. x = r[Len(p) + i] /\ Len(p) + i \in 1 .. Len(r)
      BY <3>1, <1>1
    <3> QED BY <3>2, <1>2 DEF Range
  <2> QED BY <2>1, <2>2, <2>3
<1>4. ASSUME NEW i \in 1 .. Len(r), NEW j \in 1 .. Len(r), r[i] = r[j]
      PROVE  i = j
  <2>1. \A k \in 1 .. Len(p) : p[k] \in Range(p)
    BY <1>2 DEF Range
  <2>2. \A k \in 1 .. Len(q) : q[k] \in Range(q)
    BY <1>2 DEF Range
  <2>3. CASE i \in 1 .. Len(p) /\ j \in 1 .. Len(p)
    BY <2>3, <1>1, <1>2, <1>4 DEF IsInjective
  <2>4. CASE i - Len(p) \in 1 .. Len(q) /\ j - Len(p) \in 1 .. Len(q)
    <3>1. r[i] = q[i - Len(p)] /\ r[j] = q[j - Len(p)]
      BY <2>4, <1>1
    <3>2. i - Len(p) = j - Len(p)
      BY <3>1, <2>4, <1>2, <1>4 DEF IsInjective
    <3> QED BY <3>2
  <2>5. CASE i \in 1 .. Len(p) /\ j - Len(p) \in 1 .. Len(q)
    BY <2>5, <2>1, <2>2, <1>1, <1>4
  <2>6. CASE i - Len(p) \in 1 .. Len(q) /\ j \in 1 .. Len(p)
    BY <2>6, <2>1, <2>2, <1>1, <1>4
  <2> QED BY <2>3, <2>4, <2>5, <2>6, <1>1
<1> QED BY <1>1, <1>2, <1>3, <1>4 DEF IsInjective

\* A sequence of one element
LEMMA SingletonDistinct ==
  ASSUME NEW S, NEW x \in S
  PROVE  /\ <<x>> \in Seq(S)
         /\ IsInjective(<<x>>)
         /\ Range(<<x>>) = {x}
<1>1. /\ <<x>> \in Seq(S) /\ Len(<<x>>) = 1
      /\ DOMAIN <<x>> = {1} /\ <<x>>[1] = x
  OBVIOUS
<1>2. Range(<<x>>) = {x}
  BY <1>1 DEF Range
<1>3. IsInjective(<<x>>)
  BY <1>1 DEF IsInjective
<1> QED BY <1>1, <1>2, <1>3

\* Taking the first element away
LEMMA TailDistinct ==
  ASSUME NEW S, NEW q \in Seq(S), q # <<>>, IsInjective(q)
  PROVE  /\ Head(q) \in Range(q)
         /\ Tail(q) \in Seq(S)
         /\ IsInjective(Tail(q))
         /\ Range(Tail(q)) = Range(q) \ {Head(q)}
<1> DEFINE r == Tail(q)
<1>1. /\ Len(q) \in Nat \ {0}
      /\ r \in Seq(S) /\ Len(r) = Len(q) - 1
      /\ Head(q) = q[1]
      /\ \A i \in 1 .. Len(r) : r[i] = q[i + 1] /\ i + 1 \in 1 .. Len(q)
  OBVIOUS
<1>2. DOMAIN r = 1 .. Len(r) /\ DOMAIN q = 1 .. Len(q)
  BY <1>1
<1>3. Head(q) \in Range(q)
  BY <1>1, <1>2 DEF Range
<1>4. ASSUME NEW i \in 1 .. Len(r), NEW j \in 1 .. Len(r), r[i] = r[j]
      PROVE  i = j
  <2>1. i + 1 = j + 1
    BY <1>1, <1>2, <1>4 DEF IsInjective
  <2> QED BY <2>1
<1>5. ASSUME NEW x \in Range(r) PROVE x \in Range(q) \ {Head(q)}
  <2>1. PICK i \in 1 .. Len(r) : x = r[i]
    BY <1>2 DEF Range
  <2>2. x = q[i + 1] /\ i + 1 \in 1 .. Len(q) /\ i + 1 # 1
    BY <2>1, <1>1
  <2>3. x # q[1]
    BY <2>2, <1>1, <1>2 DEF IsInjective
  <2> QED BY <2>2, <2>3, <1>1, <1>2 DEF Range
<1>6. ASSUME NEW x \in Range(q), x # Head(q) PROVE x \in Range(r)
  <2>1. PICK i \in 1 .. Len(q) : x = q[i]
    BY <1>2 DEF Range
  <2>2. i - 1 \in 1 .. Len(r) /\ x = r[i - 1]
    BY <2>1, <1>1, <1>6
  <2> QED BY <2>2, <1>2 DEF Range
<1> QED BY <1>1, <1>2, <1>3, <1>4, <1>5, <1>6 DEF IsInjective

LEMMA EmptyRange ==
  /\ IsInjective(<<>>)
  /\ Range(<<>>) = {}
BY DEF IsInjective, Range

-----------------------------------------------------------------------------
(***************************************************************************)
(* What run_scheduler() and the insertion of resumed threads do.           *)
(***************************************************************************)

\* The threads run_scheduler(q, st) chooses from
Ready(q, st) ==
  Range(q) \cup {t \in {current} : t # NoThread /\ st[t] = "RUNNING"}

\* run_scheduler() dispatches a ready thread if there is one and queues the
\* others, each once.
LEMMA Switch ==
  ASSUME current \in Threads \cup {NoThread},
         NEW q \in Seq(Threads), IsInjective(q), current \notin Range(q),
         NEW st, run_scheduler(q, st)
  PROVE  /\ queue' \in Seq(Threads)
         /\ IsInjective(queue')
         /\ current' \in Ready(q, st) \cup {NoThread}
         /\ current' \in Threads \cup {NoThread}
         /\ Range(queue') = Ready(q, st) \ {current'}
<1> DEFINE q1 == IF current # NoThread /\ st[current] = "RUNNING"
                 THEN Append(q, current) ELSE q
<1>1. /\ q1 \in Seq(Threads)
      /\ IsInjective(q1)
      /\ Range(q1) = Ready(q, st)
  <2>1. CASE current # NoThread /\ st[current] = "RUNNING"
    <3>1. current \in Threads
      BY <2>1
    <3>2. /\ <<current>> \in Seq(Threads) /\ IsInjective(<<current>>)
          /\ Range(<<current>>) = {current}
      BY <3>1, SingletonDistinct
    <3>3. q1 = q \o <<current>>
      BY <2>1, <3>1
    <3>4. /\ q \o <<current>> \in Seq(Threads)
          /\ IsInjective(q \o <<current>>)
          /\ Range(q \o <<current>>) = Range(q) \cup {current}
      <4> DEFINE c == <<current>>
      <4>1. /\ c \in Seq(Threads) /\ IsInjective(c) /\ Range(c) = {current}
            /\ Range(q) \cap Range(c) = {}
        BY <3>2
      <4> HIDE DEF c
      <4>2. /\ q \o c \in Seq(Threads)
            /\ IsInjective(q \o c)
            /\ Range(q \o c) = Range(q) \cup Range(c)
        BY <4>1, ConcatDistinct
      <4> QED BY <4>1, <4>2 DEF c
    <3>5. Ready(q, st) = Range(q) \cup {current}
      BY <2>1 DEF Ready
    <3> QED BY <3>3, <3>4, <3>5
  <2>2. CASE ~ (current # NoThread /\ st[current] = "RUNNING")
    BY <2>2 DEF Ready
  <2> QED BY <2>1, <2>2
<1>2. NoThread \notin Range(q1)
  <2>1. Range(q1) \subseteq Threads
    BY <1>1 DEF Range
  <2> QED BY <2>1, ThreadsAssumption
<1> HIDE DEF q1
<1>3. IF q1 = <<>> THEN current' = NoThread /\ queue' = <<>>
      ELSE current' = Head(q1) /\ queue' = Tail(q1)
  BY DEF run_scheduler, q1
<1>4. CASE q1 = <<>>
  BY <1>1, <1>3, <1>4, EmptyRange
<1>5. CASE q1 # <<>>
  <2>1. /\ Head(q1) \in Range(q1)
        /\ Tail(q1) \in Seq(Threads)
        /\ IsInjective(Tail(q1))
        /\ Range(Tail(q1)) = Range(q1) \ {Head(q1)}
    BY <1>1, <1>5, TailDistinct
  <2>2. Head(q1) \in Threads
    BY <1>1, <1>5
  <2> QED BY <1>1, <1>3, <1>5, <2>1, <2>2
<1> QED BY <1>4, <1>5

\* The threads of W, listed in some order, are put before the queue
LEMMA FrontInsert ==
  ASSUME NEW W \in SUBSET Threads, NEW p \in Orders(W),
         NEW q \in Seq(Threads), IsInjective(q), W \cap Range(q) = {}
  PROVE  /\ p \o q \in Seq(Threads)
         /\ IsInjective(p \o q)
         /\ Range(p \o q) = W \cup Range(q)
<1>1. IsFiniteSet(Threads)
  BY ThreadsAssumption, FS_Union DEF Threads
<1>2. Cardinality(W) \in Nat
  BY <1>1, FS_Subset, FS_CardinalityType
<1>3. /\ p \in [1 .. Cardinality(W) -> W]
      /\ IsInjective(p)
      /\ Range(p) = W
  BY DEF Orders
<1>4. p \in Seq(Threads)
  BY <1>2, <1>3
<1> QED BY <1>3, <1>4, ConcatDistinct

\* An order of threads is a sequence of threads
LEMMA OrdersAreSequences ==
  ASSUME NEW W \in SUBSET Threads, NEW p \in Orders(W)
  PROVE  p \in Seq(Threads)
<1>1. IsFiniteSet(Threads)
  BY ThreadsAssumption, FS_Union DEF Threads
<1>2. Cardinality(W) \in Nat
  BY <1>1, FS_Subset, FS_CardinalityType
<1> QED BY <1>2 DEF Orders

\* One thread put before the queue
LEMMA FrontInsertOne ==
  ASSUME NEW u \in Threads,
         NEW q \in Seq(Threads), IsInjective(q), u \notin Range(q)
  PROVE  /\ <<u>> \o q \in Seq(Threads)
         /\ IsInjective(<<u>> \o q)
         /\ Range(<<u>> \o q) = {u} \cup Range(q)
<1>1. /\ <<u>> \in Seq(Threads) /\ IsInjective(<<u>>) /\ Range(<<u>>) = {u}
  BY SingletonDistinct
<1> QED BY <1>1, ConcatDistinct

-----------------------------------------------------------------------------
(***************************************************************************)
(* Steps common to several actions preserve the invariant.                 *)
(***************************************************************************)

\* Leaving the processor, by yield() or from the idle loop
LEMMA YieldStep ==
  ASSUME IInv, run_scheduler(queue, state),
         current # NoThread => pc[current] # "exit_finish",
         UNCHANGED <<state, critical_level, waiting_on, pc, saved, arg, tasks,
                     tasks_mutex, due, unpushed>>
  PROVE  IInv' /\ DispatchesRunnable
<1>1. current \notin Range(queue)
  BY DEF IInv, RunQueueExact
<1>2. /\ queue' \in Seq(Threads)
      /\ IsInjective(queue')
      /\ current' \in Ready(queue, state) \cup {NoThread}
      /\ current' \in Threads \cup {NoThread}
      /\ Range(queue') = Ready(queue, state) \ {current'}
  BY <1>1, Switch DEF IInv, TypeOK, RunQueueExact
<1>3. BeingQueued' = BeingQueued
  BY DEF BeingQueued
<1>4. current \notin BeingQueued
  BY DEF IInv, Starting, BeingQueued
<1>5. Ready(queue, state) = {t \in Threads : state[t] = "RUNNING"} \ BeingQueued
  <2>1. Range(queue) = {t \in Threads : state[t] = "RUNNING"}
                         \ ({current} \cup BeingQueued)
    BY DEF IInv, RunQueueExact
  <2>2. current \in Threads <=> current # NoThread
    BY ThreadsAssumption DEF IInv, TypeOK
  <2> QED BY <1>4, <2>1, <2>2 DEF Ready
<1>6. RunQueueExact'
  BY <1>2, <1>3, <1>5 DEF RunQueueExact
<1>7. current' # NoThread =>
        state[current'] = "RUNNING" /\ current' \notin BeingQueued
  BY <1>2, <1>5
<1>8. TypeOK' /\ CurrentRuns' /\ TasksMutex' /\ Control'
  BY <1>2, <1>7 DEF IInv, TypeOK, CurrentRuns, TasksMutex, HoldsTasks, Control
<1>9. CleanupFinished'
  BY <1>7, ThreadsAssumption
    DEF IInv, TypeOK, CleanupFinished, Cleaning, Control, Exiting, Threads
<1>10. Starting'
  BY <1>7, ThreadsAssumption DEF IInv, Starting, BeingQueued
<1>11. Exiting'
  BY ThreadsAssumption DEF IInv, Exiting
<1>12. DispatchesRunnable
  BY <1>7 DEF DispatchesRunnable
<1> QED BY <1>6, <1>8, <1>9, <1>10, <1>11, <1>12 DEF IInv

\* Waking the paused threads of W
LEMMA WakeStep ==
  ASSUME IInv, NEW W \in SUBSET {t \in Threads : state[t] = "PAUSED"},
         NEW p \in Orders(W),
         queue' = p \o queue, state' = Running(W),
         UNCHANGED <<current, critical_level, waiting_on, pc, saved, arg,
                     tasks, tasks_mutex, due, unpushed>>
  PROVE  IInv' /\ DispatchesRunnable
<1>1. W \cap Range(queue) = {} /\ W \in SUBSET Threads
  BY DEF IInv, RunQueueExact
<1>2. /\ queue' \in Seq(Threads)
      /\ IsInjective(queue')
      /\ Range(queue') = W \cup Range(queue)
  BY <1>1, FrontInsert DEF IInv, TypeOK, RunQueueExact
<1>3. /\ state' \in [Threads -> States]
      /\ \A t \in W : state[t] = "PAUSED" /\ state'[t] = "RUNNING"
                        /\ pc[t] = "asleep"
      /\ \A t \in Threads \ W : state'[t] = state[t]
  BY DEF Running, IInv, TypeOK, States, Control
<1>4. BeingQueued' = BeingQueued
  BY DEF BeingQueued
<1>5. W \cap ({current} \cup BeingQueued) = {}
  BY <1>3, ThreadsAssumption
    DEF IInv, CurrentRuns, Starting, BeingQueued, TypeOK
<1>6. RunQueueExact'
  <2>1. {t \in Threads : state'[t] = "RUNNING"}
          = W \cup {t \in Threads : state[t] = "RUNNING"}
    BY <1>1, <1>3
  <2> QED BY <2>1, <1>2, <1>4, <1>5 DEF IInv, RunQueueExact
<1>7. TypeOK'
  BY <1>2, <1>3 DEF IInv, TypeOK
<1>8. CurrentRuns' /\ TasksMutex' /\ Control'
  BY <1>3, <1>5 DEF IInv, TypeOK, CurrentRuns, TasksMutex, HoldsTasks, Control
<1>9. CleanupFinished'
  BY <1>3 DEF IInv, TypeOK, CleanupFinished, Cleaning, Exiting, Threads
<1>10. Starting' /\ Exiting'
  BY <1>3 DEF IInv, Starting, Exiting
<1> QED BY <1>6, <1>7, <1>8, <1>9, <1>10 DEF IInv, DispatchesRunnable

\* Waking the paused threads of W and preempting the current thread
LEMMA PreemptStep ==
  ASSUME IInv, NEW W \in SUBSET {t \in Threads : state[t] = "PAUSED"},
         NEW p \in Orders(W),
         current # NoThread, critical_level[current] = CL_USER,
         run_scheduler(p \o queue, Running(W)), state' = Running(W),
         UNCHANGED <<critical_level, waiting_on, pc, saved, arg, tasks,
                     tasks_mutex, due, unpushed>>
  PROVE  IInv' /\ DispatchesRunnable
<1> DEFINE q == p \o queue
<1>1. W \cap Range(queue) = {} /\ W \in SUBSET Threads
  BY DEF IInv, RunQueueExact
<1>2. q \in Seq(Threads) /\ IsInjective(q) /\ Range(q) = W \cup Range(queue)
  BY <1>1, FrontInsert DEF IInv, TypeOK, RunQueueExact
<1>3. /\ state' \in [Threads -> States]
      /\ \A t \in W : state[t] = "PAUSED" /\ state'[t] = "RUNNING"
                        /\ pc[t] = "asleep"
      /\ \A t \in Threads \ W : state'[t] = state[t]
  BY DEF Running, IInv, TypeOK, States, Control
<1>4. BeingQueued' = BeingQueued
  BY DEF BeingQueued
<1>5. W \cap ({current} \cup BeingQueued) = {} /\ current \notin BeingQueued
  BY <1>3 DEF IInv, CurrentRuns, Starting, BeingQueued, TypeOK
<1>6. current \in Threads /\ current \notin Range(q)
  BY <1>2, <1>5 DEF IInv, TypeOK, RunQueueExact
<1>7. /\ queue' \in Seq(Threads)
      /\ IsInjective(queue')
      /\ current' \in Ready(q, state') \cup {NoThread}
      /\ current' \in Threads \cup {NoThread}
      /\ Range(queue') = Ready(q, state') \ {current'}
  <2>1. run_scheduler(q, state')
    OBVIOUS
  <2> HIDE DEF q
  <2> QED BY <2>1, <1>2, <1>6, Switch
<1>8. Ready(q, state')
        = {t \in Threads : state'[t] = "RUNNING"} \ BeingQueued
  <2>1. Range(queue) = {t \in Threads : state[t] = "RUNNING"}
                         \ ({current} \cup BeingQueued)
    BY DEF IInv, RunQueueExact
  <2>2. {t \in Threads : state'[t] = "RUNNING"}
          = W \cup {t \in Threads : state[t] = "RUNNING"}
    BY <1>1, <1>3
  <2>3. state'[current] = state[current]
    BY <1>3, <1>5, <1>6
  <2>4. Ready(q, state') = W \cup Range(queue) \cup
          {t \in {current} : state[t] = "RUNNING"}
    BY <1>2, <2>3 DEF Ready
  <2> QED BY <1>5, <1>6, <2>1, <2>2, <2>4
<1>9. RunQueueExact'
  BY <1>4, <1>7, <1>8 DEF RunQueueExact
<1>10. current' # NoThread =>
         state'[current'] = "RUNNING" /\ current' \notin BeingQueued
  BY <1>7, <1>8
<1>11. TypeOK'
  BY <1>3, <1>7 DEF IInv, TypeOK
<1>12. CurrentRuns' /\ TasksMutex' /\ Control'
  BY <1>3, <1>7, <1>10 DEF IInv, TypeOK, CurrentRuns, TasksMutex, HoldsTasks, Control
<1>13. pc[current] # "exit_finish"
  BY <1>6 DEF IInv, Exiting, CL_USER, CL_NOSWITCH
<1>14. CleanupFinished'
  BY <1>3, <1>10, <1>13, ThreadsAssumption
    DEF IInv, TypeOK, CleanupFinished, Cleaning, Control, Exiting, Threads
<1>15. Starting'
  BY <1>3, <1>10, ThreadsAssumption DEF IInv, Starting, BeingQueued
<1>16. Exiting'
  BY <1>13 DEF IInv, Exiting
<1>17. DispatchesRunnable
  BY <1>10 DEF DispatchesRunnable
<1> QED BY <1>9, <1>11, <1>12, <1>14, <1>15, <1>16, <1>17 DEF IInv

\* Going to sleep
LEMMA SleepStep ==
  ASSUME IInv, NEW t \in Threads, current = t,
         pc[t] \in {"run", "w_wait"},
         NEW xs \in SUBSET WaitObjs, xs # {},
         GoToSleep(t, xs),
         UNCHANGED <<arg, tasks, tasks_mutex, due, unpushed>>
  PROVE  IInv' /\ DispatchesRunnable
<1> USE DEF Set
<1>1. current \notin Range(queue)
  BY DEF IInv, RunQueueExact
<1>2. /\ state' = [state EXCEPT ![t] = "PAUSED"]
      /\ pc' = [pc EXCEPT ![t] = "asleep"]
      /\ waiting_on' = [waiting_on EXCEPT ![t] = xs]
      /\ critical_level' = [critical_level EXCEPT ![t] = CL_NOINT]
      /\ saved' = [saved EXCEPT ![t] = critical_level[t]]
      /\ run_scheduler(queue, state')
  BY DEF GoToSleep
<1>3. /\ queue' \in Seq(Threads)
      /\ IsInjective(queue')
      /\ current' \in Ready(queue, state') \cup {NoThread}
      /\ current' \in Threads \cup {NoThread}
      /\ Range(queue') = Ready(queue, state') \ {current'}
  BY <1>1, <1>2, Switch DEF IInv, TypeOK, RunQueueExact
<1>4. BeingQueued' = BeingQueued
  BY <1>2 DEF BeingQueued, IInv, TypeOK
<1>5. current \notin BeingQueued
  BY DEF IInv, Starting, BeingQueued
<1>6. Ready(queue, state')
        = {s \in Threads : state'[s] = "RUNNING"} \ BeingQueued
  <2>1. Range(queue) = {s \in Threads : state[s] = "RUNNING"}
                         \ ({t} \cup BeingQueued)
    BY DEF IInv, RunQueueExact
  <2>2. {s \in Threads : state'[s] = "RUNNING"}
          = {s \in Threads : state[s] = "RUNNING"} \ {t}
    BY <1>2 DEF IInv, TypeOK
  <2>3. Ready(queue, state') = Range(queue)
    BY <1>2 DEF Ready, IInv, TypeOK
  <2> QED BY <1>5, <2>1, <2>2, <2>3
<1>7. RunQueueExact'
  BY <1>3, <1>4, <1>6 DEF RunQueueExact
<1>8. current' # NoThread =>
        /\ state[current'] = "RUNNING" /\ state'[current'] = "RUNNING"
        /\ current' \notin BeingQueued /\ current' # t
  BY <1>2, <1>3, <1>6 DEF IInv, TypeOK
<1>9. TypeOK'
  BY <1>2, <1>3
    DEF IInv, TypeOK, States, WorkerPCs, ClientPCs, Levels, CL_NOINT, CL_USER,
        CL_EXCL
<1>10. CurrentRuns'
  BY <1>2, <1>3, <1>8 DEF IInv, TypeOK, CurrentRuns, Control
<1>11. TasksMutex'
  BY <1>2 DEF IInv, TypeOK, TasksMutex, HoldsTasks
<1>12. Control'
  BY <1>2, ThreadsAssumption
    DEF IInv, TypeOK, Control, Threads, WorkerPCs, ClientPCs
<1>13. CleanupFinished'
  BY <1>2, <1>8, ThreadsAssumption
    DEF IInv, TypeOK, CleanupFinished, Cleaning, Control, Exiting, Threads
<1>14. Starting'
  BY <1>2, <1>8, ThreadsAssumption DEF IInv, TypeOK, Starting, BeingQueued
<1>15. Exiting'
  BY <1>2 DEF IInv, TypeOK, Exiting
<1>16. DispatchesRunnable
  BY <1>8 DEF DispatchesRunnable
<1> QED BY <1>7, <1>9, <1>10, <1>11, <1>12, <1>13, <1>14, <1>15, <1>16 DEF IInv

-----------------------------------------------------------------------------
(***************************************************************************)
(* The invariant is inductive.                                             *)
(***************************************************************************)

LEMMA InitInv == Init => IInv
<1> SUFFICES ASSUME Init PROVE IInv
  OBVIOUS
<1>1. Workers \in SUBSET Threads /\ <<>> \in Seq(Threads)
  BY DEF Threads
<1>2. queue \in Seq(Threads) /\ IsInjective(queue) /\ Range(queue) = Workers
  <2>1. Workers \cap Range(<<>>) = {}
    BY EmptyRange
  <2>2. /\ queue \o <<>> \in Seq(Threads) /\ IsInjective(queue \o <<>>)
        /\ Range(queue \o <<>>) = Workers \cup Range(<<>>)
    BY <1>1, <2>1, FrontInsert, EmptyRange DEF Init
  <2>3. queue \in Seq(Workers)
    <3>1. Cardinality(Workers) \in Nat
      BY ThreadsAssumption, FS_CardinalityType
    <3> QED BY <3>1 DEF Init, Orders
  <2>4. queue \o <<>> = queue
    BY <2>3
  <2> QED BY <2>2, <2>4, EmptyRange
<1>3. TypeOK
  <2>1. critical_level \in [Threads -> Levels] /\ saved \in [Threads -> Levels]
    BY DEF Init, Levels, CL_USER, CL_EXCL
  <2>2. /\ pc \in [Threads -> ClientPCs \cup WorkerPCs]
        /\ state \in [Threads -> States]
    BY DEF Init, States, ClientPCs, WorkerPCs
  <2>3. /\ arg \in [Threads -> Threads \cup {NoThread}]
        /\ waiting_on \in [Threads -> SUBSET WaitObjs]
        /\ current \in Threads /\ tasks \in SUBSET Clients
        /\ tasks_mutex \in BOOLEAN /\ due \in BOOLEAN
        /\ unpushed \in SUBSET Clients
    BY DEF Init, Threads
  <2> QED BY <1>2, <2>1, <2>2, <2>3 DEF TypeOK
<1>4. RunQueueExact
  BY <1>2, ThreadsAssumption DEF Init, RunQueueExact, BeingQueued, Threads
<1>5. CurrentRuns /\ CleanupFinished /\ TasksMutex /\ Exiting
  BY ThreadsAssumption
    DEF Init, CurrentRuns, CleanupFinished, Cleaning, TasksMutex, HoldsTasks,
        Exiting, Threads
<1>6. Control /\ Starting
  BY ThreadsAssumption
    DEF Init, Control, Starting, Threads, ClientPCs, WorkerPCs
<1> QED BY <1>3, <1>4, <1>5, <1>6 DEF IInv

LEMMA ClientInv ==
  ASSUME IInv, NEW t \in Clients, ClientStep(t)
  PROVE  IInv' /\ DispatchesRunnable
<1> USE DEF Set, At
<1>0. t \in Threads
  BY DEF Threads
<1>1. CASE run_thread(t)
  <2>1. TypeOK'
    BY <1>1, ThreadsAssumption
      DEF run_thread, IInv, TypeOK, States, ClientPCs, WorkerPCs, Levels, CL_USER, CL_NOSWITCH,
          CL_NOINT, CL_EXCL, Threads
  <2>2. RunQueueExact'
    BY <1>1, ThreadsAssumption
      DEF run_thread, IInv, TypeOK, RunQueueExact, BeingQueued
  <2>3. CurrentRuns'
    BY <1>1, ThreadsAssumption
      DEF run_thread, IInv, TypeOK, CurrentRuns, Control
  <2>4. CleanupFinished'
    BY <1>1, ThreadsAssumption
      DEF run_thread, IInv, TypeOK, CleanupFinished, Cleaning, Control, Exiting, Threads
  <2>5. TasksMutex'
    BY <1>1, ThreadsAssumption
      DEF run_thread, IInv, TypeOK, TasksMutex, HoldsTasks
  <2>6. Control'
    BY <1>1, ThreadsAssumption
      DEF run_thread, IInv, TypeOK, CurrentRuns, Control, ClientPCs, WorkerPCs,
          Threads
  <2>7. Starting'
    BY <1>1, ThreadsAssumption
      DEF run_thread, IInv, TypeOK, Starting, Control
  <2>8. Exiting'
    BY <1>1, ThreadsAssumption
      DEF run_thread, IInv, TypeOK, Exiting
  <2> QED BY <1>1, <2>1, <2>2, <2>3, <2>4, <2>5, <2>6, <2>7, <2>8
      DEF run_thread, IInv, DispatchesRunnable
<1>2. ASSUME NEW u \in Clients, new_thread(t, u) PROVE IInv' /\ DispatchesRunnable
  <2>0. /\ u \in Threads /\ u # t /\ current = t
        /\ pc[t] = "run" /\ pc[u] = "none" /\ state[u] = "UNUSED"
        /\ state' = [state EXCEPT ![u] = "LOADING"]
        /\ critical_level' = [critical_level EXCEPT ![u] = CL_EXCL]
        /\ waiting_on' = [waiting_on EXCEPT ![u] = {}]
        /\ pc' = [pc EXCEPT ![u] = "begin", ![t] = "start"]
        /\ arg' = [arg EXCEPT ![t] = u]
        /\ UNCHANGED <<current, queue, saved, tasks, tasks_mutex, due, unpushed>>
    BY <1>0, <1>2 DEF new_thread, IInv, Control, Threads
  <2>1. TypeOK'
    <3>1. critical_level' \in [Threads -> Levels]
      BY <2>0 DEF IInv, TypeOK, Levels, CL_EXCL, CL_USER
    <3>2. /\ pc' \in [Threads -> ClientPCs \cup WorkerPCs]
          /\ state' \in [Threads -> States]
      BY <2>0 DEF IInv, TypeOK, States, ClientPCs
    <3>3. /\ arg' \in [Threads -> Threads \cup {NoThread}]
          /\ waiting_on' \in [Threads -> SUBSET WaitObjs]
      BY <2>0 DEF IInv, TypeOK
    <3> QED BY <2>0, <3>1, <3>2, <3>3 DEF IInv, TypeOK
  <2>2. RunQueueExact'
    <3>1. {s \in Threads : state'[s] = "RUNNING"}
            = {s \in Threads : state[s] = "RUNNING"}
      BY <2>0 DEF IInv, TypeOK
    <3>2. {s \in Threads : pc'[s] = "start_enq"}
            = {s \in Threads : pc[s] = "start_enq"}
      BY <2>0 DEF IInv, TypeOK
    <3>3. \A s \in Threads : pc[s] = "start_enq" => arg'[s] = arg[s]
      BY <2>0 DEF IInv, TypeOK
    <3>4. BeingQueued' = BeingQueued
      BY <3>2, <3>3 DEF BeingQueued
    <3> QED BY <2>0, <3>1, <3>4 DEF IInv, RunQueueExact
  <2>3. CurrentRuns'
    BY <2>0 DEF IInv, TypeOK, CurrentRuns
  <2>4. CleanupFinished'
    BY <2>0, ThreadsAssumption
      DEF IInv, TypeOK, CleanupFinished, Cleaning, Control, Exiting, Threads
  <2>5. TasksMutex'
    <3>1. \A s \in Threads : HoldsTasks(s)' <=> HoldsTasks(s)
      BY <2>0 DEF IInv, TypeOK, HoldsTasks
    <3> QED BY <2>0, <3>1 DEF IInv, TasksMutex
  <2>6. Control'
    BY <1>0, <2>0, ThreadsAssumption
      DEF IInv, TypeOK, Control, ClientPCs, WorkerPCs, Threads
  <2>7. Starting'
    BY <1>0, <2>0 DEF IInv, TypeOK, Starting
  <2>8. Exiting'
    BY <1>0, <2>0 DEF IInv, TypeOK, Exiting
  <2> QED BY <1>2, <2>1, <2>2, <2>3, <2>4, <2>5, <2>6, <2>7, <2>8
      DEF new_thread, IInv, DispatchesRunnable
<1>3. CASE start_thread(t)
  <2> DEFINE u == arg[t]
  <2>0. /\ u \in Threads /\ u # t /\ current = t
        /\ pc[t] = "start" /\ pc[u] = "begin" /\ state[u] = "LOADING"
        /\ state[t] = "RUNNING"
        /\ \A s \in Threads : pc[s] \in {"start", "start_enq"} /\ arg[s] = u
                                => s = t
        /\ state' = [state EXCEPT ![u] = "RUNNING"]
        /\ pc' = [pc EXCEPT ![t] = "start_enq"]
        /\ UNCHANGED <<current, queue, critical_level, waiting_on, saved, arg,
                       tasks, tasks_mutex, due, unpushed>>
    BY <1>0, <1>3, ThreadsAssumption
      DEF start_thread, IInv, Starting, CurrentRuns
  <2> HIDE DEF u
  <2>1. TypeOK'
    BY <2>0 DEF IInv, TypeOK, States, ClientPCs
  <2>2. RunQueueExact'
    <3>1. {s \in Threads : state'[s] = "RUNNING"}
            = {s \in Threads : state[s] = "RUNNING"} \cup {u}
      BY <2>0 DEF IInv, TypeOK
    <3>2. BeingQueued' = BeingQueued \cup {u}
      BY <1>0, <2>0 DEF IInv, TypeOK, BeingQueued, u
    <3>3. u \notin {s \in Threads : state[s] = "RUNNING"}
      BY <2>0
    <3> QED BY <2>0, <3>1, <3>2, <3>3 DEF IInv, RunQueueExact
  <2>3. CurrentRuns'
    BY <1>0, <2>0 DEF IInv, TypeOK, CurrentRuns
  <2>4. CleanupFinished'
    <3>1. /\ \A s \in Threads : state[s] = "FINISHED" => state'[s] = "FINISHED"
          /\ Cleaning' = Cleaning
          /\ pc[t] # "exit_finish" /\ pc'[t] # "exit_finish"
          /\ \A s \in Threads : s # t => pc'[s] = pc[s]
      BY <1>0, <2>0, ThreadsAssumption DEF IInv, TypeOK, Cleaning, Threads
    <3> QED BY <2>0, <3>1
          DEF IInv, TypeOK, CleanupFinished, Cleaning, Exiting, Threads
  <2>5. TasksMutex'
    BY <2>0 DEF IInv, TypeOK, TasksMutex, HoldsTasks
  <2>6. Control'
    BY <1>0, <2>0, ThreadsAssumption
      DEF IInv, TypeOK, Control, ClientPCs, WorkerPCs, Threads
  <2>7. Starting'
    <3>1. \A s \in Threads : s # t => pc'[s] = pc[s]
      BY <2>0 DEF IInv, TypeOK
    <3>2. pc'[t] = "start_enq" /\ pc'[u] = "begin" /\ state'[u] = "RUNNING"
      BY <1>0, <2>0 DEF IInv, TypeOK
    <3>3. \A s \in Threads : s # u => state'[s] = state[s]
      BY <2>0 DEF IInv, TypeOK
    <3> QED BY <1>0, <2>0, <3>1, <3>2, <3>3 DEF IInv, Starting, u
  <2>8. Exiting'
    BY <1>0, <2>0 DEF IInv, TypeOK, Exiting
  <2> QED BY <1>3, <2>1, <2>2, <2>3, <2>4, <2>5, <2>6, <2>7, <2>8
      DEF start_thread, IInv, DispatchesRunnable
<1>4. CASE start_enqueue(t)
  <2> DEFINE u == arg[t]
  <2>0. /\ u \in Threads /\ u # current /\ current = t
        /\ pc[t] = "start_enq" /\ state[u] = "RUNNING" /\ u \in BeingQueued
        /\ \A s \in Threads : pc[s] \in {"start", "start_enq"} /\ arg[s] = u
                                => s = t
        /\ pc' = [pc EXCEPT ![t] = "run"]
        /\ arg' = [arg EXCEPT ![t] = NoThread]
        /\ queue' = <<u>> \o queue
        /\ UNCHANGED <<current, state, critical_level, waiting_on, saved,
                       tasks, tasks_mutex, due, unpushed>>
    BY <1>0, <1>4 DEF start_enqueue, IInv, Starting, BeingQueued
  <2>1. /\ queue' \in Seq(Threads)
        /\ IsInjective(queue')
        /\ Range(queue') = {u} \cup Range(queue)
    <3> HIDE DEF u
    <3>1. u \notin Range(queue)
      BY <2>0 DEF IInv, RunQueueExact
    <3> QED BY <2>0, <3>1, FrontInsertOne DEF IInv, TypeOK, RunQueueExact
  <2>2. TypeOK'
    BY <2>0, <2>1 DEF IInv, TypeOK, ClientPCs
  <2>3. RunQueueExact'
    <3>1. BeingQueued' = BeingQueued \ {u}
      BY <1>0, <2>0 DEF IInv, TypeOK, BeingQueued
    <3> QED BY <2>0, <2>1, <3>1 DEF IInv, RunQueueExact
  <2>4. CurrentRuns' /\ TasksMutex' /\ Exiting'
    BY <1>0, <2>0 DEF IInv, TypeOK, CurrentRuns, TasksMutex, HoldsTasks, Exiting
  <2>5. CleanupFinished'
    BY <1>0, <2>0, ThreadsAssumption
      DEF IInv, TypeOK, CleanupFinished, Cleaning, Exiting, Threads
  <2>6. Control'
    BY <1>0, <2>0, ThreadsAssumption
      DEF IInv, TypeOK, Control, ClientPCs, WorkerPCs, Threads
  <2>7. Starting'
    BY <1>0, <2>0 DEF IInv, TypeOK, Starting
  <2> QED BY <1>4, <2>2, <2>3, <2>4, <2>5, <2>6, <2>7
      DEF start_enqueue, IInv, DispatchesRunnable
<1>5. CASE yield(t)
  BY <1>0, <1>5, YieldStep DEF yield
<1>6. ASSUME NEW level \in {CL_NOSWITCH, CL_NOINT}, enter_critical(t, level)
      PROVE  IInv' /\ DispatchesRunnable
  <2>1. TypeOK'
    BY <1>6, ThreadsAssumption
      DEF enter_critical, IInv, TypeOK, States, ClientPCs, WorkerPCs, Levels, CL_USER, CL_NOSWITCH,
          CL_NOINT, CL_EXCL, Threads
  <2>2. RunQueueExact'
    BY <1>6, ThreadsAssumption
      DEF enter_critical, IInv, TypeOK, RunQueueExact, BeingQueued
  <2>3. CurrentRuns'
    BY <1>6, ThreadsAssumption
      DEF enter_critical, IInv, TypeOK, CurrentRuns, Control
  <2>4. CleanupFinished'
    BY <1>6, ThreadsAssumption
      DEF enter_critical, IInv, TypeOK, CleanupFinished, Cleaning, Control, Exiting, Threads
  <2>5. TasksMutex'
    BY <1>6, ThreadsAssumption
      DEF enter_critical, IInv, TypeOK, TasksMutex, HoldsTasks
  <2>6. Control'
    BY <1>6, ThreadsAssumption
      DEF enter_critical, IInv, TypeOK, CurrentRuns, Control, ClientPCs, WorkerPCs,
          Threads
  <2>7. Starting'
    BY <1>6, ThreadsAssumption
      DEF enter_critical, IInv, TypeOK, Starting, Control
  <2>8. Exiting'
    BY <1>6, ThreadsAssumption
      DEF enter_critical, IInv, TypeOK, Exiting
  <2> QED BY <1>6, <2>1, <2>2, <2>3, <2>4, <2>5, <2>6, <2>7, <2>8
      DEF enter_critical, IInv, DispatchesRunnable
<1>7. CASE exit_critical(t)
  <2>1. TypeOK'
    BY <1>7, ThreadsAssumption
      DEF exit_critical, IInv, TypeOK, States, ClientPCs, WorkerPCs, Levels, CL_USER, CL_NOSWITCH,
          CL_NOINT, CL_EXCL, Threads
  <2>2. RunQueueExact'
    BY <1>7, ThreadsAssumption
      DEF exit_critical, IInv, TypeOK, RunQueueExact, BeingQueued
  <2>3. CurrentRuns'
    BY <1>7, ThreadsAssumption
      DEF exit_critical, IInv, TypeOK, CurrentRuns, Control
  <2>4. CleanupFinished'
    BY <1>7, ThreadsAssumption
      DEF exit_critical, IInv, TypeOK, CleanupFinished, Cleaning, Control, Exiting, Threads
  <2>5. TasksMutex'
    BY <1>7, ThreadsAssumption
      DEF exit_critical, IInv, TypeOK, TasksMutex, HoldsTasks
  <2>6. Control'
    BY <1>7, ThreadsAssumption
      DEF exit_critical, IInv, TypeOK, CurrentRuns, Control, ClientPCs, WorkerPCs,
          Threads
  <2>7. Starting'
    BY <1>7, ThreadsAssumption
      DEF exit_critical, IInv, TypeOK, Starting, Control
  <2>8. Exiting'
    BY <1>7, ThreadsAssumption
      DEF exit_critical, IInv, TypeOK, Exiting
  <2> QED BY <1>7, <2>1, <2>2, <2>3, <2>4, <2>5, <2>6, <2>7, <2>8
      DEF exit_critical, IInv, DispatchesRunnable
<1>8. ASSUME NEW xs \in SUBSET Objs, wait_on_many(t, xs) PROVE IInv' /\ DispatchesRunnable
  <2>1. xs \in SUBSET WaitObjs
    BY DEF WaitObjs
  <2> QED BY <1>0, <1>8, <2>1, SleepStep DEF wait_on_many
<1>9. CASE WakeUp(t)
  <2>1. TypeOK'
    BY <1>9, ThreadsAssumption
      DEF WakeUp, IInv, TypeOK, States, ClientPCs, WorkerPCs, Levels, CL_USER, CL_NOSWITCH,
          CL_NOINT, CL_EXCL, Threads
  <2>2. RunQueueExact'
    BY <1>9, ThreadsAssumption
      DEF WakeUp, IInv, TypeOK, RunQueueExact, BeingQueued
  <2>3. CurrentRuns'
    BY <1>9, ThreadsAssumption
      DEF WakeUp, IInv, TypeOK, CurrentRuns, Control
  <2>4. CleanupFinished'
    BY <1>9, ThreadsAssumption
      DEF WakeUp, IInv, TypeOK, CleanupFinished, Cleaning, Control, Exiting, Threads
  <2>5. TasksMutex'
    BY <1>9, ThreadsAssumption
      DEF WakeUp, IInv, TypeOK, TasksMutex, HoldsTasks
  <2>6. Control'
    BY <1>9, ThreadsAssumption
      DEF WakeUp, IInv, TypeOK, CurrentRuns, Control, ClientPCs, WorkerPCs,
          Threads
  <2>7. Starting'
    BY <1>9, ThreadsAssumption
      DEF WakeUp, IInv, TypeOK, Starting, Control
  <2>8. Exiting'
    BY <1>9, ThreadsAssumption
      DEF WakeUp, IInv, TypeOK, Exiting
  <2> QED BY <1>9, <2>1, <2>2, <2>3, <2>4, <2>5, <2>6, <2>7, <2>8
      DEF WakeUp, IInv, DispatchesRunnable
<1>10. ASSUME NEW x \in Objs, CallResumeOn(t, x) PROVE IInv' /\ DispatchesRunnable
  <2>1. Woken(x) \in SUBSET {s \in Threads : state[s] = "PAUSED"}
    BY DEF Woken
  <2>2. PICK p \in Orders(Woken(x)) : queue' = p \o queue
    BY <1>10 DEF CallResumeOn, resume_on
  <2> QED BY <1>10, <2>1, <2>2, WakeStep DEF CallResumeOn, resume_on
<1>11. CASE exit(t)
  <2>1. TypeOK'
    BY <1>11, ThreadsAssumption
      DEF exit, IInv, TypeOK, States, ClientPCs, WorkerPCs, Levels, CL_USER, CL_NOSWITCH,
          CL_NOINT, CL_EXCL, Threads
  <2>2. RunQueueExact'
    BY <1>11, ThreadsAssumption
      DEF exit, IInv, TypeOK, RunQueueExact, BeingQueued
  <2>3. CurrentRuns'
    BY <1>11, ThreadsAssumption
      DEF exit, IInv, TypeOK, CurrentRuns, Control
  <2>4. CleanupFinished'
    BY <1>11, ThreadsAssumption
      DEF exit, IInv, TypeOK, CleanupFinished, Cleaning, Control, Exiting, Threads
  <2>5. TasksMutex'
    BY <1>11, ThreadsAssumption
      DEF exit, IInv, TypeOK, TasksMutex, HoldsTasks
  <2>6. Control'
    BY <1>11, ThreadsAssumption
      DEF exit, IInv, TypeOK, CurrentRuns, Control, ClientPCs, WorkerPCs,
          Threads
  <2>7. Starting'
    BY <1>11, ThreadsAssumption
      DEF exit, IInv, TypeOK, Starting, Control
  <2>8. Exiting'
    BY <1>11, ThreadsAssumption
      DEF exit, IInv, TypeOK, Exiting
  <2> QED BY <1>11, <2>1, <2>2, <2>3, <2>4, <2>5, <2>6, <2>7, <2>8
      DEF exit, IInv, DispatchesRunnable
<1>12. CASE ExitLock(t) /\ ~ tasks_mutex
  <2>1. TypeOK'
    BY <1>12, ThreadsAssumption
      DEF ExitLock, LockTasks, IInv, TypeOK, States, ClientPCs, WorkerPCs, Levels, CL_USER, CL_NOSWITCH,
          CL_NOINT, CL_EXCL, Threads
  <2>2. RunQueueExact'
    BY <1>12, ThreadsAssumption
      DEF ExitLock, LockTasks, IInv, TypeOK, RunQueueExact, BeingQueued
  <2>3. CurrentRuns'
    BY <1>12, ThreadsAssumption
      DEF ExitLock, LockTasks, IInv, TypeOK, CurrentRuns, Control
  <2>4. CleanupFinished'
    BY <1>12, ThreadsAssumption
      DEF ExitLock, LockTasks, IInv, TypeOK, CleanupFinished, Cleaning, Control, Exiting, Threads
  <2>5. TasksMutex'
    <3>1. \A s \in Threads : HoldsTasks(s)' <=> (HoldsTasks(s) \/ s = t)
      BY <1>0, <1>12 DEF ExitLock, LockTasks, IInv, TypeOK, HoldsTasks
    <3>2. tasks_mutex' = TRUE
      BY <1>12 DEF ExitLock, LockTasks
    <3>3. \A s \in Threads : ~ HoldsTasks(s)
      BY <1>12 DEF IInv, TasksMutex
    <3> QED BY <1>0, <3>1, <3>2, <3>3 DEF TasksMutex
  <2>6. Control'
    BY <1>12, ThreadsAssumption
      DEF ExitLock, LockTasks, IInv, TypeOK, CurrentRuns, Control, ClientPCs, WorkerPCs,
          Threads
  <2>7. Starting'
    BY <1>12, ThreadsAssumption
      DEF ExitLock, LockTasks, IInv, TypeOK, Starting, Control
  <2>8. Exiting'
    BY <1>12, ThreadsAssumption
      DEF ExitLock, LockTasks, IInv, TypeOK, Exiting
  <2> QED BY <1>12, <2>1, <2>2, <2>3, <2>4, <2>5, <2>6, <2>7, <2>8
      DEF ExitLock, LockTasks, IInv, DispatchesRunnable
<1>13. CASE ExitLock(t) /\ tasks_mutex
  BY <1>0, <1>13, YieldStep DEF ExitLock, LockTasks
<1>14. CASE ExitAllocBlocked(t)
  BY <1>0, <1>14, YieldStep DEF ExitAllocBlocked
<1>15. CASE ExitPush(t)
  <2>1. TypeOK'
    BY <1>15, ThreadsAssumption
      DEF ExitPush, IInv, TypeOK, States, ClientPCs, WorkerPCs, Levels, CL_USER, CL_NOSWITCH,
          CL_NOINT, CL_EXCL, Threads
  <2>2. RunQueueExact'
    BY <1>15, ThreadsAssumption
      DEF ExitPush, IInv, TypeOK, RunQueueExact, BeingQueued
  <2>3. CurrentRuns'
    BY <1>15, ThreadsAssumption
      DEF ExitPush, IInv, TypeOK, CurrentRuns, Control
  <2>4. CleanupFinished'
    BY <1>15, ThreadsAssumption
      DEF ExitPush, IInv, TypeOK, CleanupFinished, Cleaning, Control, Exiting, Threads
  <2>5. TasksMutex'
    <3>1. \A s \in Threads : HoldsTasks(s)' <=> (HoldsTasks(s) /\ s # t)
      BY <1>0, <1>15 DEF ExitPush, IInv, TypeOK, HoldsTasks
    <3>2. tasks_mutex' = FALSE
      BY <1>15 DEF ExitPush
    <3>3. \A s \in Threads : HoldsTasks(s) => s = t
      BY <1>0, <1>15 DEF ExitPush, IInv, TasksMutex, HoldsTasks
    <3> QED BY <1>0, <3>1, <3>2, <3>3 DEF TasksMutex
  <2>6. Control'
    BY <1>15, ThreadsAssumption
      DEF ExitPush, IInv, TypeOK, CurrentRuns, Control, ClientPCs, WorkerPCs,
          Threads
  <2>7. Starting'
    BY <1>15, ThreadsAssumption
      DEF ExitPush, IInv, TypeOK, Starting, Control
  <2>8. Exiting'
    BY <1>15, ThreadsAssumption
      DEF ExitPush, IInv, TypeOK, Exiting
  <2> QED BY <1>15, <2>1, <2>2, <2>3, <2>4, <2>5, <2>6, <2>7, <2>8
      DEF ExitPush, IInv, DispatchesRunnable
<1>16. CASE ExitFinish(t)
  <2>1. TypeOK'
    BY <1>16, ThreadsAssumption
      DEF ExitFinish, IInv, TypeOK, States, ClientPCs, WorkerPCs, Levels, CL_USER, CL_NOSWITCH,
          CL_NOINT, CL_EXCL, Threads
  <2>2. RunQueueExact'
    BY <1>16, ThreadsAssumption
      DEF ExitFinish, IInv, TypeOK, RunQueueExact, BeingQueued
  <2>3. CurrentRuns'
    BY <1>16, ThreadsAssumption
      DEF ExitFinish, IInv, TypeOK, CurrentRuns, Control
  <2>4. CleanupFinished'
    BY <1>16, ThreadsAssumption
      DEF ExitFinish, IInv, TypeOK, CleanupFinished, Cleaning, Control, Exiting, Threads
  <2>5. TasksMutex'
    BY <1>16, ThreadsAssumption
      DEF ExitFinish, IInv, TypeOK, TasksMutex, HoldsTasks
  <2>6. Control'
    BY <1>16, ThreadsAssumption
      DEF ExitFinish, IInv, TypeOK, CurrentRuns, Control, ClientPCs, WorkerPCs,
          Threads
  <2>7. Starting'
    BY <1>16, ThreadsAssumption
      DEF ExitFinish, IInv, TypeOK, Starting, Control
  <2>8. Exiting'
    BY <1>16, ThreadsAssumption
      DEF ExitFinish, IInv, TypeOK, Exiting
  <2> QED BY <1>16, <2>1, <2>2, <2>3, <2>4, <2>5, <2>6, <2>7, <2>8
      DEF ExitFinish, IInv, DispatchesRunnable
<1>17. CASE ExitYield(t)
  BY <1>0, <1>17, YieldStep DEF ExitYield
<1>18. CASE ExitNoMemory(t)
  <2>1. TypeOK'
    BY <1>18, ThreadsAssumption
      DEF ExitNoMemory, IInv, TypeOK, States, ClientPCs, WorkerPCs, Levels, CL_USER, CL_NOSWITCH,
          CL_NOINT, CL_EXCL, Threads
  <2>2. RunQueueExact'
    BY <1>18, ThreadsAssumption
      DEF ExitNoMemory, IInv, TypeOK, RunQueueExact, BeingQueued
  <2>3. CurrentRuns'
    BY <1>18, ThreadsAssumption
      DEF ExitNoMemory, IInv, TypeOK, CurrentRuns, Control
  <2>4. CleanupFinished'
    BY <1>18, ThreadsAssumption
      DEF ExitNoMemory, IInv, TypeOK, CleanupFinished, Cleaning, Control, Exiting, Threads
  <2>5. TasksMutex'
    BY <1>18, ThreadsAssumption
      DEF ExitNoMemory, IInv, TypeOK, TasksMutex, HoldsTasks
  <2>6. Control'
    BY <1>18, ThreadsAssumption
      DEF ExitNoMemory, IInv, TypeOK, CurrentRuns, Control, ClientPCs, WorkerPCs,
          Threads
  <2>7. Starting'
    BY <1>18, ThreadsAssumption
      DEF ExitNoMemory, IInv, TypeOK, Starting, Control
  <2>8. Exiting'
    BY <1>18, ThreadsAssumption
      DEF ExitNoMemory, IInv, TypeOK, Exiting
  <2> QED BY <1>18, <2>1, <2>2, <2>3, <2>4, <2>5, <2>6, <2>7, <2>8
      DEF ExitNoMemory, IInv, DispatchesRunnable
<1> QED BY <1>1, <1>2, <1>3, <1>4, <1>5, <1>6, <1>7, <1>8, <1>9, <1>10, <1>11,
           <1>12, <1>13, <1>14, <1>15, <1>16, <1>17, <1>18 DEF ClientStep

LEMMA WorkerInv ==
  ASSUME IInv, NEW w \in Workers, WorkerStep(w)
  PROVE  IInv' /\ DispatchesRunnable
<1> USE DEF Set, At
<1>0. w \in Threads
  BY DEF Threads
<1>1. CASE run_thread(w)
  <2>1. TypeOK'
    BY <1>1, ThreadsAssumption
      DEF run_thread, IInv, TypeOK, States, ClientPCs, WorkerPCs, Levels, CL_USER, CL_NOSWITCH,
          CL_NOINT, CL_EXCL, Threads
  <2>2. RunQueueExact'
    BY <1>1, ThreadsAssumption
      DEF run_thread, IInv, TypeOK, RunQueueExact, BeingQueued
  <2>3. CurrentRuns'
    BY <1>1, ThreadsAssumption
      DEF run_thread, IInv, TypeOK, CurrentRuns, Control
  <2>4. CleanupFinished'
    BY <1>1, ThreadsAssumption
      DEF run_thread, IInv, TypeOK, CleanupFinished, Cleaning, Control, Exiting, Threads
  <2>5. TasksMutex'
    BY <1>1, ThreadsAssumption
      DEF run_thread, IInv, TypeOK, TasksMutex, HoldsTasks
  <2>6. Control'
    BY <1>1, ThreadsAssumption
      DEF run_thread, IInv, TypeOK, CurrentRuns, Control, ClientPCs, WorkerPCs,
          Threads
  <2>7. Starting'
    BY <1>1, ThreadsAssumption
      DEF run_thread, IInv, TypeOK, Starting, Control
  <2>8. Exiting'
    BY <1>1, ThreadsAssumption
      DEF run_thread, IInv, TypeOK, Exiting
  <2> QED BY <1>1, <2>1, <2>2, <2>3, <2>4, <2>5, <2>6, <2>7, <2>8
      DEF run_thread, IInv, DispatchesRunnable
<1>2. CASE WorkerLock(w) /\ ~ tasks_mutex
  <2>1. TypeOK'
    BY <1>2, ThreadsAssumption
      DEF WorkerLock, LockTasks, IInv, TypeOK, States, ClientPCs, WorkerPCs, Levels, CL_USER, CL_NOSWITCH,
          CL_NOINT, CL_EXCL, Threads
  <2>2. RunQueueExact'
    BY <1>2, ThreadsAssumption
      DEF WorkerLock, LockTasks, IInv, TypeOK, RunQueueExact, BeingQueued
  <2>3. CurrentRuns'
    BY <1>2, ThreadsAssumption
      DEF WorkerLock, LockTasks, IInv, TypeOK, CurrentRuns, Control
  <2>4. CleanupFinished'
    BY <1>2, ThreadsAssumption
      DEF WorkerLock, LockTasks, IInv, TypeOK, CleanupFinished, Cleaning, Control, Exiting, Threads
  <2>5. TasksMutex'
    <3>1. \A s \in Threads : HoldsTasks(s)' <=> (HoldsTasks(s) \/ s = w)
      BY <1>0, <1>2 DEF WorkerLock, LockTasks, IInv, TypeOK, HoldsTasks
    <3>2. tasks_mutex' = TRUE
      BY <1>2 DEF WorkerLock, LockTasks
    <3>3. \A s \in Threads : ~ HoldsTasks(s)
      BY <1>2 DEF IInv, TasksMutex
    <3> QED BY <1>0, <3>1, <3>2, <3>3 DEF TasksMutex
  <2>6. Control'
    BY <1>2, ThreadsAssumption
      DEF WorkerLock, LockTasks, IInv, TypeOK, CurrentRuns, Control, ClientPCs, WorkerPCs,
          Threads
  <2>7. Starting'
    BY <1>2, ThreadsAssumption
      DEF WorkerLock, LockTasks, IInv, TypeOK, Starting, Control
  <2>8. Exiting'
    BY <1>2, ThreadsAssumption
      DEF WorkerLock, LockTasks, IInv, TypeOK, Exiting
  <2> QED BY <1>2, <2>1, <2>2, <2>3, <2>4, <2>5, <2>6, <2>7, <2>8
      DEF WorkerLock, LockTasks, IInv, DispatchesRunnable
<1>3. CASE WorkerLock(w) /\ tasks_mutex
  BY <1>0, <1>3, YieldStep DEF WorkerLock, LockTasks
<1>4. ASSUME NEW u \in Clients, WorkerTake(w, u) PROVE IInv' /\ DispatchesRunnable
  <2>1. TypeOK'
    BY <1>4, ThreadsAssumption
      DEF WorkerTake, IInv, TypeOK, States, ClientPCs, WorkerPCs, Levels, CL_USER, CL_NOSWITCH,
          CL_NOINT, CL_EXCL, Threads
  <2>2. RunQueueExact'
    BY <1>4, ThreadsAssumption
      DEF WorkerTake, IInv, TypeOK, RunQueueExact, BeingQueued
  <2>3. CurrentRuns'
    BY <1>4, ThreadsAssumption
      DEF WorkerTake, IInv, TypeOK, CurrentRuns, Control
  <2>4. CleanupFinished'
    BY <1>4, ThreadsAssumption
      DEF WorkerTake, IInv, TypeOK, CleanupFinished, Cleaning, Control, Exiting, Threads
  <2>5. TasksMutex'
    <3>1. \A s \in Threads : HoldsTasks(s)' <=> (HoldsTasks(s) /\ s # w)
      BY <1>0, <1>4 DEF WorkerTake, IInv, TypeOK, HoldsTasks
    <3>2. tasks_mutex' = FALSE
      BY <1>4 DEF WorkerTake
    <3>3. \A s \in Threads : HoldsTasks(s) => s = w
      BY <1>0, <1>4 DEF WorkerTake, IInv, TasksMutex, HoldsTasks
    <3> QED BY <1>0, <3>1, <3>2, <3>3 DEF TasksMutex
  <2>6. Control'
    BY <1>4, ThreadsAssumption
      DEF WorkerTake, IInv, TypeOK, CurrentRuns, Control, ClientPCs, WorkerPCs,
          Threads
  <2>7. Starting'
    BY <1>4, ThreadsAssumption
      DEF WorkerTake, IInv, TypeOK, Starting, Control
  <2>8. Exiting'
    BY <1>0, <1>4 DEF WorkerTake, IInv, TypeOK, Exiting, Threads
  <2> QED BY <1>4, <2>1, <2>2, <2>3, <2>4, <2>5, <2>6, <2>7, <2>8
      DEF WorkerTake, IInv, DispatchesRunnable
<1>5. CASE WorkerFindsNone(w)
  <2>1. TypeOK'
    BY <1>5, ThreadsAssumption
      DEF WorkerFindsNone, IInv, TypeOK, States, ClientPCs, WorkerPCs, Levels, CL_USER, CL_NOSWITCH,
          CL_NOINT, CL_EXCL, Threads
  <2>2. RunQueueExact'
    BY <1>5, ThreadsAssumption
      DEF WorkerFindsNone, IInv, TypeOK, RunQueueExact, BeingQueued
  <2>3. CurrentRuns'
    BY <1>5, ThreadsAssumption
      DEF WorkerFindsNone, IInv, TypeOK, CurrentRuns, Control
  <2>4. CleanupFinished'
    BY <1>5, ThreadsAssumption
      DEF WorkerFindsNone, IInv, TypeOK, CleanupFinished, Cleaning, Control, Exiting, Threads
  <2>5. TasksMutex'
    <3>1. \A s \in Threads : HoldsTasks(s)' <=> (HoldsTasks(s) /\ s # w)
      BY <1>0, <1>5 DEF WorkerFindsNone, IInv, TypeOK, HoldsTasks
    <3>2. tasks_mutex' = FALSE
      BY <1>5 DEF WorkerFindsNone
    <3>3. \A s \in Threads : HoldsTasks(s) => s = w
      BY <1>0, <1>5 DEF WorkerFindsNone, IInv, TasksMutex, HoldsTasks
    <3> QED BY <1>0, <3>1, <3>2, <3>3 DEF TasksMutex
  <2>6. Control'
    BY <1>5, ThreadsAssumption
      DEF WorkerFindsNone, IInv, TypeOK, CurrentRuns, Control, ClientPCs, WorkerPCs,
          Threads
  <2>7. Starting'
    BY <1>5, ThreadsAssumption
      DEF WorkerFindsNone, IInv, TypeOK, Starting, Control
  <2>8. Exiting'
    BY <1>5, ThreadsAssumption
      DEF WorkerFindsNone, IInv, TypeOK, Exiting
  <2> QED BY <1>5, <2>1, <2>2, <2>3, <2>4, <2>5, <2>6, <2>7, <2>8
      DEF WorkerFindsNone, IInv, DispatchesRunnable
<1>6. CASE WorkerDo(w)
  <2> DEFINE u == arg[w]
  <2>0. /\ u \in Threads /\ u # w /\ current = w /\ u \in Clients
        /\ pc[w] = "w_do" /\ pc[u] = "exit_yield" /\ state[u] = "FINISHED"
        /\ u \notin tasks
        /\ \A v \in Threads : pc[v] = "w_do" /\ arg[v] = u => v = w
        /\ state' = [state EXCEPT ![u] = "UNUSED"]
        /\ pc' = [pc EXCEPT ![u] = "none", ![w] = "w_lock"]
        /\ arg' = [arg EXCEPT ![w] = NoThread]
        /\ UNCHANGED <<current, queue, critical_level, waiting_on, saved,
                       tasks, tasks_mutex, due, unpushed>>
    BY <1>0, <1>6
      DEF WorkerDo, IInv, CleanupFinished, Cleaning, Control, Exiting, Threads,
          ClientPCs, WorkerPCs
  <2> HIDE DEF u
  <2>1. TypeOK'
    BY <2>0 DEF IInv, TypeOK, States, ClientPCs, WorkerPCs
  <2>2. RunQueueExact'
    <3>1. {s \in Threads : state'[s] = "RUNNING"}
            = {s \in Threads : state[s] = "RUNNING"}
      BY <2>0 DEF IInv, TypeOK
    <3>2. {s \in Threads : pc'[s] = "start_enq"}
            = {s \in Threads : pc[s] = "start_enq"}
      BY <2>0 DEF IInv, TypeOK
    <3>3. \A s \in Threads : pc[s] = "start_enq" => arg'[s] = arg[s]
      BY <2>0 DEF IInv, TypeOK
    <3>4. BeingQueued' = BeingQueued
      BY <3>2, <3>3 DEF BeingQueued
    <3> QED BY <2>0, <3>1, <3>4 DEF IInv, RunQueueExact
  <2>3. CurrentRuns'
    BY <2>0 DEF IInv, TypeOK, CurrentRuns
  <2>4. CleanupFinished'
    BY <1>0, <2>0, ThreadsAssumption
      DEF IInv, TypeOK, CleanupFinished, Cleaning, Control, Exiting, Threads, u
  <2>5. TasksMutex'
    <3>1. \A s \in Threads : HoldsTasks(s)' <=> HoldsTasks(s)
      BY <2>0 DEF IInv, TypeOK, HoldsTasks
    <3> QED BY <2>0, <3>1 DEF IInv, TasksMutex
  <2>6. Control'
    BY <1>0, <2>0, ThreadsAssumption
      DEF IInv, TypeOK, Control, ClientPCs, WorkerPCs, Threads
  <2>7. Starting'
    <3>1. \A s \in Threads : s # w /\ s # u => pc'[s] = pc[s]
                                /\ arg'[s] = arg[s] /\ state'[s] = state[s]
      BY <2>0 DEF IInv, TypeOK
    <3>2. pc'[w] = "w_lock" /\ pc'[u] = "none"
      BY <1>0, <2>0 DEF IInv, TypeOK
    <3>3. \A s \in Threads : pc[s] \in {"start", "start_enq"}
                               => arg[s] # w /\ arg[s] # u /\ s # w /\ s # u
      BY <2>0 DEF IInv, Starting
    <3>4. \A s \in Threads : pc'[s] \in {"start", "start_enq"}
            => pc[s] = pc'[s] /\ arg'[s] = arg[s] /\ pc'[arg[s]] = pc[arg[s]]
                 /\ state'[arg[s]] = state[arg[s]] /\ arg[s] \in Threads
      BY <3>1, <3>2, <3>3 DEF IInv, Starting
    <3>5. current' = current
      BY <2>0
    <3> QED BY <3>4, <3>5 DEF IInv, Starting
  <2>8. Exiting'
    BY <1>0, <2>0 DEF IInv, TypeOK, Exiting
  <2> QED BY <1>6, <2>1, <2>2, <2>3, <2>4, <2>5, <2>6, <2>7, <2>8
      DEF WorkerDo, IInv, DispatchesRunnable
<1>7. CASE WorkerWait(w)
  <2>1. {w} \in SUBSET WaitObjs
    BY DEF WaitObjs
  <2> QED BY <1>0, <1>7, <2>1, SleepStep DEF WorkerWait
<1>8. CASE WakeUp(w)
  <2>1. TypeOK'
    BY <1>8, ThreadsAssumption
      DEF WakeUp, IInv, TypeOK, States, ClientPCs, WorkerPCs, Levels, CL_USER, CL_NOSWITCH,
          CL_NOINT, CL_EXCL, Threads
  <2>2. RunQueueExact'
    BY <1>8, ThreadsAssumption
      DEF WakeUp, IInv, TypeOK, RunQueueExact, BeingQueued
  <2>3. CurrentRuns'
    BY <1>8, ThreadsAssumption
      DEF WakeUp, IInv, TypeOK, CurrentRuns, Control
  <2>4. CleanupFinished'
    BY <1>8, ThreadsAssumption
      DEF WakeUp, IInv, TypeOK, CleanupFinished, Cleaning, Control, Exiting, Threads
  <2>5. TasksMutex'
    BY <1>8, ThreadsAssumption
      DEF WakeUp, IInv, TypeOK, TasksMutex, HoldsTasks
  <2>6. Control'
    BY <1>8, ThreadsAssumption
      DEF WakeUp, IInv, TypeOK, CurrentRuns, Control, ClientPCs, WorkerPCs,
          Threads
  <2>7. Starting'
    BY <1>8, ThreadsAssumption
      DEF WakeUp, IInv, TypeOK, Starting, Control
  <2>8. Exiting'
    BY <1>8, ThreadsAssumption
      DEF WakeUp, IInv, TypeOK, Exiting
  <2> QED BY <1>8, <2>1, <2>2, <2>3, <2>4, <2>5, <2>6, <2>7, <2>8
      DEF WakeUp, IInv, DispatchesRunnable
<1> QED BY <1>1, <1>2, <1>3, <1>4, <1>5, <1>6, <1>7, <1>8 DEF WorkerStep

LEMMA InterruptInv ==
  ASSUME IInv, Interrupt
  PROVE  IInv' /\ DispatchesRunnable
<1>1. \A W \in Notified : W \in SUBSET {s \in Threads : state[s] = "PAUSED"}
  BY DEF Notified, Woken
<1>2. CASE TimerPreempts
  <2>1. PICK W \in Notified : \E p \in Orders(W) :
          state' = Running(W) /\ run_scheduler(p \o queue, Running(W))
    BY <1>2 DEF TimerPreempts
  <2>2. PICK p \in Orders(W) :
          state' = Running(W) /\ run_scheduler(p \o queue, Running(W))
    BY <2>1
  <2> QED BY <1>1, <1>2, <2>2, PreemptStep DEF TimerPreempts
<1>3. CASE TimerTicks
  <2>1. PICK W \in Notified : \E p \in Orders(W) :
          state' = Running(W) /\ queue' = p \o queue
    BY <1>3 DEF TimerTicks
  <2>2. PICK p \in Orders(W) : state' = Running(W) /\ queue' = p \o queue
    BY <2>1
  <2> QED BY <1>1, <1>3, <2>2, WakeStep DEF TimerTicks
<1>4. ASSUME NEW x \in IrqObjs, DeviceIrq(x) PROVE IInv' /\ DispatchesRunnable
  <2>1. Woken(x) \in SUBSET {s \in Threads : state[s] = "PAUSED"}
    BY DEF Woken
  <2>2. PICK p \in Orders(Woken(x)) : queue' = p \o queue
    BY <1>4 DEF DeviceIrq, resume_on
  <2> QED BY <1>4, <2>1, <2>2, WakeStep DEF DeviceIrq, resume_on
<1> QED BY <1>2, <1>3, <1>4 DEF Interrupt

LEMMA StepInv == IInv /\ [Next]_vars => IInv' /\ DispatchesRunnable
<1> SUFFICES ASSUME IInv, [Next]_vars PROVE IInv' /\ DispatchesRunnable
  OBVIOUS
<1>1. CASE Dispatch
  BY <1>1, YieldStep DEF Dispatch
<1>2. CASE UNCHANGED vars
  BY <1>2 DEF vars, DispatchesRunnable, IInv, TypeOK, RunQueueExact, BeingQueued, CurrentRuns,
              CleanupFinished, Cleaning, TasksMutex, HoldsTasks, Control,
              Starting, Exiting
<1> QED BY <1>1, <1>2, ClientInv, WorkerInv, InterruptInv DEF Next

-----------------------------------------------------------------------------
(***************************************************************************)
(* The order of the run queue.                                             *)
(***************************************************************************)

\* What NoReordering asks of a step
KeepsOrder ==
  \A s, t \in Threads :
    Before(queue, s, t) => t # current' /\ (s # current' => Before(queue', s, t))

\* Threads put before the others leave those in their order
LEMMA OrderBehind ==
  ASSUME NEW p \in Seq(Threads), NEW q \in Seq(Threads), NEW s, NEW t, Before(q, s, t)
  PROVE  Before(p \o q, s, t)
<1>1. PICK i \in 1 .. Len(q), j \in 1 .. Len(q) : i < j /\ q[i] = s /\ q[j] = t
  BY DEF Before
<1> DEFINE r == p \o q
<1>2. /\ Len(r) = Len(p) + Len(q) /\ Len(p) \in Nat /\ Len(q) \in Nat
      /\ \A k \in 1 .. Len(q) : r[Len(p) + k] = q[k]
  OBVIOUS
<1> HIDE DEF r
<1>3. /\ Len(p) + i \in 1 .. Len(r) /\ Len(p) + j \in 1 .. Len(r)
      /\ Len(p) + i < Len(p) + j
      /\ r[Len(p) + i] = s /\ r[Len(p) + j] = t
  BY <1>1, <1>2
<1>4. Before(r, s, t)
  BY <1>3 DEF Before
<1> QED BY <1>4 DEF r

\* A thread that waits is in the queue
LEMMA BeforeIsQueued ==
  ASSUME NEW q \in Seq(Threads), NEW s, NEW t, Before(q, s, t)
  PROVE  s \in Range(q) /\ t \in Range(q)
<1>1. DOMAIN q = 1 .. Len(q)
  OBVIOUS
<1> QED BY <1>1 DEF Before, Range

\* run_scheduler() takes the first thread: the one before, or neither
LEMMA OrderSwitch ==
  ASSUME current \in Threads \cup {NoThread},
         NEW q \in Seq(Threads), IsInjective(q), NEW st, run_scheduler(q, st),
         NEW s, NEW t, Before(q, s, t)
  PROVE  t # current' /\ (s # current' => Before(queue', s, t))
<1> DEFINE q1 == IF current # NoThread /\ st[current] = "RUNNING"
                 THEN Append(q, current) ELSE q
<1>1. PICK i \in 1 .. Len(q), j \in 1 .. Len(q) : i < j /\ q[i] = s /\ q[j] = t
  BY DEF Before
<1>2. /\ q1 \in Seq(Threads) /\ Len(q1) >= Len(q) /\ Len(q1) \in Nat
      /\ \A k \in 1 .. Len(q) : q1[k] = q[k]
  <2>1. CASE current # NoThread /\ st[current] = "RUNNING"
    BY <2>1
  <2>2. CASE ~ (current # NoThread /\ st[current] = "RUNNING")
    BY <2>2
  <2> QED BY <2>1, <2>2
<1>3. IF q1 = <<>> THEN current' = NoThread /\ queue' = <<>>
      ELSE current' = Head(q1) /\ queue' = Tail(q1)
  BY DEF run_scheduler
<1> HIDE DEF q1
<1>4. q1 # <<>> /\ Len(q) \in Nat /\ 1 \in 1 .. Len(q) /\ j # 1
  BY <1>1, <1>2
<1>5. current' = q[1] /\ queue' = Tail(q1)
  BY <1>2, <1>3, <1>4
<1>6. t # current'
  <2>1. DOMAIN q = 1 .. Len(q)
    OBVIOUS
  <2> QED BY <1>1, <1>4, <1>5, <2>1 DEF IsInjective
<1>7. ASSUME s # current' PROVE Before(queue', s, t)
  <2>1. i # 1
    BY <1>1, <1>5, <1>7
  <2>2. /\ Len(queue') = Len(q1) - 1
        /\ \A k \in 1 .. Len(queue') : queue'[k] = q1[k + 1]
    BY <1>2, <1>4, <1>5
  <2>3. /\ i - 1 \in 1 .. Len(queue') /\ j - 1 \in 1 .. Len(queue') /\ i - 1 < j - 1
        /\ queue'[i - 1] = s /\ queue'[j - 1] = t
    BY <1>1, <1>2, <2>1, <2>2
  <2> QED BY <2>3 DEF Before
<1> QED BY <1>6, <1>7

\* A step that switches, after it has put the threads of W first
LEMMA SwitchKeepsOrder ==
  ASSUME IInv, NEW W \in SUBSET {s \in Threads : state[s] = "PAUSED"}, NEW p \in Orders(W),
         NEW st, run_scheduler(p \o queue, st)
  PROVE  KeepsOrder
<1>1. W \cap Range(queue) = {} /\ W \in SUBSET Threads
  BY DEF IInv, RunQueueExact
<1>2. p \o queue \in Seq(Threads) /\ IsInjective(p \o queue)
  BY <1>1, FrontInsert DEF IInv, TypeOK, RunQueueExact
<1>3. p \in Seq(Threads)
  BY OrdersAreSequences
<1>4. ASSUME NEW s \in Threads, NEW t \in Threads, Before(queue, s, t)
      PROVE  t # current' /\ (s # current' => Before(queue', s, t))
  <2>1. Before(p \o queue, s, t)
    BY <1>3, <1>4, OrderBehind DEF IInv, TypeOK
  <2> QED BY <1>2, <2>1, OrderSwitch DEF IInv, TypeOK
<1> QED BY <1>4 DEF KeepsOrder

\* A step that only puts threads first
LEMMA InsertKeepsOrder ==
  ASSUME IInv, NEW p \in Seq(Threads), queue' = p \o queue, current' = current
  PROVE  KeepsOrder
<1>1. ASSUME NEW s \in Threads, NEW t \in Threads, Before(queue, s, t)
      PROVE  t # current' /\ (s # current' => Before(queue', s, t))
  <2>1. Before(queue', s, t)
    BY <1>1, OrderBehind DEF IInv, TypeOK
  <2>2. t \in Range(queue)
    BY <1>1, BeforeIsQueued DEF IInv, TypeOK
  <2> QED BY <2>1, <2>2 DEF IInv, RunQueueExact
<1> QED BY <1>1 DEF KeepsOrder

\* A step that switches among the threads that are queued
LEMMA YieldKeepsOrder ==
  ASSUME IInv, NEW st, run_scheduler(queue, st)
  PROVE  KeepsOrder
<1>1. ASSUME NEW s \in Threads, NEW t \in Threads, Before(queue, s, t)
      PROVE  t # current' /\ (s # current' => Before(queue', s, t))
  BY <1>1, OrderSwitch DEF IInv, TypeOK, RunQueueExact
<1> QED BY <1>1 DEF KeepsOrder

\* A step that leaves the queue and the processor alone
LEMMA StillKeepsOrder ==
  ASSUME IInv, UNCHANGED <<current, queue>>
  PROVE  KeepsOrder
<1>1. ASSUME NEW s \in Threads, NEW t \in Threads, Before(queue, s, t)
      PROVE  t # current' /\ (s # current' => Before(queue', s, t))
  <2>1. t \in Range(queue)
    BY <1>1, BeforeIsQueued DEF IInv, TypeOK
  <2>2. Before(queue', s, t)
    BY <1>1
  <2> QED BY <2>1, <2>2 DEF IInv, RunQueueExact
<1> QED BY <1>1 DEF KeepsOrder

LEMMA StepKeepsOrder ==
  ASSUME IInv, Next
  PROVE  KeepsOrder
<1>1. CASE Dispatch
  BY <1>1, YieldKeepsOrder DEF Dispatch
<1>2. ASSUME NEW x, resume_on(x)
      PROVE  KeepsOrder
  <2>1. Woken(x) \in SUBSET {s \in Threads : state[s] = "PAUSED"}
    BY DEF Woken
  <2>2. PICK p \in Orders(Woken(x)) : queue' = p \o queue
    BY <1>2 DEF resume_on
  <2>3. p \in Seq(Threads)
    BY <2>1, OrdersAreSequences
  <2> QED BY <1>2, <2>2, <2>3, InsertKeepsOrder DEF resume_on
<1>3. ASSUME NEW t \in Threads, NEW next, LockTasks(t, next)
      PROVE  KeepsOrder
  BY <1>3, YieldKeepsOrder, StillKeepsOrder DEF LockTasks
<1>4. ASSUME NEW t \in Threads, NEW xs, GoToSleep(t, xs)
      PROVE  KeepsOrder
  BY <1>4, YieldKeepsOrder DEF GoToSleep
<1>5. ASSUME NEW t \in Clients, ClientStep(t)
      PROVE  KeepsOrder
  <2>0. t \in Threads
    BY DEF Threads
  <2>1. CASE \/ run_thread(t) \/ (\E u \in Clients : new_thread(t, u)) \/ start_thread(t)
             \/ (\E level \in {CL_NOSWITCH, CL_NOINT} : enter_critical(t, level))
             \/ exit_critical(t) \/ WakeUp(t) \/ exit(t) \/ ExitPush(t) \/ ExitFinish(t)
             \/ ExitNoMemory(t)
    BY <2>1, StillKeepsOrder
      DEF run_thread, new_thread, start_thread, enter_critical, exit_critical, WakeUp, exit,
          ExitPush, ExitFinish, ExitNoMemory
  <2>2. CASE start_enqueue(t)
    <3>1. arg[t] \in Threads
      BY <2>0, <2>2 DEF IInv, Starting, start_enqueue, At
    <3>2. <<arg[t]>> \in Seq(Threads)
      BY <3>1
    <3> QED BY <2>2, <3>2, InsertKeepsOrder DEF start_enqueue
  <2>3. CASE yield(t) \/ ExitAllocBlocked(t) \/ ExitYield(t)
    BY <2>3, YieldKeepsOrder DEF yield, ExitAllocBlocked, ExitYield
  <2>4. CASE \E xs \in SUBSET Objs : wait_on_many(t, xs)
    BY <1>4, <2>0, <2>4 DEF wait_on_many
  <2>5. CASE \E x \in Objs : CallResumeOn(t, x)
    BY <1>2, <2>5 DEF CallResumeOn
  <2>6. CASE ExitLock(t)
    BY <1>3, <2>0, <2>6 DEF ExitLock
  <2> QED BY <1>5, <2>1, <2>2, <2>3, <2>4, <2>5, <2>6 DEF ClientStep
<1>6. ASSUME NEW w \in Workers, WorkerStep(w)
      PROVE  KeepsOrder
  <2>0. w \in Threads
    BY DEF Threads
  <2>1. CASE \/ run_thread(w) \/ (\E u \in Clients : WorkerTake(w, u)) \/ WorkerFindsNone(w)
             \/ WorkerDo(w) \/ WakeUp(w)
    BY <2>1, StillKeepsOrder DEF run_thread, WorkerTake, WorkerFindsNone, WorkerDo, WakeUp
  <2>2. CASE WorkerLock(w)
    BY <1>3, <2>0, <2>2 DEF WorkerLock
  <2>3. CASE WorkerWait(w)
    BY <1>4, <2>0, <2>3 DEF WorkerWait
  <2> QED BY <1>6, <2>1, <2>2, <2>3 DEF WorkerStep
<1>7. CASE Interrupt
  <2>0. \A W \in Notified : W \in SUBSET {s \in Threads : state[s] = "PAUSED"}
    BY DEF Notified, Woken
  <2>1. CASE TimerPreempts
    <3>1. PICK W \in Notified : \E p \in Orders(W) : run_scheduler(p \o queue, Running(W))
      BY <2>1 DEF TimerPreempts
    <3>2. PICK p \in Orders(W) : run_scheduler(p \o queue, Running(W))
      BY <3>1
    <3> QED BY <2>0, <3>2, SwitchKeepsOrder
  <2>2. CASE TimerTicks
    <3>1. PICK W \in Notified : \E p \in Orders(W) : queue' = p \o queue
      BY <2>2 DEF TimerTicks
    <3>2. PICK p \in Orders(W) : queue' = p \o queue
      BY <3>1
    <3>3. p \in Seq(Threads)
      BY <2>0, OrdersAreSequences
    <3> QED BY <2>2, <3>2, <3>3, InsertKeepsOrder DEF TimerTicks
  <2>3. CASE \E x \in IrqObjs : DeviceIrq(x)
    BY <1>2, <2>3 DEF DeviceIrq
  <2> QED BY <1>7, <2>1, <2>2, <2>3 DEF Interrupt
<1> QED BY <1>1, <1>5, <1>6, <1>7 DEF Next

-----------------------------------------------------------------------------
(***************************************************************************)
(* The theorems.                                                           *)
(***************************************************************************)

\* The variables keep their types in every behaviour of the scheduler
THEOREM TypeCorrect == Spec => []TypeOK
<1>1. IInv => TypeOK
  BY DEF IInv
<1> QED BY <1>1, InitInv, StepInv, PTL DEF Spec

\* The run queue is exact: whatever the interleaving of threads and interrupts,
\* enqueue_thread() and dequeue_thread() lose no runnable thread and link none
\* twice.
THEOREM RunQueueIsExact == Spec => []RunQueueExact
<1>1. IInv => RunQueueExact
  BY DEF IInv
<1> QED BY <1>1, InitInv, StepInv, PTL DEF Spec

\* Only runnable threads are dispatched; a thread that has finished never comes
\* back from the yield() at the end of exit().
THEOREM OnlyRunnableDispatched == Spec => DispatchOnlyRunnable
<1>1. IInv /\ [Next]_vars => [DispatchesRunnable]_vars
  BY StepInv
<1> QED BY <1>1, InitInv, StepInv, PTL DEF Spec, DispatchOnlyRunnable

\* First in, first out: no step of any thread, worker or interrupt makes a
\* queued thread pass another one that was before it.
THEOREM QueueKeepsOrder == Spec => NoReordering
<1>1. IInv /\ [Next]_vars => [KeepsOrder]_vars
  BY StepKeepsOrder
<1> QED BY <1>1, InitInv, StepInv, PTL DEF Spec, NoReordering, KeepsOrder

\* delete_thread() is only called, and only once, on a thread that has finished
\* and has left the processor.
THEOREM CleanupIsSafe == Spec => []CleanupFinished
<1>1. IInv => CleanupFinished
  BY DEF IInv
<1> QED BY <1>1, InitInv, StepInv, PTL DEF Spec

\* tasks_mutex excludes, and is held exactly while some thread is inside
THEOREM TasksMutexExcludes == Spec => []TasksMutex
<1>1. IInv => TasksMutex
  BY DEF IInv
<1> QED BY <1>1, InitInv, StepInv, PTL DEF Spec

\* A pending task is always due in the eyes of the timer
THEOREM PendingTasksAreDue == Spec => []PendingIsDue
<1>1. Init => PendingIsDue
  BY DEF Init, PendingIsDue
<1>2. PendingIsDue /\ [Next]_vars => PendingIsDue'
  <2> SUFFICES ASSUME PendingIsDue, [Next]_vars PROVE PendingIsDue'
    OBVIOUS
  <2>1. CASE UNCHANGED <<tasks, due>>
    BY <2>1 DEF PendingIsDue
  <2>2. ASSUME NEW t \in Clients, ClientStep(t) PROVE PendingIsDue'
    BY <2>1, <2>2
      DEF ClientStep, run_thread, new_thread, start_thread, start_enqueue,
          yield, enter_critical, exit_critical, wait_on_many, WakeUp,
          CallResumeOn, resume_on, exit, ExitNoMemory, ExitLock, ExitAllocBlocked, ExitPush,
          ExitFinish, ExitYield, PendingIsDue
  <2>3. ASSUME NEW w \in Workers, WorkerStep(w) PROVE PendingIsDue'
    BY <2>1, <2>3
      DEF WorkerStep, run_thread, WorkerLock, WorkerTake, WorkerFindsNone,
          WorkerDo, WorkerWait, WakeUp, PendingIsDue
  <2>4. CASE Dispatch \/ Interrupt
    BY <2>1, <2>4
      DEF Dispatch, Interrupt, TimerPreempts, TimerTicks, DeviceIrq, resume_on
  <2>5. CASE UNCHANGED vars
    BY <2>1, <2>5 DEF vars
  <2> QED BY <2>2, <2>3, <2>4, <2>5 DEF Next
<1> QED BY <1>1, <1>2, PTL DEF Spec

-----------------------------------------------------------------------------
(***************************************************************************)
(* Waiting for time (module Sleep, whose tasks are called delayed here).   *)
(***************************************************************************)
\* A set of numbers has a least one.
LEMMA LeastNumber ==
  ASSUME NEW T \in SUBSET Nat, T # {}
  PROVE  \E m \in T : \A k \in T : m <= k
<1>1. PICK m \in T : \A k \in T : ~ (<<k, m>> \in OpToRel(<, Nat))
  BY WFMin, NatLessThanWellFounded, Zenon
<1>2. \A k \in T : ~ (k < m)
  BY <1>1, Zenon DEF OpToRel
<1> QED
  BY <1>2

Pcs == {"awake", "push", "pushed", "usleep", "slept", "select", "select_wait"}
Tasks == [left : 0 .. Timer!Never, of : Sleepers, n : 1 .. MaxTasks]

STypes ==
  /\ uptime \in 0 .. MaxDelay
  /\ delayed \in SUBSET Tasks
  /\ next_task_time \in 0 .. Timer!Never
  /\ worker \in [pc : {"look", "run", "wait", "asleep"}, task : Tasks \cup {Timer!None}]
  /\ th \in [Sleepers -> [pc : Pcs, left : 0 .. MaxDelay, n : 0 .. MaxTasks]]

\* The clock looks at next_task_time alone: no task is due before it.
Early == \A k \in delayed : next_task_time <= k.left

\* The task that the worker carries out is due.
Due == worker.pc = "run" => worker.task \in Tasks /\ worker.task.left = 0

\* The tasks of a thread that can still resume it.
Pending(t) == {k \in delayed \cup (IF worker.pc = "run" THEN {worker.task} ELSE {}) : k.of = t}

\* Who sleeps in usleep() or is about to has a task of its own, unless that ran
\* too early, and none of its tasks with the same number comes too early.
Timed(t) ==
  /\ Timer!Asleep(t) /\ t \notin untimed => Pending(t) # {}
  /\ Timer!At(t, "pushed") /\ t \notin untimed => \E k \in Pending(t) : k.n = th[t].n
  /\ th[t].pc \in {"pushed", "usleep"} =>
       \A k \in Pending(t) : k.n = th[t].n => th[t].left <= k.left
  /\ Timer!At(t, "slept") /\ t \notin stray => th[t].left = 0

SInv == STypes /\ Early /\ Due /\ \A t \in Sleepers : Timed(t)

Bounds == MaxDelay \in Nat /\ MaxTasks \in Nat

LEMMA NeverIs == ASSUME Bounds PROVE Timer!Never = MaxDelay + 1 /\ Timer!Never \in Nat
BY DEF Timer!Never, Bounds

LEMMA SInitially == ASSUME Bounds, Timer!Init PROVE SInv
<1>1. /\ uptime = 0 /\ delayed = {} /\ next_task_time = Timer!Never
      /\ worker = [pc |-> "look", task |-> Timer!None]
      /\ th = [t \in Sleepers |-> [pc |-> "awake", left |-> 0, n |-> 0]]
  BY DEF Timer!Init, Timer!AwakeThread
<1>2. STypes
  BY <1>1, NeverIs DEF STypes, Bounds, Pcs
<1>3. Early /\ Due
  BY <1>1 DEF Early, Due
<1>4. ASSUME NEW t \in Sleepers PROVE Timed(t)
  BY <1>1 DEF Timed, Timer!Asleep, Timer!At
<1> QED
  BY <1>2, <1>3, <1>4 DEF SInv

\* A thread is not concerned by what happens to others and their tasks.
LEMMA NotConcerned ==
  ASSUME NEW u \in Sleepers, Timed(u), th'[u] = th[u], Pending(u)' = Pending(u),
         u \in untimed' <=> u \in untimed, u \in stray' <=> u \in stray
  PROVE  Timed(u)'
BY DEF Timed, Timer!Asleep, Timer!At

\* A thread moves and no task does.
LEMMA ThreadMoves ==
  ASSUME SInv, NEW t \in Sleepers, NEW r \in [pc : Pcs, left : 0 .. MaxDelay, n : 0 .. MaxTasks],
         th' = [th EXCEPT ![t] = r], UNCHANGED <<uptime, next_task_time, worker, delayed>>,
         untimed' \in {untimed, untimed \ {t}, untimed \cup {t}}, stray' \in {stray, stray \ {t}},
         Timed(t)'
  PROVE  SInv'
<1>1. STypes'
  BY DEF SInv, STypes
<1>2. Early' /\ Due'
  BY DEF SInv, Early, Due
<1>3. ASSUME NEW u \in Sleepers, u # t PROVE Timed(u)'
  <2>1. th'[u] = th[u]
    BY <1>3 DEF SInv, STypes
  <2>2. Pending(u)' = Pending(u)
    BY DEF Pending
  <2>3. Timed(u)
    BY DEF SInv
  <2> QED
    BY <1>3, <2>1, <2>2, <2>3, NotConcerned
<1> QED
  BY <1>1, <1>2, <1>3 DEF SInv

\* A thread that is neither about to sleep nor asleep needs no timer.
LEMMA NeedsNoTimer ==
  ASSUME NEW t \in Sleepers, th'[t].pc \in {"awake", "push", "select"}
  PROVE  Timed(t)'
BY DEF Timed, Timer!Asleep, Timer!At

LEMMA BeginStep ==
  ASSUME Bounds, SInv, NEW t \in Sleepers, NEW pc0 \in {"push", "select"}, Timer!Begin(t, pc0)
  PROVE  SInv'
<1>1. PICK d \in 1 .. MaxDelay : th' = [th EXCEPT ![t] = [pc |-> pc0, left |-> d, n |-> 0]]
  BY DEF Timer!Begin, Timer!Delays
<1>2. PICK r : r = [pc |-> pc0, left |-> d, n |-> 0]
  OBVIOUS
<1>3. r \in [pc : Pcs, left : 0 .. MaxDelay, n : 0 .. MaxTasks] /\ r.pc = pc0
  BY <1>2 DEF Pcs, Bounds
<1>4. th' = [th EXCEPT ![t] = r] /\ th'[t] = r
  BY <1>1, <1>2 DEF SInv, STypes
<1>5. Timed(t)'
  BY <1>3, <1>4, NeedsNoTimer
<1> QED
  BY <1>3, <1>4, <1>5, ThreadMoves DEF Timer!Begin

LEMMA AwakeStep ==
  ASSUME Bounds, SInv, NEW t \in Sleepers, Timer!PushFails(t) \/ Timer!Slept(t) \/ Timer!Return(t)
  PROVE  SInv'
<1>1. PICK r : r = [pc |-> "awake", left |-> 0, n |-> 0]
  OBVIOUS
<1>2. /\ th' = [th EXCEPT ![t] = r]
      /\ UNCHANGED <<uptime, delayed, next_task_time, worker, untimed, stray>>
  BY <1>1 DEF Timer!PushFails, Timer!Slept, Timer!Return, Timer!AwakeThread
<1>3. r \in [pc : Pcs, left : 0 .. MaxDelay, n : 0 .. MaxTasks] /\ r.pc = "awake"
  BY <1>1 DEF Pcs, Bounds
<1>4. th'[t] = r
  BY <1>2 DEF SInv, STypes
<1>5. Timed(t)'
  BY <1>3, <1>4, NeedsNoTimer
<1> QED
  BY <1>2, <1>3, <1>5, ThreadMoves

\* wait_on() of usleep() keeps the timer that the thread has.
LEMMA WaitStep == ASSUME SInv, NEW t \in Sleepers, Timer!Wait(t) PROVE SInv'
<1>1. /\ th[t].pc = "pushed" /\ th' = [th EXCEPT ![t].pc = "usleep"]
      /\ UNCHANGED <<uptime, delayed, next_task_time, worker, untimed, stray>>
  BY DEF Timer!Wait, Timer!At, Timer!Goto
<1>2. PICK r : r = [th[t] EXCEPT !.pc = "usleep"]
  OBVIOUS
<1>3. th[t] \in [pc : Pcs, left : 0 .. MaxDelay, n : 0 .. MaxTasks]
  BY DEF SInv, STypes
<1>4. /\ r \in [pc : Pcs, left : 0 .. MaxDelay, n : 0 .. MaxTasks]
      /\ r.pc = "usleep" /\ r.left = th[t].left /\ r.n = th[t].n
  BY <1>2, <1>3 DEF Pcs
<1>5. th' = [th EXCEPT ![t] = r] /\ th'[t] = r
  BY <1>1, <1>2 DEF SInv, STypes
<1>6. Pending(t)' = Pending(t)
  BY <1>1 DEF Pending
<1>7. Timed(t)
  BY DEF SInv
<1>8. Timed(t)'
  BY <1>1, <1>4, <1>5, <1>6, <1>7 DEF Timed, Timer!Asleep, Timer!At
<1> QED
  BY <1>1, <1>4, <1>5, <1>8, ThreadMoves

LEMMA ArriveStep == ASSUME SInv, NEW t \in Sleepers, Timer!Arrive(t) PROVE SInv'
<1>1. /\ th' = [th EXCEPT ![t].pc = "select"]
      /\ UNCHANGED <<uptime, delayed, next_task_time, worker, untimed, stray>>
  BY DEF Timer!Arrive, Timer!Goto
<1>2. PICK r : r = [th[t] EXCEPT !.pc = "select"]
  OBVIOUS
<1>3. th[t] \in [pc : Pcs, left : 0 .. MaxDelay, n : 0 .. MaxTasks]
  BY DEF SInv, STypes
<1>4. r \in [pc : Pcs, left : 0 .. MaxDelay, n : 0 .. MaxTasks] /\ r.pc = "select"
  BY <1>2, <1>3 DEF Pcs
<1>5. th' = [th EXCEPT ![t] = r] /\ th'[t] = r
  BY <1>1, <1>2 DEF SInv, STypes
<1>6. Timed(t)'
  BY <1>4, <1>5, NeedsNoTimer
<1> QED
  BY <1>1, <1>4, <1>5, <1>6, ThreadMoves

\* A task of t is added: others do not see it.
LEMMA AddedTask ==
  ASSUME Bounds, SInv, NEW t \in Sleepers, NEW k \in Tasks, k.of = t,
         delayed' = delayed \cup {k}, next_task_time' = Timer!Lowered(k.left),
         NEW r \in [pc : Pcs, left : 0 .. MaxDelay, n : 0 .. MaxTasks], th' = [th EXCEPT ![t] = r],
         UNCHANGED <<uptime, worker, stray>>, untimed' \in {untimed, untimed \ {t}},
         Timed(t)'
  PROVE  SInv'
<1>1. k.left \in 0 .. Timer!Never /\ next_task_time \in 0 .. Timer!Never /\ Timer!Never \in Nat
  BY NeverIs DEF Tasks, SInv, STypes
<1>2. /\ next_task_time' \in 0 .. Timer!Never /\ next_task_time' <= k.left
      /\ next_task_time' <= next_task_time
  BY <1>1 DEF Timer!Lowered, Timer!Least
<1>3. STypes'
  BY <1>2 DEF SInv, STypes
<1>4. Early'
  <2> SUFFICES ASSUME NEW j \in delayed' PROVE next_task_time' <= j.left
    BY DEF Early
  <2>1. CASE j = k
    BY <1>2, <2>1
  <2>2. CASE j \in delayed
    <3>1. next_task_time <= j.left /\ j.left \in 0 .. Timer!Never
      BY <2>2 DEF SInv, Early, STypes, Tasks
    <3> QED
      BY <1>1, <1>2, <3>1
  <2> QED
    BY <2>1, <2>2
<1>5. Due'
  BY DEF SInv, Due
<1>6. ASSUME NEW u \in Sleepers, u # t PROVE Timed(u)'
  <2>1. th'[u] = th[u]
    BY <1>6 DEF SInv, STypes
  <2>2. Pending(u)' = Pending(u)
    BY <1>6 DEF Pending
  <2>3. Timed(u)
    BY DEF SInv
  <2> QED
    BY <1>6, <2>1, <2>2, <2>3, NotConcerned
<1> QED
  BY <1>3, <1>4, <1>5, <1>6 DEF SInv

\* No task is added, but the worker is called earlier.
LEMMA LostTask ==
  ASSUME Bounds, SInv, NEW t \in Sleepers, NEW left \in 0 .. Timer!Never, Timer!PushIsLost(left),
         NEW r \in [pc : Pcs, left : 0 .. MaxDelay, n : 0 .. MaxTasks], th' = [th EXCEPT ![t] = r],
         UNCHANGED <<uptime, worker, stray>>, untimed' = untimed \cup {t}, Timed(t)'
  PROVE  SInv'
<1>1. next_task_time \in 0 .. Timer!Never /\ Timer!Never \in Nat
  BY NeverIs DEF SInv, STypes
<1>2. /\ next_task_time' \in 0 .. Timer!Never /\ next_task_time' <= next_task_time
      /\ delayed' = delayed
  BY <1>1 DEF Timer!PushIsLost, Timer!Lowered, Timer!Least
<1>3. STypes'
  BY <1>2 DEF SInv, STypes
<1>4. Early'
  <2> SUFFICES ASSUME NEW j \in delayed PROVE next_task_time' <= j.left
    BY <1>2 DEF Early
  <2>1. next_task_time <= j.left /\ j.left \in 0 .. Timer!Never
    BY DEF SInv, Early, STypes, Tasks
  <2> QED
    BY <1>1, <1>2, <2>1
<1>5. Due'
  BY DEF SInv, Due
<1>6. ASSUME NEW u \in Sleepers, u # t PROVE Timed(u)'
  <2>1. th'[u] = th[u]
    BY <1>6 DEF SInv, STypes
  <2>2. Pending(u)' = Pending(u)
    BY <1>2 DEF Pending
  <2>3. Timed(u)
    BY DEF SInv
  <2> QED
    BY <1>6, <2>1, <2>2, <2>3, NotConcerned
<1> QED
  BY <1>3, <1>4, <1>5, <1>6 DEF SInv

\* usleep() waits without a timer: no task has the number 0.
LEMMA PushLostStep == ASSUME Bounds, SInv, NEW t \in Sleepers, Timer!PushLost(t) PROVE SInv'
<1>1. /\ Timer!PushIsLost(th[t].left) /\ th' = [th EXCEPT ![t].pc = "pushed", ![t].n = 0]
      /\ untimed' = untimed \cup {t} /\ UNCHANGED <<uptime, worker, stray>>
  BY DEF Timer!PushLost
<1>2. th[t] \in [pc : Pcs, left : 0 .. MaxDelay, n : 0 .. MaxTasks]
  BY DEF SInv, STypes
<1>3. PICK r : r = [th[t] EXCEPT !.pc = "pushed", !.n = 0]
  OBVIOUS
<1>4. r \in [pc : Pcs, left : 0 .. MaxDelay, n : 0 .. MaxTasks] /\ r.pc = "pushed" /\ r.n = 0
  <2>1. "pushed" \in Pcs /\ 0 \in 0 .. MaxTasks
    BY DEF Pcs, Bounds
  <2> QED
    BY <1>2, <1>3, <2>1
<1>5. th' = [th EXCEPT ![t] = r] /\ th'[t] = r
  BY <1>1, <1>2, <1>3 DEF SInv, STypes
<1>6. \A k \in Pending(t)' : k.n # 0
  <2>1. Pending(t)' = Pending(t)
    BY <1>1 DEF Timer!PushIsLost, Pending
  <2>2. \A k \in Pending(t) : k \in Tasks
    BY DEF SInv, STypes, Due, Pending
  <2> QED
    BY <2>1, <2>2 DEF Tasks
<1>7. Timed(t)'
  BY <1>1, <1>4, <1>5, <1>6 DEF Timed, Timer!Asleep, Timer!At
<1>8. th[t].left \in 0 .. Timer!Never
  BY <1>2, NeverIs DEF Bounds
<1> QED
  BY <1>1, <1>4, <1>5, <1>7, <1>8, LostTask

\* worker_push_in() of usleep(): the new task is the only one with its number.
LEMMA PushStep == ASSUME Bounds, SInv, NEW t \in Sleepers, Timer!Push(t) PROVE SInv'
<1>1. PICK n \in Timer!Numbers(t) :
        /\ delayed' = delayed \cup {[left |-> th[t].left, of |-> t, n |-> n]}
        /\ next_task_time' = Timer!Lowered(th[t].left)
        /\ th' = [th EXCEPT ![t].pc = "pushed", ![t].n = n]
  BY DEF Timer!Push, Timer!worker_push_in
<1>2. UNCHANGED <<uptime, worker, untimed, stray>> /\ th[t].pc = "push"
  BY DEF Timer!Push, Timer!At
<1>3. th[t] \in [pc : Pcs, left : 0 .. MaxDelay, n : 0 .. MaxTasks]
  BY DEF SInv, STypes
<1>4. n \in 1 .. MaxTasks /\ \A j \in delayed \cup {worker.task} : j.of = t => j.n # n
  BY DEF Timer!Numbers
<1>5. PICK k : k = [left |-> th[t].left, of |-> t, n |-> n]
  OBVIOUS
<1>6. k \in Tasks /\ k.of = t /\ k.n = n /\ k.left = th[t].left
  <2>1. th[t].left \in 0 .. Timer!Never
    BY <1>3, NeverIs DEF Bounds
  <2> QED
    BY <1>4, <1>5, <2>1 DEF Tasks
<1>7. PICK r : r = [th[t] EXCEPT !.pc = "pushed", !.n = n]
  OBVIOUS
<1>8. /\ r \in [pc : Pcs, left : 0 .. MaxDelay, n : 0 .. MaxTasks]
      /\ r.pc = "pushed" /\ r.n = n /\ r.left = th[t].left
  <2>1. "pushed" \in Pcs /\ n \in 0 .. MaxTasks
    BY <1>4 DEF Pcs, Bounds
  <2> QED
    BY <1>3, <1>7, <2>1
<1>9. th' = [th EXCEPT ![t] = r] /\ th'[t] = r
  BY <1>1, <1>3, <1>7 DEF SInv, STypes
<1>10. Pending(t)' = Pending(t) \cup {k}
  BY <1>1, <1>2, <1>5, <1>6 DEF Pending
<1>11. \A j \in Pending(t) : j.n # n
  BY <1>4 DEF Pending
<1>12. Timed(t)'
  <2>1. th[t].left <= k.left
    <3>1. th[t].left \in Int
      BY <1>3
    <3> QED
      BY <1>4, <1>6, <3>1
  <2>2. \A j \in Pending(t)' : j.n = n => th[t].left <= j.left
    BY <1>10, <1>11, <2>1
  <2>3. \E j \in Pending(t)' : j.n = n
    BY <1>6, <1>10
  <2> QED
    BY <1>8, <1>9, <2>1, <2>2, <2>3 DEF Timed, Timer!Asleep, Timer!At
<1> QED
  BY <1>1, <1>2, <1>5, <1>6, <1>8, <1>9, <1>12, AddedTask

LEMMA SelectWaitStep == ASSUME Bounds, SInv, NEW t \in Sleepers, Timer!SelectWait(t) PROVE SInv'
<1>1. th' = [th EXCEPT ![t].pc = "select_wait"] /\ UNCHANGED <<uptime, worker, stray>>
  BY DEF Timer!SelectWait, Timer!Goto
<1>2. th[t] \in [pc : Pcs, left : 0 .. MaxDelay, n : 0 .. MaxTasks]
  BY DEF SInv, STypes
<1>3. PICK r : r = [th[t] EXCEPT !.pc = "select_wait"]
  OBVIOUS
<1>4. r \in [pc : Pcs, left : 0 .. MaxDelay, n : 0 .. MaxTasks] /\ r.pc = "select_wait"
  BY <1>2, <1>3 DEF Pcs
<1>5. th' = [th EXCEPT ![t] = r] /\ th'[t] = r
  BY <1>1, <1>2, <1>3 DEF SInv, STypes
<1>6. CASE untimed' = untimed \cup {t} /\ UNCHANGED <<delayed, next_task_time>>
  <2>1. Timed(t)'
    BY <1>4, <1>5, <1>6 DEF Timed, Timer!Asleep, Timer!At
  <2> QED
    BY <1>1, <1>4, <1>5, <1>6, <2>1, ThreadMoves
<1>7. CASE (\E n \in Timer!Numbers(t) : Timer!worker_push_in(t, 0, n)) /\ untimed' = untimed \ {t}
  <2>1. PICK n \in Timer!Numbers(t) : Timer!worker_push_in(t, 0, n)
    BY <1>7
  <2>2. PICK k : k = [left |-> 0, of |-> t, n |-> n]
    OBVIOUS
  <2>3. n \in 1 .. MaxTasks
    BY DEF Timer!Numbers
  <2>4. k \in Tasks /\ k.of = t /\ k.left = 0
    BY <2>2, <2>3, NeverIs DEF Tasks
  <2>5. delayed' = delayed \cup {k} /\ next_task_time' = Timer!Lowered(k.left)
    BY <2>1, <2>2, <2>4 DEF Timer!worker_push_in
  <2>6. k \in Pending(t)'
    BY <2>4, <2>5 DEF Pending
  <2>7. Timed(t)'
    BY <1>4, <1>5, <2>6 DEF Timed, Timer!Asleep, Timer!At
  <2> QED
    BY <1>1, <1>4, <1>5, <1>7, <2>4, <2>5, <2>7, AddedTask
<1>8. CASE Timer!PushIsLost(Timer!TimerLeft(th[t].left)) /\ untimed' = untimed \cup {t}
  <2>1. Timed(t)'
    BY <1>4, <1>5, <1>8 DEF Timed, Timer!Asleep, Timer!At
  <2>2. Timer!TimerLeft(th[t].left) \in 0 .. Timer!Never
    BY NeverIs DEF Timer!TimerLeft
  <2> QED
    BY <1>1, <1>4, <1>5, <1>8, <2>1, <2>2, LostTask
<1> QED
  BY <1>6, <1>7, <1>8 DEF Timer!SelectWait

-----------------------------------------------------------------------------
(* The worker. *)

LEMMA FirstIsLeast ==
  ASSUME Bounds, SInv, delayed # {}
  PROVE  /\ Timer!FirstTasks # {} /\ Timer!NextTime \in 0 .. Timer!Never
         /\ \A k \in Timer!FirstTasks : k \in delayed /\ k.left = Timer!NextTime
         /\ \A k \in delayed : Timer!NextTime <= k.left
<1>1. \A k \in delayed : k \in Tasks /\ k.left \in 0 .. Timer!Never /\ k.left \in Nat
  BY NeverIs DEF SInv, STypes, Tasks
<1>2. PICK T : T = {k.left : k \in delayed}
  OBVIOUS
<1>3. T \in SUBSET Nat /\ T # {}
  BY <1>1, <1>2
<1>4. PICK m \in T : \A x \in T : m <= x
  BY <1>3, LeastNumber
<1>5. PICK j \in delayed : j.left = m
  BY <1>2
<1>6. \A k \in delayed : j.left <= k.left
  BY <1>2, <1>4, <1>5
<1>7. j \in Timer!FirstTasks
  BY <1>6 DEF Timer!FirstTasks
<1>8. \A k \in Timer!FirstTasks : k \in delayed /\ k.left <= j.left
  BY DEF Timer!FirstTasks
<1>9. \A k \in Timer!FirstTasks : k.left = j.left
  BY <1>1, <1>6, <1>8
<1>10. Timer!NextTime = j.left
  <2>1. PICK k : k = CHOOSE x \in Timer!FirstTasks : TRUE
    OBVIOUS
  <2>2. k \in Timer!FirstTasks
    BY <1>7, <2>1
  <2> QED
    BY <1>9, <2>1, <2>2 DEF Timer!NextTime
<1> QED
  BY <1>1, <1>6, <1>7, <1>8, <1>9, <1>10

LEMMA LookStep == ASSUME Bounds, SInv, Timer!Look PROVE SInv'
<1>1. worker.pc = "look" /\ next_task_time' = Timer!NextTime /\ UNCHANGED <<uptime, th, untimed, stray>>
  BY DEF Timer!Look
<1>2. Timer!Never \in Nat /\ Timer!Never # 0
  BY NeverIs DEF Bounds
<1>3. CASE Timer!NextTime = 0
  <2>1. PICK k \in Timer!FirstTasks : delayed' = delayed \ {k} /\ worker' = [pc |-> "run", task |-> k]
    BY <1>3 DEF Timer!Look
  <2>2. delayed # {}
    BY <1>2, <1>3 DEF Timer!NextTime
  <2>3. k \in delayed /\ k.left = 0 /\ k \in Tasks
    BY <1>3, <2>2, FirstIsLeast DEF SInv, STypes
  <2>4. STypes'
    BY <1>1, <1>2, <1>3, <2>1, <2>3 DEF SInv, STypes
  <2>5. Early'
    <3>1. \A j \in delayed : j.left \in Nat
      BY NeverIs DEF SInv, STypes, Tasks
    <3> QED
      BY <1>1, <1>3, <2>1, <3>1 DEF Early
  <2>6. Due'
    BY <2>1, <2>3 DEF Due
  <2>7. ASSUME NEW u \in Sleepers PROVE Timed(u)'
    <3>1. Pending(u)' = Pending(u)
      BY <1>1, <2>1, <2>3 DEF Pending
    <3> QED
      BY <1>1, <3>1, NotConcerned DEF SInv
  <2> QED
    BY <2>4, <2>5, <2>6, <2>7 DEF SInv
<1>4. CASE Timer!NextTime # 0
  <2>1. delayed' = delayed /\ worker' = [pc |-> "wait", task |-> Timer!None]
    BY <1>4 DEF Timer!Look
  <2>2. Timer!NextTime \in 0 .. Timer!Never /\ \A k \in delayed : Timer!NextTime <= k.left
    <3>1. CASE delayed = {}
      BY <1>2, <3>1 DEF Timer!NextTime
    <3> QED
      BY <3>1, FirstIsLeast
  <2>3. STypes'
    BY <1>1, <2>1, <2>2 DEF SInv, STypes
  <2>4. Early' /\ Due'
    BY <1>1, <2>1, <2>2 DEF Early, Due
  <2>5. ASSUME NEW u \in Sleepers PROVE Timed(u)'
    <3>1. Pending(u)' = Pending(u)
      BY <1>1, <2>1 DEF Pending
    <3> QED
      BY <1>1, <3>1, NotConcerned DEF SInv
  <2> QED
    BY <2>3, <2>4, <2>5 DEF SInv
<1> QED
  BY <1>3, <1>4

LEMMA WorkerSleepsStep == ASSUME SInv, Timer!WorkerSleeps PROVE SInv'
<1>1. /\ worker.pc = "wait" /\ worker' = [worker EXCEPT !.pc = "asleep"]
      /\ UNCHANGED <<uptime, delayed, next_task_time, th, untimed, stray>>
  BY DEF Timer!WorkerSleeps
<1>2. worker'.pc = "asleep"
  BY <1>1 DEF SInv, STypes
<1>3. STypes' /\ Early' /\ Due'
  BY <1>1, <1>2 DEF SInv, STypes, Early, Due
<1>4. ASSUME NEW u \in Sleepers PROVE Timed(u)'
  <2>1. Pending(u)' = Pending(u)
    BY <1>1, <1>2 DEF Pending
  <2> QED
    BY <1>1, <2>1, NotConcerned DEF SInv
<1> QED
  BY <1>3, <1>4 DEF SInv

LEMMA RunStep == ASSUME Bounds, SInv, Timer!Run PROVE SInv'
<1>1. PICK k : k = worker.task
  OBVIOUS
<1>2. PICK t : t = k.of
  OBVIOUS
<1>3. /\ worker.pc = "run" /\ worker' = [pc |-> "look", task |-> Timer!None]
      /\ IF Timer!Asleep(t) THEN Timer!Goto(t, Timer!Resumed(t)) ELSE th' = th
      /\ untimed' = IF Timer!At(t, "pushed") /\ k.n = th[t].n THEN untimed \cup {t} ELSE untimed
      /\ stray' = IF Timer!At(t, "usleep") /\ k.n # th[t].n THEN stray \cup {t} ELSE stray
      /\ UNCHANGED <<uptime, delayed, next_task_time>>
  BY <1>1, <1>2 DEF Timer!Run
<1>4. k \in Tasks /\ k.left = 0 /\ t \in Sleepers
  BY <1>1, <1>2, <1>3 DEF SInv, Due, Tasks
<1>5. th[t] \in [pc : Pcs, left : 0 .. MaxDelay, n : 0 .. MaxTasks]
  BY <1>4 DEF SInv, STypes
<1>6. PICK r : r = IF Timer!Asleep(t) THEN [th[t] EXCEPT !.pc = Timer!Resumed(t)] ELSE th[t]
  OBVIOUS
<1>7. /\ r \in [pc : Pcs, left : 0 .. MaxDelay, n : 0 .. MaxTasks]
      /\ r.left = th[t].left /\ r.n = th[t].n
      /\ r.pc = IF th[t].pc = "usleep" THEN "slept"
                ELSE IF th[t].pc = "select_wait" THEN "select" ELSE th[t].pc
  BY <1>5, <1>6 DEF Timer!Asleep, Timer!Resumed, Timer!At, Pcs
<1>8. th' = [th EXCEPT ![t] = r] /\ th'[t] = r
  BY <1>3, <1>4, <1>5, <1>6 DEF Timer!Goto, SInv, STypes
<1>9. STypes'
  BY <1>3, <1>4, <1>7, <1>8 DEF SInv, STypes
<1>10. Early' /\ Due'
  BY <1>3 DEF SInv, Early, Due
<1>11. ASSUME NEW u \in Sleepers, u # t PROVE Timed(u)'
  <2>1. th'[u] = th[u]
    BY <1>8, <1>11 DEF SInv, STypes
  <2>2. Pending(u)' = Pending(u)
    BY <1>1, <1>2, <1>3, <1>11 DEF Pending
  <2>3. (u \in untimed' <=> u \in untimed) /\ (u \in stray' <=> u \in stray)
    BY <1>3, <1>11
  <2> QED
    BY <2>1, <2>2, <2>3, NotConcerned DEF SInv
<1>12. Timed(t)'
  <2>1. Timed(t)
    BY <1>4 DEF SInv
  <2>2. Pending(t) = Pending(t)' \cup {k} /\ Pending(t)' \subseteq Pending(t)
    BY <1>1, <1>2, <1>3 DEF Pending
  <2>3. CASE th[t].pc = "usleep"
    <3>1. t \notin stray' => k.n = th[t].n
      BY <1>3, <2>3 DEF Timer!At
    <3>2. k.n = th[t].n => th[t].left <= 0
      BY <1>4, <2>1, <2>2, <2>3 DEF Timed
    <3>3. th[t].left <= 0 => th[t].left = 0
      BY <1>5
    <3> QED
      BY <1>7, <1>8, <2>3, <3>1, <3>2, <3>3 DEF Timed, Timer!Asleep, Timer!At
  <2>4. CASE th[t].pc = "select_wait"
    BY <1>7, <1>8, <2>4 DEF Timed, Timer!Asleep, Timer!At
  <2>5. CASE th[t].pc = "pushed"
    <3>1. t \notin untimed' => t \notin untimed /\ k.n # th[t].n
      BY <1>3, <2>5 DEF Timer!At
    <3>2. t \notin untimed' => \E j \in Pending(t)' : j.n = th[t].n
      BY <2>1, <2>2, <2>5, <3>1 DEF Timed, Timer!At
    <3>3. \A j \in Pending(t)' : j.n = th[t].n => th[t].left <= j.left
      BY <2>1, <2>2, <2>5 DEF Timed
    <3> QED
      BY <1>7, <1>8, <2>5, <3>2, <3>3 DEF Timed, Timer!Asleep, Timer!At
  <2>6. CASE th[t].pc \notin {"usleep", "select_wait", "pushed"}
    <3>1. t \in stray' <=> t \in stray
      BY <1>3, <2>6 DEF Timer!At
    <3> QED
      BY <1>7, <1>8, <2>1, <2>6, <3>1 DEF Timed, Timer!Asleep, Timer!At
  <2> QED
    BY <2>3, <2>4, <2>5, <2>6
<1> QED
  BY <1>9, <1>10, <1>11, <1>12 DEF SInv

\* One tick brings all tasks but those that are never due closer by one.
LEMMA TickStep == ASSUME Bounds, SInv, Timer!Tick PROVE SInv'
<1>1. /\ uptime' = Timer!Least(uptime + 1, MaxDelay)
      /\ delayed' = {[k EXCEPT !.left = Timer!Sooner(@)] : k \in delayed}
      /\ next_task_time' = Timer!Sooner(next_task_time)
      /\ worker' \in {worker, [worker EXCEPT !.pc = "look"]}
      /\ worker' # worker => worker.pc = "asleep"
      /\ th' = [t \in Sleepers |-> [th[t] EXCEPT !.left = IF @ = 0 THEN 0 ELSE @ - 1]]
      /\ UNCHANGED <<untimed, stray>>
  BY DEF Timer!Tick, Timer!WakesWorker
<1>2. Timer!Never \in Nat /\ Timer!Never = MaxDelay + 1 /\ MaxDelay \in Nat
  BY NeverIs DEF Bounds
<1>3. ASSUME NEW x \in 0 .. Timer!Never
      PROVE  /\ Timer!Sooner(x) \in 0 .. Timer!Never
             /\ Timer!Sooner(x) = IF x = 0 \/ x = Timer!Never THEN x ELSE x - 1
  BY <1>2 DEF Timer!Sooner
<1>4. ASSUME NEW x \in 0 .. Timer!Never, NEW y \in 0 .. Timer!Never, x <= y
      PROVE  Timer!Sooner(x) <= Timer!Sooner(y)
  BY <1>2, <1>3, <1>4
<1>5. ASSUME NEW k \in Tasks
      PROVE  LET j == [k EXCEPT !.left = Timer!Sooner(@)] IN
             /\ j \in Tasks /\ j.of = k.of /\ j.n = k.n /\ j.left = Timer!Sooner(k.left)
  <2>1. k.left \in 0 .. Timer!Never /\ Timer!Sooner(k.left) \in 0 .. Timer!Never
    BY <1>3 DEF Tasks
  <2> QED
    BY <2>1 DEF Tasks
<1>6. delayed \subseteq Tasks /\ next_task_time \in 0 .. Timer!Never
  BY DEF SInv, STypes
<1>7. ASSUME NEW t \in Sleepers
      PROVE  /\ th[t] \in [pc : Pcs, left : 0 .. MaxDelay, n : 0 .. MaxTasks]
             /\ th'[t] \in [pc : Pcs, left : 0 .. MaxDelay, n : 0 .. MaxTasks]
             /\ th'[t].pc = th[t].pc /\ th'[t].n = th[t].n
             /\ th'[t].left = IF th[t].left = 0 THEN 0 ELSE th[t].left - 1
  <2>1. th[t] \in [pc : Pcs, left : 0 .. MaxDelay, n : 0 .. MaxTasks]
    BY DEF SInv, STypes
  <2>2. PICK l : l = IF th[t].left = 0 THEN 0 ELSE th[t].left - 1
    OBVIOUS
  <2>3. l \in 0 .. MaxDelay
    BY <1>2, <2>1, <2>2
  <2>4. th'[t] = [th[t] EXCEPT !.left = l]
    BY <1>1, <2>2
  <2> QED
    BY <2>1, <2>2, <2>3, <2>4
<1>8. worker \in [pc : {"look", "run", "wait", "asleep"}, task : Tasks \cup {Timer!None}]
  BY DEF SInv, STypes
<1>9. /\ worker' \in [pc : {"look", "run", "wait", "asleep"}, task : Tasks \cup {Timer!None}]
      /\ worker'.task = worker.task /\ (worker'.pc = "run" <=> worker.pc = "run")
  BY <1>1, <1>8
<1>10. STypes'
  <2>1. uptime' \in 0 .. MaxDelay
    <3>1. uptime \in 0 .. MaxDelay
      BY DEF SInv, STypes
    <3> QED
      BY <1>1, <1>2, <3>1 DEF Timer!Least
  <2>2. delayed' \in SUBSET Tasks
    BY <1>1, <1>5, <1>6
  <2>3. next_task_time' \in 0 .. Timer!Never
    BY <1>1, <1>3, <1>6
  <2>4. th' \in [Sleepers -> [pc : Pcs, left : 0 .. MaxDelay, n : 0 .. MaxTasks]]
    <3>1. th' = [t \in Sleepers |-> th'[t]]
      BY <1>1
    <3> QED
      BY <1>7, <3>1
  <2> QED
    BY <1>9, <2>1, <2>2, <2>3, <2>4 DEF STypes
<1>11. Early'
  <2> SUFFICES ASSUME NEW j \in delayed' PROVE next_task_time' <= j.left
    BY DEF Early
  <2>1. PICK k \in delayed : j = [k EXCEPT !.left = Timer!Sooner(@)]
    BY <1>1
  <2>2. k \in Tasks /\ next_task_time <= k.left /\ k.left \in 0 .. Timer!Never
    BY <1>6 DEF SInv, Early, Tasks
  <2>3. j.left = Timer!Sooner(k.left)
    BY <1>5, <2>1, <2>2
  <2>4. Timer!Sooner(next_task_time) <= Timer!Sooner(k.left)
    BY <1>4, <1>6, <2>2
  <2> QED
    BY <1>1, <2>3, <2>4
<1>12. Due'
  BY <1>9 DEF SInv, Due
<1>13. ASSUME NEW t \in Sleepers PROVE Timed(t)'
  <2>1. Timed(t) /\ Due
    BY DEF SInv
  <2>2. \* Each task has a successor and comes from one, at most one tick earlier.
        /\ \A k \in Pending(t) : \E j \in Pending(t)' : j.n = k.n
        /\ \A j \in Pending(t)' : \E k \in Pending(t) :
             /\ j.n = k.n /\ k.left \in 0 .. Timer!Never
             /\ j.left = Timer!Sooner(k.left)
    <3>1. ASSUME NEW k \in Pending(t) PROVE \E j \in Pending(t)' : j.n = k.n
      <4>1. CASE k \in delayed
        <5>1. PICK j : j = [k EXCEPT !.left = Timer!Sooner(@)]
          OBVIOUS
        <5>2. j \in delayed' /\ j.of = k.of /\ j.n = k.n
          BY <1>1, <1>5, <1>6, <4>1, <5>1
        <5> QED
          BY <5>2 DEF Pending
      <4>2. CASE worker.pc = "run" /\ k = worker.task
        BY <1>9, <4>2 DEF Pending
      <4> QED
        BY <4>1, <4>2 DEF Pending
    <3>2. ASSUME NEW j \in Pending(t)'
          PROVE  \E k \in Pending(t) :
                   j.n = k.n /\ k.left \in 0 .. Timer!Never /\ j.left = Timer!Sooner(k.left)
      <4>1. CASE j \in delayed'
        <5>1. PICK k \in delayed : j = [k EXCEPT !.left = Timer!Sooner(@)]
          BY <1>1, <4>1
        <5>2. j.of = k.of /\ j.n = k.n /\ j.left = Timer!Sooner(k.left) /\ k.left \in 0 .. Timer!Never
          BY <1>5, <1>6, <5>1 DEF Tasks
        <5> QED
          BY <5>1, <5>2 DEF Pending
      <4>2. CASE worker'.pc = "run" /\ j = worker'.task
        <5>1. j = worker.task /\ worker.pc = "run" /\ j.left = 0
          BY <1>9, <2>1, <4>2 DEF Due
        <5>2. Timer!Sooner(0) = 0 /\ 0 \in 0 .. Timer!Never
          BY <1>2, <1>3
        <5> QED
          BY <5>1, <5>2 DEF Pending
      <4> QED
        BY <4>1, <4>2 DEF Pending
    <3> QED
      BY <3>1, <3>2
  <2>3. th'[t].pc = th[t].pc /\ th'[t].n = th[t].n
    BY <1>7
  <2>4. Timer!Asleep(t)' /\ t \notin untimed' => Pending(t)' # {}
    BY <1>1, <2>1, <2>2, <2>3 DEF Timed, Timer!Asleep
  <2>5. Timer!At(t, "pushed")' /\ t \notin untimed' => \E k \in Pending(t)' : k.n = th'[t].n
    BY <1>1, <2>1, <2>2, <2>3 DEF Timed, Timer!At
  <2>6. ASSUME th'[t].pc \in {"pushed", "usleep"}, NEW j \in Pending(t)', j.n = th'[t].n
        PROVE  th'[t].left <= j.left
    <3>1. PICK k \in Pending(t) : j.n = k.n /\ k.left \in 0 .. Timer!Never /\ j.left = Timer!Sooner(k.left)
      BY <2>2
    <3>2. th[t].left <= k.left
      BY <2>1, <2>3, <2>6, <3>1 DEF Timed
    <3>3. th[t].left \in 0 .. MaxDelay
      BY <1>7
    <3>4. PICK x \in Nat, y \in Nat : x = th[t].left /\ y = k.left /\ x <= y /\ x <= MaxDelay
      BY <1>2, <3>1, <3>2, <3>3
    <3>5. th'[t].left = IF x = 0 THEN 0 ELSE x - 1
      BY <1>7, <3>4
    <3>6. j.left = IF y = 0 \/ y = Timer!Never THEN y ELSE y - 1
      BY <1>3, <3>1, <3>4
    <3> QED
      BY <1>2, <3>4, <3>5, <3>6
  <2>7. Timer!At(t, "slept")' /\ t \notin stray' => th'[t].left = 0
    BY <1>1, <1>7, <2>1, <2>3 DEF Timed, Timer!At
  <2> QED
    BY <2>4, <2>5, <2>6, <2>7 DEF Timed
<1> QED
  BY <1>10, <1>11, <1>12, <1>13 DEF SInv

-----------------------------------------------------------------------------
LEMMA SStutters == ASSUME SInv, UNCHANGED Timer!vars PROVE SInv'
BY DEF Timer!vars, SInv, STypes, Early, Due, Timed, Pending, Timer!Asleep, Timer!At

LEMMA SNextKeeps == ASSUME Bounds, SInv, Timer!Next PROVE SInv'
<1>1. ASSUME NEW t \in Sleepers, Timer!ThreadStep(t) PROVE SInv'
  BY <1>1, PushStep, PushLostStep, AwakeStep, WaitStep, SelectWaitStep DEF Timer!ThreadStep
<1>2. ASSUME NEW t \in Sleepers, Timer!usleep(t) \/ Timer!select_sc(t) \/ Timer!Arrive(t) PROVE SInv'
  BY <1>2, BeginStep, ArriveStep DEF Timer!usleep, Timer!select_sc
<1>3. CASE Timer!Tick \/ Timer!Look \/ Timer!Run \/ Timer!WorkerSleeps
  BY <1>3, TickStep, LookStep, RunStep, WorkerSleepsStep
<1> QED
  BY <1>1, <1>2, <1>3 DEF Timer!Next

\* Who sleeps in usleep() or with a timeout in select() has a timer under way, for
\* which the clock will resume the worker, and usleep() lasts as long as it was
\* asked to; whatever the number of threads and the length of their delays.  The
\* threads whose timer the code loses, and those that a timer of an earlier call
\* resumes, are named by untimed and stray.
THEOREM TimersAreKept ==
  ASSUME Bounds
  PROVE  Timer!Init /\ [][Timer!Next]_(Timer!vars) => []Timer!SleepExact
<1>1. Timer!Init => SInv
  BY SInitially
<1>2. SInv /\ [Timer!Next]_(Timer!vars) => SInv'
  BY SNextKeeps, SStutters
<1>3. ASSUME Bounds, SInv PROVE Timer!SleepExact
  <2>1. ASSUME NEW t \in Sleepers, Timer!Asleep(t), t \notin untimed
        PROVE  \E k \in delayed \cup {worker.task} : k.of = t
    BY <1>3, <2>1 DEF SInv, Timed, Pending
  <2>2. \A t \in Sleepers : Timer!At(t, "slept") /\ t \notin stray => th[t].left = 0
    BY <1>3 DEF SInv, Timed
  <2> QED
    BY <1>3, <2>1, <2>2 DEF Timer!SleepExact, Timer!TimerUnderWay, Timer!SleepIsLong, SInv, Early
<1> QED
  BY <1>1, <1>2, <1>3, PTL

(***************************************************************************)
(* The same of module Timers, when a behaviour exercises it: sleepers have *)
(* timers that the worker carries out (worker.c), and not too early.       *)
(***************************************************************************)
THEOREM SleepersWake == TimersSpec => []SleepExact
<1>1. which = "timer" /\ [TimersNext]_<<which, timer_vars>> => (which = "timer")'
  BY DEF TimersNext
<1>2. TimersInit => Timer!Init /\ which = "timer"
  BY DEF TimersInit
<1>3. [TimersNext]_<<which, timer_vars>> => [Timer!Next]_(Timer!vars)
  BY DEF TimersNext, timer_vars, Timer!vars
<1>4. Timer!Init /\ [][Timer!Next]_(Timer!vars) => []Timer!SleepExact
  BY TimersAreKept, TimersAssumption DEF Bounds
<1> QED
  BY <1>1, <1>2, <1>3, <1>4, PTL DEF TimersSpec, SleepExact
=============================================================================
