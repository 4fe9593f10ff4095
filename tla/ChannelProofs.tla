---------------------------- MODULE ChannelProofs ----------------------------
(***************************************************************************)
(* Proofs about module Channel, for buffers of any size, any number of     *)
(* readers and writers and any lengths of their requests: the circular     *)
(* buffer holds the stream, no wakeup is lost, and the channel implements  *)
(* a pipe.  The other parts are about devices: V86 and Ide, whose callers  *)
(* sleep until they are resumed, Framebuffer, and Input.                   *)
(*                                                                         *)
(* The inductive invariant is Inv.  RingHoldsStream is not inductive alone *)
(* because a round first copies and then moves the indices: CopiesStand    *)
(* says what is true in between, and LockExcludes that only one thread can *)
(* be there.                                                               *)
(***************************************************************************)
EXTENDS Channel, Devices, FiniteSetTheorems, SequenceTheorems, TLAPS

Inv ==
  /\ TypeOK
  /\ LockExcludes
  /\ RingHoldsStream
  /\ CopiesStand

-----------------------------------------------------------------------------
(***************************************************************************)
(* The index arithmetic of the circular buffer.                            *)
(***************************************************************************)

\* A remainder by the buffer's size is one subtraction at most for the sums that
\* channel_read() computes.
LEMMA ModuloWraps ==
  ASSUME NEW n \in Nat \ {0}, NEW x \in Nat, x < 2 * n
  PROVE  x % n = IF x < n THEN x ELSE x - n
<1>1. CASE x < n
  BY <1>1, SMT
<1>2. CASE n <= x
  BY <1>2, SMT
<1> QED
  BY <1>1, <1>2

\* channel_write() copies into the slots behind those in use and leaves these
\* alone.
LEMMA FilledSlots ==
  ASSUME TypeOK, NEW n \in 1 .. N - buf_used
  PROVE  /\ Filled(n) \in [0 .. N - 1 -> Int]
         /\ \A i \in 0 .. buf_used - 1 : Filled(n)[Slot(i)] = buf[Slot(i)]
         /\ \A i \in buf_used .. buf_used + n - 1 :
              Filled(n)[Slot(i)] = sent + i - buf_used
<1>0. /\ N \in Nat \ {0}
      /\ buf \in [0 .. N - 1 -> Int] /\ DOMAIN buf = 0 .. N - 1
      /\ buf_use_begin \in 0 .. N - 1
      /\ buf_used \in 0 .. N
      /\ sent \in Nat
  BY ChannelAssumption DEF TypeOK, N
<1> DEFINE end  == buf_use_begin + buf_used
           len0 == IF end + n > N THEN N - end ELSE n
<1>1. CASE end >= N
  <2>1. Filled(n) = [k \in 0 .. N - 1 |-> IF k \in end - N .. end - N + n - 1
                                          THEN sent + k - (end - N) ELSE buf[k]]
    BY <1>0, <1>1 DEF Filled, memcpy
  <2> QED
    BY <1>0, <1>1, <2>1 DEF Slot
<1>2. CASE end < N
  <2> DEFINE b0 == [k \in 0 .. N - 1 |-> IF k \in end .. end + len0 - 1
                                         THEN sent + k - end ELSE buf[k]]
  <2>1. Filled(n) = [k \in 0 .. N - 1 |-> IF k \in 0 .. 0 + (n - len0) - 1
                                          THEN sent + len0 + k - 0 ELSE b0[k]]
    BY <1>0, <1>2 DEF Filled, memcpy
  <2>2. len0 \in 0 .. n
    BY <1>0, <1>2
  <2>3. b0 \in [0 .. N - 1 -> Int]
    BY <1>0, <2>2
  <2>4. Filled(n) \in [0 .. N - 1 -> Int]
    BY <1>0, <2>1, <2>2, <2>3
  <2>5. ASSUME NEW i \in 0 .. buf_used - 1
        PROVE  Filled(n)[Slot(i)] = buf[Slot(i)]
    <3>1. Slot(i) \in 0 .. N - 1 /\ Slot(i) < end /\ Slot(i) >= buf_use_begin
      BY <1>0, <1>2, <2>5 DEF Slot
    <3>2. Slot(i) \notin 0 .. (n - len0) - 1
      BY <1>0, <1>2, <3>1
    <3>3. Slot(i) \notin end .. end + len0 - 1
      BY <1>0, <2>2, <3>1
    <3>4. b0[Slot(i)] = buf[Slot(i)]
      BY <3>1, <3>3
    <3>5. Filled(n)[Slot(i)] = b0[Slot(i)]
      <4>1. Slot(i) \notin 0 .. 0 + (n - len0) - 1
        BY <1>0, <2>2, <3>2
      <4> HIDE DEF b0, len0
      <4> QED
        BY <2>1, <3>1, <4>1
    <3> QED
      BY <3>4, <3>5
  <2>6. ASSUME NEW i \in buf_used .. buf_used + n - 1
        PROVE  Filled(n)[Slot(i)] = sent + i - buf_used
    <3>1. CASE i - buf_used < len0
      <4>1. Slot(i) = buf_use_begin + i /\ Slot(i) \in 0 .. N - 1
        BY <1>0, <1>2, <2>6, <3>1 DEF Slot
      <4>2. Slot(i) \in end .. end + len0 - 1
        BY <1>0, <2>6, <3>1, <4>1
      <4>3. Slot(i) \notin 0 .. 0 + (n - len0) - 1
        BY <1>0, <1>2, <2>6, <4>1
      <4>4. Filled(n)[Slot(i)] = b0[Slot(i)]
        BY <2>1, <4>1, <4>3
      <4>5. b0[Slot(i)] = sent + Slot(i) - end
        BY <4>1, <4>2
      <4> QED
        BY <1>0, <2>6, <4>1, <4>4, <4>5
    <3>2. CASE i - buf_used >= len0
      <4>1. Slot(i) = buf_use_begin + i - N /\ Slot(i) \in 0 .. N - 1
        BY <1>0, <1>2, <2>6, <3>2 DEF Slot
      <4>2. Slot(i) \in 0 .. 0 + (n - len0) - 1 /\ len0 = N - end
        BY <1>0, <1>2, <2>6, <3>2, <4>1
      <4>3. Filled(n)[Slot(i)] = sent + len0 + Slot(i) - 0
        BY <2>1, <4>1, <4>2
      <4> QED
        BY <1>0, <2>6, <4>1, <4>2, <4>3
    <3> QED
      BY <1>0, <2>2, <2>6, <3>1, <3>2
  <2> QED
    BY <2>4, <2>5, <2>6
<1> QED
  BY <1>0, <1>1, <1>2

\* channel_read() copies out the oldest bytes of the stream, in order.
LEMMA TakenBytes ==
  ASSUME TypeOK, RingHoldsStream, NEW n \in 1 .. buf_used
  PROVE  Taken(n) = [j \in 1 .. n |-> Len(received) + j - 1]
<1>0. /\ N \in Nat \ {0}
      /\ buf_use_begin \in 0 .. N - 1
      /\ buf_used \in 0 .. N
      /\ Len(received) \in Nat
  BY ChannelAssumption DEF TypeOK, N
<1> DEFINE len0 == IF buf_use_begin + n > N THEN N - buf_use_begin ELSE n
<1>1. ASSUME NEW j \in 1 .. n
      PROVE  (IF j <= len0 THEN buf[buf_use_begin + j - 1]
              ELSE buf[j - len0 - 1]) = Len(received) + j - 1
  <2>1. buf[Slot(j - 1)] = Len(received) + (j - 1)
    BY <1>0, <1>1 DEF RingHoldsStream
  <2>2. Slot(j - 1) = IF j <= len0 THEN buf_use_begin + j - 1 ELSE j - len0 - 1
    BY <1>0, <1>1 DEF Slot
  <2> QED
    BY <1>0, <2>1, <2>2
<1> QED
  BY <1>1 DEF Taken

\* After channel_read() the i-th slot in use is the one that was n places on.
LEMMA BeginMoves ==
  ASSUME TypeOK, NEW n \in 1 .. buf_used
  PROVE  /\ BeginAfter(n) \in 0 .. N - 1
         /\ \A i \in 0 .. buf_used - n - 1 :
              Slot(i + n) = IF BeginAfter(n) + i < N THEN BeginAfter(n) + i
                            ELSE BeginAfter(n) + i - N
<1>0. /\ N \in Nat \ {0}
      /\ buf_use_begin \in 0 .. N - 1
      /\ buf_used \in 0 .. N
  BY ChannelAssumption DEF TypeOK, N
<1>1. CASE buf_used = n
  BY <1>0, <1>1 DEF BeginAfter
<1>2. CASE buf_used # n
  <2>1. BeginAfter(n) = IF buf_use_begin + n < N THEN buf_use_begin + n
                        ELSE buf_use_begin + n - N
    <3>1. buf_use_begin + n \in Nat /\ buf_use_begin + n < 2 * N
      BY <1>0
    <3>2. BeginAfter(n) = (buf_use_begin + n) % N
      BY <1>2 DEF BeginAfter
    <3>3. PICK x \in Nat : x = buf_use_begin + n
      BY <3>1
    <3>4. x % N = IF x < N THEN x ELSE x - N
      BY <1>0, <3>1, <3>3, ModuloWraps
    <3>5. BeginAfter(n) = x % N
      BY <3>2, <3>3
    <3>6. BeginAfter(n) = IF x < N THEN x ELSE x - N
      BY <3>4, <3>5, Zenon
    <3> QED
      BY <1>0, <3>3, <3>6
  <2> QED
    BY <1>0, <1>2, <2>1 DEF Slot
<1> QED
  BY <1>1, <1>2

-----------------------------------------------------------------------------
(***************************************************************************)
(* Facts shared by the steps.                                              *)
(***************************************************************************)

\* The named facts about the constants.
LEMMA Constants ==
  /\ N \in Nat \ {0}
  /\ Readers \cap Writers = {}
  /\ Threads = Readers \cup Writers
BY ChannelAssumption DEF N, Threads

\* A step that moves neither the buffer nor the stream, and brings no thread to
\* the point after its memcpy()s, keeps the ring and the copies.
LEMMA QuietStep ==
  ASSUME Inv,
         UNCHANGED <<buf, buf_use_begin, buf_used, len, got, sent, received>>,
         \A s \in Threads : pc'[s] = "commit" =>
           pc[s] = "commit" /\ req'[s] = req[s] /\ ret'[s] = ret[s]
  PROVE  RingHoldsStream' /\ CopiesStand'
<1>1. RingHoldsStream'
  BY DEF Inv, RingHoldsStream, Slot
<1>2. CopiesStand'
  BY DEF Inv, CopiesStand, Slot
<1> QED
  BY <1>1, <1>2

\* A step in which no thread enters or leaves the section of c->lock.
LEMMA SameSection ==
  ASSUME LockExcludes, lock' = lock,
         \A s \in Threads : Inside(s)' <=> Inside(s)
  PROVE  LockExcludes'
BY DEF LockExcludes

\* A step in which the thread inside the section leaves it and nobody enters.
LEMMA LeavesSection ==
  ASSUME LockExcludes, lock' = FALSE,
         NEW t \in Threads, Inside(t), ~ Inside(t)',
         \A s \in Threads : Inside(s)' => Inside(s)
  PROVE  LockExcludes'
BY DEF LockExcludes

\* When a thread is inside the section no other is past its memcpy()s.
LEMMA AloneInside ==
  ASSUME LockExcludes, NEW t \in Threads, Inside(t)
  PROVE  \A s \in Threads \ {t} : pc[s] # "commit" /\ pc[s] # "copy"
BY DEF LockExcludes, Inside

\* What a round may copy, when it is not nothing.
LEMMA LengthBound ==
  ASSUME TypeOK, NEW t \in Threads, Length(t) > 0
  PROVE  /\ Length(t) \in 1 .. req[t] - ret[t]
         /\ t \in Readers => Length(t) \in 1 .. buf_used
         /\ t \notin Readers => Length(t) \in 1 .. N - buf_used
BY Constants DEF TypeOK, Length, Min

-----------------------------------------------------------------------------
(***************************************************************************)
(* The invariant.                                                          *)
(***************************************************************************)

\* The channel that make_channel() creates satisfies the invariant.
LEMMA InitInv == Init => Inv
<1> SUFFICES ASSUME Init PROVE Inv
  OBVIOUS
<1>1. TypeOK
  <2>1. blocking \in [Sides -> Modes]
    BY DEF Init
  <2>2. got \in [Readers -> Seq(Int)] /\ received \in Seq(Int)
    BY DEF Init
  <2>3. buf \in [0 .. N - 1 -> Int] /\ buf_use_begin \in 0 .. N - 1
        /\ buf_used \in 0 .. N
    BY Constants DEF Init
  <2>4. pc \in [Threads -> PCs]
    BY DEF Init, PCs
  <2> QED
    BY <2>1, <2>2, <2>3, <2>4 DEF Init, TypeOK
<1>2. LockExcludes
  BY DEF Init, LockExcludes, Inside
<1>3. RingHoldsStream
  BY DEF Init, RingHoldsStream
<1>4. CopiesStand
  BY DEF Init, CopiesStand
<1> QED
  BY <1>1, <1>2, <1>3, <1>4 DEF Inv

\* A call of read() or write() begins.
LEMMA CallInv ==
  ASSUME Inv, NEW t \in Threads, NEW n \in Reqs, Call(t, n)
  PROVE  Inv'
<1>0. n \in Nat
  BY ChannelAssumption
<1>1. TypeOK'
  BY <1>0 DEF Inv, TypeOK, Call, PCs
<1>2. LockExcludes'
  BY SameSection DEF Inv, TypeOK, Call, Inside
<1>3. RingHoldsStream' /\ CopiesStand'
  BY QuietStep DEF Inv, TypeOK, Call
<1> QED
  BY <1>1, <1>2, <1>3 DEF Inv

\* A thread takes c->lock.
LEMMA LockInv ==
  ASSUME Inv, NEW t \in Threads, Lock(t)
  PROVE  Inv'
<1>1. TypeOK'
  BY DEF Inv, TypeOK, Lock, PCs
<1>2. LockExcludes'
  <2>1. \A s \in Threads : ~ Inside(s)
    BY DEF Inv, LockExcludes, Lock
  <2>2. \A s \in Threads : Inside(s)' <=> s = t
    BY <2>1 DEF Inv, TypeOK, Lock, Inside
  <2> QED
    BY <2>2 DEF LockExcludes, Lock
<1>3. RingHoldsStream' /\ CopiesStand'
  BY QuietStep DEF Inv, TypeOK, Lock
<1> QED
  BY <1>1, <1>2, <1>3 DEF Inv

\* A round copies nothing and unlocks, to sleep or not.
LEMMA NothingInv ==
  ASSUME Inv, NEW t \in Threads, Sleep(t) \/ GiveUp(t)
  PROVE  Inv'
<1>0. /\ pc[t] = "copy"
      /\ \/ pc' = [pc EXCEPT ![t] = "asleep"]
         \/ pc' = [pc EXCEPT ![t] = "test"]
      /\ lock' = FALSE
      /\ UNCHANGED <<buf, buf_use_begin, buf_used, blocking, req, ret, len, got,
                     must_exit, sent, received>>
  BY DEF Sleep, GiveUp, Nothing
<1>1. TypeOK'
  BY <1>0 DEF Inv, TypeOK, PCs
<1>2. LockExcludes'
  BY <1>0, LeavesSection DEF Inv, TypeOK, Inside
<1>3. RingHoldsStream' /\ CopiesStand'
  BY <1>0, QuietStep DEF Inv, TypeOK
<1> QED
  BY <1>1, <1>2, <1>3 DEF Inv

\* The steps outside the section: the loop's test, and the killing of threads.
LEMMA OutsideInv ==
  ASSUME Inv, NEW t \in Threads,
         LoopTest(t) \/ kill_thread(t) \/ KillResume(t) \/ maybe_exit(t)
  PROVE  Inv'
<1>0. /\ \E v \in {"lock", "idle", "exited", "test"} :
           pc' = pc \/ (~ Inside(t) /\ pc' = [pc EXCEPT ![t] = v])
      /\ must_exit' \in SUBSET Killable
      /\ UNCHANGED <<buf, buf_use_begin, buf_used, lock, blocking, req, ret, len,
                     got, sent, received>>
  BY DEF LoopTest, kill_thread, KillResume, maybe_exit, Inside, Inv, TypeOK
<1>1. TypeOK'
  BY <1>0 DEF Inv, TypeOK, PCs
<1>2. LockExcludes'
  BY <1>0, SameSection DEF Inv, TypeOK, Inside
<1>3. RingHoldsStream' /\ CopiesStand'
  BY <1>0, QuietStep DEF Inv, TypeOK
<1> QED
  BY <1>1, <1>2, <1>3 DEF Inv

\* A handle's mode changes.
LEMMA FctlInv ==
  ASSUME Inv, NEW h \in Sides, NEW b \in Modes, fctl(h, b)
  PROVE  Inv'
<1>1. TypeOK'
  BY DEF Inv, TypeOK, fctl
<1>2. LockExcludes'
  BY SameSection DEF Inv, fctl, Inside
<1>3. RingHoldsStream' /\ CopiesStand'
  BY QuietStep DEF Inv, fctl
<1> QED
  BY <1>1, <1>2, <1>3 DEF Inv

\* channel_read() has copied bytes out.
LEMMA ReadCopyInv ==
  ASSUME Inv, NEW t \in Threads, ReadCopy(t)
  PROVE  Inv'
<1> DEFINE n == Length(t)
<1>0. /\ t \in Readers
      /\ n \in 1 .. req[t] - ret[t]
      /\ n \in 1 .. buf_used
  BY LengthBound DEF Inv, ReadCopy
<1>1. Taken(n) = [j \in 1 .. n |-> Len(received) + j - 1]
  BY <1>0, TakenBytes DEF Inv
<1>2. Taken(n) \in Seq(Int)
  <2>1. n \in Nat /\ Len(received) \in Int
    BY <1>0 DEF Inv, TypeOK
  <2>2. [j \in 1 .. n |-> Len(received) + j - 1] \in [1 .. n -> Int]
    BY <2>1
  <2> QED
    BY <1>1, <2>1, <2>2
<1>3. TypeOK'
  BY <1>0, <1>2 DEF Inv, TypeOK, ReadCopy, PCs
<1>4. LockExcludes'
  BY SameSection DEF Inv, TypeOK, ReadCopy, Inside
<1>5. RingHoldsStream'
  BY DEF Inv, RingHoldsStream, ReadCopy, Slot
<1>6. CopiesStand'
  <2> SUFFICES ASSUME NEW s \in Threads, pc'[s] = "commit"
               PROVE  /\ len'[s] \in 1 .. req'[s] - ret'[s]
                      /\ s \in Readers =>
                           /\ len'[s] <= buf_used'
                           /\ got'[s] = [j \in 1 .. len'[s] |->
                                           Len(received') + j - 1]
                      /\ s \notin Writers
    BY DEF CopiesStand
  <2>1. s = t
    BY AloneInside DEF Inv, TypeOK, ReadCopy, Inside
  <2> QED
    BY <1>0, <1>1, <2>1, Constants DEF Inv, TypeOK, ReadCopy
<1> QED
  BY <1>3, <1>4, <1>5, <1>6 DEF Inv

\* channel_read() moves the indices, wakes everybody and unlocks.
LEMMA ReadCommitInv ==
  ASSUME Inv, NEW t \in Threads, ReadCommit(t)
  PROVE  Inv'
<1> DEFINE n == len[t]
<1>0. /\ t \in Readers
      /\ n \in 1 .. req[t] - ret[t] /\ n \in Nat
      /\ n \in 1 .. buf_used
      /\ got[t] = [j \in 1 .. n |-> Len(received) + j - 1]
      /\ got[t] \in Seq(Int)
  <2>1. /\ t \in Readers
        /\ n \in 1 .. req[t] - ret[t]
        /\ n <= buf_used
        /\ got[t] = [j \in 1 .. n |-> Len(received) + j - 1]
    BY DEF Inv, CopiesStand, ReadCommit
  <2>2. n \in Nat /\ req[t] \in Nat /\ ret[t] \in Nat /\ buf_used \in Nat
    BY Constants DEF Inv, TypeOK
  <2>3. got[t] \in Seq(Int)
    BY <2>1 DEF Inv, TypeOK
  <2> HIDE DEF n
  <2> QED
    BY <2>1, <2>2, <2>3
<1>1. /\ BeginAfter(n) \in 0 .. N - 1
      /\ \A i \in 0 .. buf_used - n - 1 :
           Slot(i + n) = IF BeginAfter(n) + i < N THEN BeginAfter(n) + i
                         ELSE BeginAfter(n) + i - N
  BY <1>0, BeginMoves DEF Inv
<1>2. /\ received' = received \o got[t]
      /\ received' \in Seq(Int)
      /\ Len(received') = Len(received) + n
  <2>1. Len(got[t]) = n
    BY <1>0
  <2>2. received \in Seq(Int) /\ received' = received \o got[t]
    BY DEF Inv, TypeOK, ReadCommit
  <2> QED
    BY <1>0, <2>1, <2>2
<1>3. TypeOK'
  <2>1. pc' \in [Threads -> PCs]
    BY DEF Inv, TypeOK, ReadCommit, ResumeAll, PCs
  <2>2. ret' \in [Threads -> Nat] /\ len' \in [Threads -> Nat]
    <3>1. /\ ret \in [Threads -> Nat] /\ len \in [Threads -> Nat]
          /\ ret' = [ret EXCEPT ![t] = ret[t] + len[t]]
          /\ len' = [len EXCEPT ![t] = 0]
      BY DEF Inv, TypeOK, ReadCommit
    <3>2. ret[t] + len[t] \in Nat
      BY <3>1
    <3> QED
      BY <3>1, <3>2
  <2>3. got' \in [Readers -> Seq(Int)]
    BY DEF Inv, TypeOK, ReadCommit
  <2>4. buf_used' \in 0 .. N /\ buf_use_begin' \in 0 .. N - 1
    <3>1. buf_used \in 0 .. N /\ buf_used' = buf_used - n
      BY DEF Inv, TypeOK, ReadCommit
    <3>2. buf_use_begin' = BeginAfter(n)
      BY DEF ReadCommit
    <3> HIDE DEF n
    <3> QED
      BY <1>0, <1>1, <3>1, <3>2, Constants
  <2> QED
    BY <1>2, <2>1, <2>2, <2>3, <2>4 DEF Inv, TypeOK, ReadCommit
<1>4. \A s \in Threads : pc'[s] = IF s = t \/ pc[s] = "asleep" THEN "test"
                                  ELSE pc[s]
  BY DEF ReadCommit, ResumeAll
<1>5. LockExcludes'
  BY <1>4, LeavesSection DEF Inv, ReadCommit, Inside
<1>6. RingHoldsStream'
  <2>1. sent' = Len(received') + buf_used'
    BY <1>0, <1>2 DEF Inv, TypeOK, RingHoldsStream, ReadCommit
  <2>2. ASSUME NEW i \in 0 .. buf_used' - 1
        PROVE  buf'[Slot(i)'] = Len(received') + i
    <3>1. i \in 0 .. buf_used - n - 1 /\ i + n \in 0 .. buf_used - 1
      <4>1. buf_used \in 0 .. N /\ buf_used' = buf_used - n
        BY DEF Inv, TypeOK, ReadCommit
      <4> HIDE DEF n
      <4> QED
        BY <1>0, <2>2, <4>1, Constants
    <3>2. Slot(i)' = Slot(i + n)
      BY <1>1, <3>1 DEF Slot, ReadCommit, N
    <3>3. buf[Slot(i + n)] = Len(received) + (i + n)
      BY <3>1 DEF Inv, RingHoldsStream
    <3> QED
      BY <1>0, <1>2, <3>1, <3>2, <3>3 DEF ReadCommit, Inv, TypeOK
  <2> QED
    BY <2>1, <2>2 DEF RingHoldsStream
<1>7. CopiesStand'
  <2>1. \A s \in Threads : pc'[s] # "commit"
    BY <1>4, AloneInside DEF Inv, ReadCommit, Inside
  <2> QED
    BY <2>1 DEF CopiesStand
<1> QED
  BY <1>3, <1>5, <1>6, <1>7 DEF Inv

\* channel_write() has copied bytes in.
LEMMA WriteCopyInv ==
  ASSUME Inv, NEW t \in Threads, WriteCopy(t)
  PROVE  Inv'
<1> DEFINE n == Length(t)
<1>0. /\ t \in Writers /\ t \notin Readers
      /\ n \in 1 .. req[t] - ret[t]
      /\ n \in 1 .. N - buf_used
  BY LengthBound, Constants DEF Inv, WriteCopy
<1>1. /\ buf' \in [0 .. N - 1 -> Int]
      /\ \A i \in 0 .. buf_used - 1 : buf'[Slot(i)] = buf[Slot(i)]
      /\ \A i \in buf_used .. buf_used + n - 1 :
           buf'[Slot(i)] = sent + i - buf_used
  BY <1>0, FilledSlots DEF Inv, WriteCopy
<1>2. \A i : Slot(i)' = Slot(i)
  BY DEF WriteCopy, Slot, N
<1>3. TypeOK'
  BY <1>0, <1>1 DEF Inv, TypeOK, WriteCopy, PCs
<1>4. LockExcludes'
  BY SameSection DEF Inv, TypeOK, WriteCopy, Inside
<1>5. RingHoldsStream'
  BY <1>1, <1>2 DEF Inv, RingHoldsStream, WriteCopy
<1>6. CopiesStand'
  <2> SUFFICES ASSUME NEW s \in Threads, pc'[s] = "commit"
               PROVE  /\ len'[s] \in 1 .. req'[s] - ret'[s]
                      /\ s \notin Readers
                      /\ len'[s] <= N - buf_used'
                      /\ \A i \in buf_used' .. buf_used' + len'[s] - 1 :
                           buf'[Slot(i)'] = Len(received') + i
    BY DEF CopiesStand, N
  <2>1. s = t
    BY AloneInside DEF Inv, TypeOK, WriteCopy, Inside
  <2>2. len'[s] = n
    BY <2>1 DEF Inv, TypeOK, WriteCopy
  <2>3. ASSUME NEW i \in buf_used' .. buf_used' + len'[s] - 1
        PROVE  buf'[Slot(i)'] = Len(received') + i
    <3>1. i \in buf_used .. buf_used + n - 1
      BY <2>2, <2>3 DEF WriteCopy
    <3>2. buf'[Slot(i)'] = sent + i - buf_used
      BY <1>1, <1>2, <3>1
    <3> QED
      BY <1>0, <3>1, <3>2 DEF Inv, TypeOK, RingHoldsStream, WriteCopy
  <2> QED
    BY <1>0, <2>1, <2>2, <2>3, Constants DEF Inv, TypeOK, WriteCopy
<1> QED
  BY <1>3, <1>4, <1>5, <1>6 DEF Inv

\* channel_write() moves the index, wakes everybody and unlocks.
LEMMA WriteCommitInv ==
  ASSUME Inv, NEW t \in Threads, WriteCommit(t)
  PROVE  Inv'
<1> DEFINE n == len[t]
<1>0. /\ t \in Writers
      /\ n \in 1 .. req[t] - ret[t] /\ n \in Nat
      /\ n <= N - buf_used
      /\ \A i \in buf_used .. buf_used + n - 1 : buf[Slot(i)] = Len(received) + i
  BY DEF Inv, TypeOK, CopiesStand, WriteCommit
<1>1. \A s \in Threads : pc'[s] = IF s = t \/ pc[s] = "asleep" THEN "test"
                                  ELSE pc[s]
  BY DEF WriteCommit, ResumeAll
<1>2. \A i : Slot(i)' = Slot(i)
  BY DEF WriteCommit, Slot, N
<1>3. TypeOK'
  <2>1. pc' \in [Threads -> PCs]
    BY DEF Inv, TypeOK, WriteCommit, ResumeAll, PCs
  <2>2. ret' \in [Threads -> Nat] /\ len' \in [Threads -> Nat]
    <3>1. /\ ret \in [Threads -> Nat] /\ len \in [Threads -> Nat]
          /\ ret' = [ret EXCEPT ![t] = ret[t] + len[t]]
          /\ len' = [len EXCEPT ![t] = 0]
      BY DEF Inv, TypeOK, WriteCommit
    <3>2. ret[t] + len[t] \in Nat
      BY <3>1
    <3> QED
      BY <3>1, <3>2
  <2>3. buf_used' \in 0 .. N /\ sent' \in Nat
    BY <1>0, Constants DEF Inv, TypeOK, WriteCommit
  <2> QED
    BY <2>1, <2>2, <2>3 DEF Inv, TypeOK, WriteCommit
<1>4. LockExcludes'
  BY <1>1, LeavesSection DEF Inv, WriteCommit, Inside
<1>5. RingHoldsStream'
  <2>1. sent' = Len(received') + buf_used'
    BY <1>0 DEF Inv, TypeOK, RingHoldsStream, WriteCommit
  <2>2. ASSUME NEW i \in 0 .. buf_used' - 1
        PROVE  buf'[Slot(i)'] = Len(received') + i
    <3>1. i \in 0 .. buf_used - 1 \/ i \in buf_used .. buf_used + n - 1
      BY <1>0, <2>2 DEF Inv, TypeOK, WriteCommit
    <3>2. buf[Slot(i)] = Len(received) + i
      BY <1>0, <3>1 DEF Inv, RingHoldsStream
    <3> QED
      BY <1>2, <3>2 DEF WriteCommit
  <2> QED
    BY <2>1, <2>2 DEF RingHoldsStream
<1>6. CopiesStand'
  <2>1. \A s \in Threads : pc'[s] # "commit"
    BY <1>1, AloneInside DEF Inv, WriteCommit, Inside
  <2> QED
    BY <2>1 DEF CopiesStand
<1> QED
  BY <1>3, <1>4, <1>5, <1>6 DEF Inv

\* Every step of every thread preserves the invariant.
LEMMA NextInv == Inv /\ [Next]_vars => Inv'
<1> SUFFICES ASSUME Inv, [Next]_vars PROVE Inv'
  OBVIOUS
<1>1. CASE UNCHANGED vars
  BY <1>1 DEF vars, Inv, TypeOK, LockExcludes, Inside, RingHoldsStream,
              CopiesStand, Slot
<1>2. ASSUME NEW t \in Threads, NEW n \in Reqs,
             StartRead(t, n) \/ StartWrite(t, n)
      PROVE  Inv'
  BY <1>2, CallInv DEF StartRead, StartWrite
<1>3. ASSUME NEW t \in Threads, Lock(t)
      PROVE  Inv'
  BY <1>3, LockInv
<1>4. ASSUME NEW t \in Threads, Round(t)
      PROVE  Inv'
  BY <1>4, ReadCopyInv, ReadCommitInv, WriteCopyInv, WriteCommitInv, NothingInv
     DEF Round
<1>5. ASSUME NEW t \in Threads,
             LoopTest(t) \/ kill_thread(t) \/ KillResume(t) \/ maybe_exit(t)
      PROVE  Inv'
  BY <1>5, OutsideInv
<1>6. ASSUME NEW h \in Sides, NEW b \in Modes, fctl(h, b)
      PROVE  Inv'
  BY <1>6, FctlInv
<1> QED
  BY <1>1, <1>2, <1>3, <1>4, <1>5, <1>6 DEF Next

\* The invariant holds throughout.
LEMMA Invariance == Spec => []Inv
BY InitInv, NextInv, PTL DEF Spec

\* The fields of channel_t and of the calls keep their types; in particular
\* buf_use_begin stays inside the buffer and buf_used within its size.
THEOREM ChannelTypes == Spec => []TypeOK
<1>1. Inv => TypeOK
  BY DEF Inv
<1> QED
  BY <1>1, Invariance, PTL

\* The circular buffer holds exactly the bytes written and not yet read.
THEOREM RingIsExact == Spec => []RingHoldsStream
<1>1. Inv => RingHoldsStream
  BY DEF Inv
<1> QED
  BY <1>1, Invariance, PTL

\* At most one thread is between mutex_lock() and mutex_unlock() of c->lock.
THEOREM OneThreadInside == Spec => []LockExcludes
<1>1. Inv => LockExcludes
  BY DEF Inv
<1> QED
  BY <1>1, Invariance, PTL

\* A round that was switched out after its memcpy()s finds its copies valid.
THEOREM CopiesAreSafe == Spec => []CopiesStand
<1>1. Inv => CopiesStand
  BY DEF Inv
<1> QED
  BY <1>1, Invariance, PTL

-----------------------------------------------------------------------------
(***************************************************************************)
(* Sleeping and waking.                                                    *)
(***************************************************************************)

\* A thread that goes to sleep with something left to copy found the buffer
\* empty, if it reads, or full, if it writes.
LEMMA SleepReason ==
  ASSUME TypeOK, NEW t \in Threads, Nothing(t), ret[t] < req[t]
  PROVE  buf_used = IF t \in Readers THEN 0 ELSE N
BY Constants DEF TypeOK, Nothing, Length, Min

\* The steps that change buf_used wake every sleeper.
LEMMA CommitWakes ==
  ASSUME TypeOK, NEW t \in Threads, ReadCommit(t) \/ WriteCommit(t)
  PROVE  \A s \in Threads : pc'[s] # "asleep"
<1>1. pc' = ResumeAll(t)
  BY DEF ReadCommit, WriteCommit
<1> QED
  BY <1>1 DEF ResumeAll, TypeOK

\* A step that puts nobody to sleep and leaves the buffer's fill alone.
LEMMA NoNewSleeper ==
  ASSUME NoLostWakeup, buf_used' = buf_used,
         \A s \in Threads : pc'[s] = "asleep" =>
           pc[s] = "asleep" /\ ret'[s] = ret[s] /\ req'[s] = req[s]
  PROVE  NoLostWakeup'
BY DEF NoLostWakeup, N

\* Every step preserves NoLostWakeup.
LEMMA WakeupStep == TypeOK /\ NoLostWakeup /\ [Next]_vars => NoLostWakeup'
<1> SUFFICES ASSUME TypeOK, NoLostWakeup, [Next]_vars PROVE NoLostWakeup'
  OBVIOUS
<1>1. CASE UNCHANGED vars
  BY <1>1 DEF vars, NoLostWakeup, N
<1>2. ASSUME NEW t \in Threads, NEW n \in Reqs,
             StartRead(t, n) \/ StartWrite(t, n)
      PROVE  NoLostWakeup'
  BY <1>2, NoNewSleeper DEF StartRead, StartWrite, Call, TypeOK
<1>3. ASSUME NEW t \in Threads, Lock(t)
      PROVE  NoLostWakeup'
  BY <1>3, NoNewSleeper DEF Lock, TypeOK
<1>4. ASSUME NEW t \in Threads, ReadCopy(t) \/ WriteCopy(t) \/ GiveUp(t)
      PROVE  NoLostWakeup'
  BY <1>4, NoNewSleeper DEF ReadCopy, WriteCopy, GiveUp, TypeOK
<1>5. ASSUME NEW t \in Threads, ReadCommit(t) \/ WriteCommit(t)
      PROVE  NoLostWakeup'
  BY <1>5, CommitWakes DEF NoLostWakeup
<1>6. ASSUME NEW t \in Threads, Sleep(t)
      PROVE  NoLostWakeup'
  BY <1>6, SleepReason DEF Sleep, NoLostWakeup, TypeOK, N
<1>7. ASSUME NEW t \in Threads,
             LoopTest(t) \/ kill_thread(t) \/ KillResume(t) \/ maybe_exit(t)
      PROVE  NoLostWakeup'
  BY <1>7, NoNewSleeper DEF LoopTest, kill_thread, KillResume, maybe_exit, TypeOK
<1>8. ASSUME NEW h \in Sides, NEW b \in Modes, fctl(h, b)
      PROVE  NoLostWakeup'
  BY <1>8, NoNewSleeper DEF fctl
<1> QED
  BY <1>1, <1>2, <1>3, <1>4, <1>5, <1>6, <1>7, <1>8 DEF Next, Round

\* No wakeup is lost between mutex_unlock() and wait_on(), whatever the number
\* of readers and writers that share the channel's wait object.
THEOREM NoWakeupLost == Spec => []NoLostWakeup
<1>1. Init => NoLostWakeup
  BY DEF Init, NoLostWakeup
<1> QED
  BY <1>1, ChannelTypes, WakeupStep, PTL DEF Spec

-----------------------------------------------------------------------------
(***************************************************************************)
(* Refinement.                                                             *)
(***************************************************************************)

\* The steps that leave the stream alone.
LEMMA StutterSteps ==
  ASSUME NEW t \in Threads,
         \/ ReadCopy(t) \/ WriteCopy(t) \/ Sleep(t) \/ GiveUp(t) \/ Lock(t)
         \/ LoopTest(t) \/ kill_thread(t) \/ KillResume(t) \/ maybe_exit(t)
  PROVE  UNCHANGED <<sent, received>>
BY DEF ReadCopy, WriteCopy, Sleep, GiveUp, Lock, LoopTest, kill_thread,
       KillResume, maybe_exit

\* Every step of the channel is a step of the pipe, or leaves it unchanged: the
\* pipe's bytes move when the indices do.
LEMMA PipeStep == Inv /\ [Next]_vars => [PipeOf!Next]_<<sent, received>>
<1> SUFFICES ASSUME Inv, [Next]_vars PROVE [PipeOf!Next]_<<sent, received>>
  OBVIOUS
<1>0. /\ N \in Nat \ {0} /\ buf_used \in 0 .. N /\ sent \in Nat
      /\ Len(received) \in Nat /\ sent = Len(received) + buf_used
  BY Constants DEF Inv, TypeOK, RingHoldsStream
<1>1. CASE UNCHANGED vars
  BY <1>1 DEF vars
<1>2. ASSUME NEW t \in Threads, NEW n \in Reqs,
             StartRead(t, n) \/ StartWrite(t, n)
      PROVE  UNCHANGED <<sent, received>>
  BY <1>2 DEF StartRead, StartWrite, Call
<1>3. ASSUME NEW t \in Threads, ReadCommit(t)
      PROVE  PipeOf!Next
  <2>1. /\ len[t] \in 1 .. req[t] - ret[t] /\ len[t] <= buf_used
        /\ got[t] = [j \in 1 .. len[t] |-> Len(received) + j - 1]
    BY <1>3 DEF Inv, CopiesStand, ReadCommit
  <2>2. len[t] \in 1 .. N
    BY <1>0, <2>1 DEF Inv, TypeOK
  <2>3. PipeOf!Read(len[t])
    BY <1>0, <1>3, <2>1, <2>2 DEF PipeOf!Read, ReadCommit
  <2> QED
    BY <2>2, <2>3 DEF PipeOf!Next
<1>4. ASSUME NEW t \in Threads, WriteCommit(t)
      PROVE  PipeOf!Next
  <2>1. len[t] \in 1 .. req[t] - ret[t] /\ len[t] <= N - buf_used
    BY <1>4 DEF Inv, CopiesStand, WriteCommit
  <2>2. len[t] \in 1 .. N
    BY <1>0, <2>1 DEF Inv, TypeOK
  <2>3. PipeOf!Write(len[t])
    BY <1>0, <1>4, <2>1, <2>2 DEF PipeOf!Write, WriteCommit
  <2> QED
    BY <2>2, <2>3 DEF PipeOf!Next
<1>5. ASSUME NEW h \in Sides, NEW b \in Modes, fctl(h, b)
      PROVE  UNCHANGED <<sent, received>>
  BY <1>5 DEF fctl
<1> QED
  BY <1>1, <1>2, <1>3, <1>4, <1>5, StutterSteps DEF Next, Round

\* A channel is a pipe: the bytes written come out in order, none lost and none
\* twice, and never more than the buffer's size are under way.
THEOREM ChannelIsPipe == Spec => ImplementsPipe
<1>1. Init => PipeOf!Init
  BY DEF Init, PipeOf!Init
<1>2. Inv /\ [Next]_vars => [PipeOf!Next]_(PipeOf!pipeVars)
  BY PipeStep DEF PipeOf!pipeVars
<1> QED
  BY <1>1, <1>2, Invariance, PTL DEF Spec, ImplementsPipe, PipeOf!Spec

-----------------------------------------------------------------------------
(***************************************************************************)
(* The hand-over between the callers of the BIOS and the thread that runs  *)
(* it (module V86), for any number of callers.                             *)
(*                                                                         *)
(* What makes it safe is that a caller holds the mutex from the beginning  *)
(* of its session to the end, also when it is killed, so that only one     *)
(* caller writes v86_caller_thread and v86_regs; and that the thread has   *)
(* been seen to wait, by v86_retval, before anyone resumes it.             *)
(***************************************************************************)
InSession == {"session", "call", "resume", "answered", "end"}

BiosTypes ==
  /\ v86_pc \in [BiosCallers -> {"idle", "begin", "spin"} \cup InSession]
  /\ v86_mutex \in BiosCallers \cup {NoCaller}
  /\ v86_thread \in {"none", "started", "asleep", "resumed"}
  /\ v86_regs \in [of : BiosCallers \cup {NoCaller}, answered : BOOLEAN]
  /\ v86_asleep \in SUBSET BiosCallers
  /\ v86_in \in SUBSET BiosCallers /\ v86_early \in SUBSET BiosCallers
  /\ v86_retval \in BOOLEAN /\ v86_kept \in BOOLEAN

\* What the caller c relies on, where it is.
CallerInStep(c) ==
  /\ v86_pc[c] # "idle" => v86_mutex = c
  /\ c \in v86_asleep => v86_pc[c] = "answered" /\ v86_thread = "resumed"
  /\ v86_pc[c] = "spin" => v86_thread # "none" /\ (v86_thread = "started" => ~v86_retval)
  /\ v86_pc[c] \in InSession => v86_thread \in {"asleep", "resumed"}
  /\ v86_pc[c] \in {"call", "resume", "answered"} => v86_regs.of = c
  /\ v86_pc[c] \in {"resume", "answered"} => v86_caller_thread = c
  /\ v86_pc[c] = "answered" /\ c \notin v86_asleep /\ c \notin v86_must_exit \cup v86_early =>
       v86_regs.answered
  /\ c \in v86_in /\ v86_pc[c] \in {"idle", "end"} => v86_kept

\* Whoever has started the thread waits for it to wait.
StartIsAwaited == v86_thread = "started" => \E c \in BiosCallers : v86_pc[c] = "spin"
MutexIsUsed == v86_mutex # NoCaller /\ ~v86_kept => v86_pc[v86_mutex] # "idle"

BiosInv ==
  /\ BiosTypes
  /\ \A c \in BiosCallers : CallerInStep(c)
  /\ StartIsAwaited
  /\ MutexIsUsed

\* Only the holder of the mutex is in a session, and the step is its own.
LEMMA Alone ==
  ASSUME BiosInv, NEW c \in BiosCallers, v86_pc[c] # "idle"
  PROVE  /\ v86_mutex = c /\ \A d \in BiosCallers \ {c} : v86_pc[d] = "idle" /\ d \notin v86_asleep
  BY DEF BiosInv, CallerInStep

LEMMA PcMoves ==
  ASSUME BiosTypes, NEW c \in BiosCallers, NEW p \in {"idle", "begin", "spin"} \cup InSession,
         Bios!Goto(c, p)
  PROVE  /\ v86_pc' \in [BiosCallers -> {"idle", "begin", "spin"} \cup InSession]
         /\ v86_pc'[c] = p /\ \A d \in BiosCallers \ {c} : v86_pc'[d] = v86_pc[d]
  BY DEF BiosTypes, Bios!Goto

LEMMA BiosInit ==
  ASSUME Bios!Init
  PROVE  BiosInv
  BY DEF Bios!Init, BiosInv, BiosTypes, CallerInStep, StartIsAwaited, MutexIsUsed, InSession

LEMMA BiosStep ==
  ASSUME Bios!V86Assumption, BiosInv, Bios!Next
  PROVE  BiosInv'
<1> USE DEF Bios!V86Assumption
<1>0. BiosTypes /\ (\A c \in BiosCallers : CallerInStep(c)) /\ StartIsAwaited /\ MutexIsUsed
  BY DEF BiosInv
<1>1. ASSUME NEW c \in BiosCallers, Bios!BeginLock(c) PROVE BiosInv'
  <2>1. /\ v86_pc' \in [BiosCallers -> {"idle", "begin", "spin"} \cup InSession]
        /\ v86_pc'[c] = "begin" /\ \A d \in BiosCallers \ {c} : v86_pc'[d] = v86_pc[d]
    BY <1>0, <1>1, PcMoves DEF Bios!BeginLock
  <2>2. \A d \in BiosCallers : v86_pc[d] = "idle" /\ d \notin v86_asleep
    BY <1>0, <1>1 DEF Bios!BeginLock, CallerInStep
  <2>3. v86_thread # "started"
    BY <1>0, <2>2 DEF StartIsAwaited
  <2> QED
    BY <1>0, <1>1, <2>1, <2>2, <2>3
       DEF Bios!BeginLock, BiosInv, BiosTypes, CallerInStep, StartIsAwaited, MutexIsUsed, InSession
<1>2. ASSUME NEW c \in BiosCallers, Bios!BeginFails(c) PROVE BiosInv'
  <2>1. /\ v86_pc' \in [BiosCallers -> {"idle", "begin", "spin"} \cup InSession]
        /\ v86_pc'[c] = "idle" /\ \A d \in BiosCallers \ {c} : v86_pc'[d] = v86_pc[d]
    BY <1>0, <1>2, PcMoves DEF Bios!BeginFails
  <2>2. v86_mutex = c /\ \A d \in BiosCallers \ {c} : v86_pc[d] = "idle" /\ d \notin v86_asleep
    BY <1>2, Alone DEF Bios!BeginFails, Bios!At
  <2> QED
    BY <1>0, <1>2, <2>1, <2>2
       DEF Bios!BeginFails, Bios!At, BiosInv, BiosTypes, CallerInStep, StartIsAwaited, MutexIsUsed, InSession
<1>3. ASSUME NEW c \in BiosCallers, Bios!BeginStart(c) PROVE BiosInv'
  <2>1. /\ v86_pc' \in [BiosCallers -> {"idle", "begin", "spin"} \cup InSession]
        /\ v86_pc'[c] = "spin" /\ \A d \in BiosCallers \ {c} : v86_pc'[d] = v86_pc[d]
    BY <1>0, <1>3, PcMoves DEF Bios!BeginStart
  <2>2. v86_mutex = c /\ \A d \in BiosCallers \ {c} : v86_pc[d] = "idle" /\ d \notin v86_asleep
    BY <1>3, Alone DEF Bios!BeginStart, Bios!At
  <2> QED
    BY <1>0, <1>3, <2>1, <2>2
       DEF Bios!BeginStart, Bios!At, BiosInv, BiosTypes, CallerInStep, StartIsAwaited, MutexIsUsed, InSession
<1>4. ASSUME NEW c \in BiosCallers, Bios!BeginDone(c) PROVE BiosInv'
  <2>1. /\ v86_pc' \in [BiosCallers -> {"idle", "begin", "spin"} \cup InSession]
        /\ v86_pc'[c] = "session" /\ \A d \in BiosCallers \ {c} : v86_pc'[d] = v86_pc[d]
    BY <1>0, <1>4, PcMoves DEF Bios!BeginDone, InSession
  <2>2. v86_mutex = c /\ \A d \in BiosCallers \ {c} : v86_pc[d] = "idle" /\ d \notin v86_asleep
    BY <1>4, Alone DEF Bios!BeginDone, Bios!At
  <2>3. v86_thread \in {"asleep", "resumed"}
    <3>1. CASE v86_pc[c] = "begin" /\ v86_thread # "none"
      BY <1>0, <2>2, <3>1 DEF StartIsAwaited, BiosTypes
    <3>2. CASE v86_pc[c] = "spin" /\ v86_retval
      BY <1>0, <3>2 DEF CallerInStep, BiosTypes
    <3> QED
      BY <1>4, <3>1, <3>2 DEF Bios!BeginDone, Bios!At
  <2>4. c \notin v86_asleep
    BY <1>4 DEF Bios!BeginDone, Bios!At
  <2> QED
    BY <1>0, <1>4, <2>1, <2>2, <2>3, <2>4
       DEF Bios!BeginDone, BiosInv, BiosTypes, CallerInStep, StartIsAwaited, MutexIsUsed, InSession
<1>5. ASSUME NEW c \in BiosCallers, Bios!SetRegs(c) PROVE BiosInv'
  <2>1. /\ v86_pc' \in [BiosCallers -> {"idle", "begin", "spin"} \cup InSession]
        /\ v86_pc'[c] = "call" /\ \A d \in BiosCallers \ {c} : v86_pc'[d] = v86_pc[d]
    BY <1>0, <1>5, PcMoves DEF Bios!SetRegs, InSession
  <2>2. v86_mutex = c /\ \A d \in BiosCallers \ {c} : v86_pc[d] = "idle" /\ d \notin v86_asleep
    BY <1>5, Alone DEF Bios!SetRegs, Bios!At
  <2>3. c \notin v86_asleep /\ v86_pc[c] \in InSession
    BY <1>5 DEF Bios!SetRegs, Bios!At, InSession
  <2> QED
    BY <1>0, <1>5, <2>1, <2>2, <2>3
       DEF Bios!SetRegs, BiosInv, BiosTypes, CallerInStep, StartIsAwaited, MutexIsUsed, InSession
<1>6. ASSUME NEW c \in BiosCallers, Bios!SetCaller(c) PROVE BiosInv'
  <2>1. /\ v86_pc' \in [BiosCallers -> {"idle", "begin", "spin"} \cup InSession]
        /\ v86_pc'[c] = "resume" /\ \A d \in BiosCallers \ {c} : v86_pc'[d] = v86_pc[d]
    BY <1>0, <1>6, PcMoves DEF Bios!SetCaller, InSession
  <2>2. v86_mutex = c /\ \A d \in BiosCallers \ {c} : v86_pc[d] = "idle" /\ d \notin v86_asleep
    BY <1>6, Alone DEF Bios!SetCaller, Bios!At
  <2> QED
    BY <1>0, <1>6, <2>1, <2>2
       DEF Bios!SetCaller, Bios!At, BiosInv, BiosTypes, CallerInStep, StartIsAwaited, MutexIsUsed, InSession
<1>7. ASSUME NEW c \in BiosCallers, Bios!ResumeAndWait(c) PROVE BiosInv'
  <2>1. /\ v86_pc' \in [BiosCallers -> {"idle", "begin", "spin"} \cup InSession]
        /\ v86_pc'[c] = "answered" /\ \A d \in BiosCallers \ {c} : v86_pc'[d] = v86_pc[d]
    BY <1>0, <1>7, PcMoves DEF Bios!ResumeAndWait, InSession
  <2>2. v86_mutex = c /\ \A d \in BiosCallers \ {c} : v86_pc[d] = "idle" /\ d \notin v86_asleep
    BY <1>7, Alone DEF Bios!ResumeAndWait, Bios!At
  <2>3. v86_thread' = "resumed"
    BY <1>0, <1>7 DEF Bios!ResumeAndWait, Bios!At, Bios!ResumedThread, CallerInStep, InSession
  <2> QED
    BY <1>0, <1>7, <2>1, <2>2, <2>3
       DEF Bios!ResumeAndWait, Bios!At, BiosInv, BiosTypes, CallerInStep, StartIsAwaited, MutexIsUsed, InSession
<1>8. ASSUME NEW c \in BiosCallers, Bios!EndCaller(c) PROVE BiosInv'
  <2>1. /\ v86_pc' \in [BiosCallers -> {"idle", "begin", "spin"} \cup InSession]
        /\ v86_pc'[c] = "end" /\ \A d \in BiosCallers \ {c} : v86_pc'[d] = v86_pc[d]
    BY <1>0, <1>8, PcMoves DEF Bios!EndCaller, InSession
  <2>2. v86_mutex = c /\ \A d \in BiosCallers \ {c} : v86_pc[d] = "idle" /\ d \notin v86_asleep
    BY <1>8, Alone DEF Bios!EndCaller, Bios!At
  <2> QED
    BY <1>0, <1>8, <2>1, <2>2
       DEF Bios!EndCaller, Bios!At, BiosInv, BiosTypes, CallerInStep, StartIsAwaited, MutexIsUsed, InSession
<1>9. ASSUME NEW c \in BiosCallers, Bios!EndUnlock(c) PROVE BiosInv'
  <2>1. /\ v86_pc' \in [BiosCallers -> {"idle", "begin", "spin"} \cup InSession]
        /\ v86_pc'[c] = "idle" /\ \A d \in BiosCallers \ {c} : v86_pc'[d] = v86_pc[d]
    BY <1>0, <1>9, PcMoves DEF Bios!EndUnlock
  <2>2. v86_mutex = c /\ \A d \in BiosCallers \ {c} : v86_pc[d] = "idle" /\ d \notin v86_asleep
    BY <1>9, Alone DEF Bios!EndUnlock, Bios!At
  <2> QED
    BY <1>0, <1>9, <2>1, <2>2
       DEF Bios!EndUnlock, Bios!At, BiosInv, BiosTypes, CallerInStep, StartIsAwaited, MutexIsUsed, InSession
<1>10. ASSUME NEW c \in BiosCallers, Bios!Kill(c) PROVE BiosInv'
  BY <1>0, <1>10
     DEF Bios!Kill, BiosInv, BiosTypes, CallerInStep, StartIsAwaited, MutexIsUsed, InSession
<1>13. ASSUME NEW c \in BiosCallers, Bios!Stray(c) PROVE BiosInv'
  BY <1>0, <1>13
     DEF Bios!Stray, BiosInv, BiosTypes, CallerInStep, StartIsAwaited, MutexIsUsed, InSession
<1>11. ASSUME Bios!ThreadStarts PROVE BiosInv'
  BY <1>0, <1>11
     DEF Bios!ThreadStarts, BiosInv, BiosTypes, CallerInStep, StartIsAwaited, MutexIsUsed, InSession
<1>12. ASSUME NEW status \in BOOLEAN, Bios!RunBios(status) PROVE BiosInv'
  <2>1. v86_regs' \in [of : BiosCallers \cup {NoCaller}, answered : BOOLEAN]
        /\ v86_regs'.of = v86_regs.of /\ v86_regs'.answered
    BY <1>0, <1>12 DEF Bios!RunBios, BiosTypes
  <2>2. v86_asleep' = {}
    <3>1. \A c \in v86_asleep : c = v86_caller_thread
      BY <1>0 DEF CallerInStep, BiosTypes
    <3> QED
      BY <1>12, <3>1 DEF Bios!RunBios, Bios!Notified
  <2> QED
    BY <1>0, <1>12, <2>1, <2>2
       DEF Bios!RunBios, BiosInv, BiosTypes, CallerInStep, StartIsAwaited, MutexIsUsed, InSession
<1> QED
  BY <1>1, <1>2, <1>3, <1>4, <1>5, <1>6, <1>7, <1>8, <1>9, <1>10, <1>11, <1>12, <1>13 DEF Bios!Next

\* A caller of the BIOS sleeps only when the BIOS will run for it, finds its own
\* registers answered when it comes back, unless it was killed or the timer of an
\* earlier select() ended its wait, and is alone in its session; each session that
\* has begun gives the mutex back and leaves its caller in its own page directory
\* (v86_begin_session(), v86_bios_int(), v86_end_session()).
THEOREM BiosAnswers ==
  ASSUME Bios!V86Assumption
  PROVE  Bios!Init /\ [][Bios!Next]_(Bios!vars) => []Bios!V86Exact
<1>1. Bios!Init => BiosInv
  BY BiosInit
<1>2. BiosInv /\ [Bios!Next]_(Bios!vars) => BiosInv'
  <2>1. ASSUME BiosInv, UNCHANGED Bios!vars PROVE BiosInv'
    BY <2>1 DEF Bios!vars, BiosInv, BiosTypes, CallerInStep, StartIsAwaited, MutexIsUsed
  <2> QED
    BY <2>1, BiosStep
<1>3. BiosInv => Bios!V86Exact
  <2> SUFFICES ASSUME BiosInv PROVE Bios!V86Exact
    OBVIOUS
  <2>1. Bios!SessionsExclude
    BY DEF BiosInv, BiosTypes, CallerInStep, MutexIsUsed, Bios!SessionsExclude
  <2>2. Bios!CallsAnswered
    BY DEF BiosInv, BiosTypes, CallerInStep, Bios!CallsAnswered, Bios!At
  <2> QED
    BY <2>1, <2>2 DEF Bios!V86Exact
<1> QED
  BY <1>1, <1>2, <1>3, PTL

-----------------------------------------------------------------------------
(***************************************************************************)
(* Readers of drives that interrupt (module Ide), for any number of        *)
(* readers, drives and lines they share, and reads of any length.          *)
(*                                                                         *)
(* Who waits for an interrupt is found by wait_irq of the line, which only *)
(* the holder of the line's mutex sets; that the drive is still busy as    *)
(* long as it names the reader is what makes going to sleep safe.  That a  *)
(* read is whole follows from the blocks the drive has left to send.       *)
(***************************************************************************)
ReadPcs == {"idle", "command", "poll_packet", "prewait", "set_wait", "send", "wait", "woken",
            "poll_data", "insw", "finish", "terminate", "done"}
ReadRecs == [pc : ReadPcs, d : Drives \cup {NoReader}, len : Nat, sent : BOOLEAN, got : Nat]
DriveRecs == [st : {"idle", "command", "packet", "busy", "data", "error"}, left : Nat]

DiskTypes ==
  /\ rd \in [DriveReaders -> ReadRecs]
  /\ drive \in [Drives -> DriveRecs]
  /\ dev_lock \in [Drives -> DriveReaders \cup {NoReader}]
  /\ on_irq \in [Disk!Lines -> DriveReaders \cup {NoReader}]
  /\ wait_irq \in [Disk!Lines -> DriveReaders \cup {NoReader}]
  /\ irq_asleep \in SUBSET DriveReaders

Sects(n) == n % CountValues
Reading == ReadPcs \ {"idle", "done"}

\* What the read of one reader relies on: q is its state, v its drive, k the
\* lock of that drive, o and w who holds the line and who waits on it, z who sleeps.
ReadInStep(r, q, v, k, o, w, z) ==
  /\ q.pc \in Reading => q.d \in Drives /\ k = r
  /\ q.pc \in Disk!Inside => o = r
  /\ q.pc \in {"command", "poll_packet", "send"} => ~q.sent
  /\ q.pc \in {"wait", "woken", "poll_data", "insw", "finish"} => q.sent
  /\ q.pc \in Reading /\ ~q.sent => q.got = 0
  /\ q.pc \in Reading /\ q.sent => /\ q.got + v.left = Sects(q.len)
                                   /\ v.st \in {"busy", "data", "idle", "error"}
  /\ q.pc = "insw" => v.st = "data"
  /\ q.pc \in {"send", "wait", "woken", "poll_data", "insw"} => w \in {r, NoReader}
  /\ q.pc \in {"wait", "woken"} /\ w = r => v.st = "busy"
  /\ r \in z => q.pc = "woken" /\ w = r
  /\ q.pc \in {"finish", "done"} => q.got = Sects(q.len)

ReaderInStep(r) ==
  ReadInStep(r, rd[r], drive[rd[r].d], dev_lock[rd[r].d], on_irq[LineOf[rd[r].d]],
             wait_irq[LineOf[rd[r].d]], irq_asleep)

DriveLocks == \A d \in Drives : dev_lock[d] # NoReader =>
  rd[dev_lock[d]].d = d /\ rd[dev_lock[d]].pc \in Reading
LineLocks == \A l \in Disk!Lines \ abandoned : on_irq[l] # NoReader =>
  LineOf[rd[on_irq[l]].d] = l /\ rd[on_irq[l]].pc \in Disk!Inside
BlocksLeft == \A d \in Drives : drive[d].st = "data" => drive[d].left > 0

DiskInv ==
  /\ DiskTypes /\ DriveLocks /\ LineLocks /\ BlocksLeft
  /\ \A r \in DriveReaders : ReaderInStep(r)

-----------------------------------------------------------------------------
\* What others do disturbs a read only by waking its reader up.
LEMMA ReadDepends ==
  ASSUME NEW r, NEW q, NEW v, NEW k, NEW o, NEW w, NEW z, ReadInStep(r, q, v, k, o, w, z),
         NEW v1, NEW k1, NEW o1, NEW w1, NEW z1, r # NoReader,
         q.pc \in Reading => k1 = k,
         q.pc \in Disk!Inside => o1 = o /\ (w1 = w \/ w1 = NoReader),
         r \in z1 => r \in z /\ w1 = w,
         q.pc \in Reading /\ q.sent =>
           \/ v1 = v
           \/ /\ v.st = "busy" /\ v1.left = v.left /\ v1.st \in {"error", "data", "idle"}
              /\ w1 = NoReader
  PROVE  ReadInStep(r, q, v1, k1, o1, w1, z1)
BY DEF ReadInStep, Disk!Inside, Reading, ReadPcs

\* A step of the reader r, whose read becomes q1.
OwnStep(r, q1) ==
  /\ q1 \in ReadRecs /\ rd' = [rd EXCEPT ![r] = q1]
  /\ drive' \in [Drives -> DriveRecs]
  /\ dev_lock' \in [Drives -> DriveReaders \cup {NoReader}]
  /\ on_irq' \in [Disk!Lines -> DriveReaders \cup {NoReader}]
  /\ wait_irq' \in [Disk!Lines -> DriveReaders \cup {NoReader}]
  /\ irq_asleep' \in SUBSET DriveReaders /\ irq_asleep' \ {r} \subseteq irq_asleep
  /\ abandoned \subseteq abandoned'
  /\ \A d \in Drives :
       /\ dev_lock[d] \notin {r, NoReader} => drive'[d] = drive[d] /\ dev_lock'[d] = dev_lock[d]
       /\ dev_lock'[d] \in {dev_lock[d], r, NoReader}
       /\ dev_lock'[d] = r => q1.d = d /\ q1.pc \in Reading
       /\ drive'[d].st = "data" => drive'[d].left > 0
  /\ \A l \in Disk!Lines :
       /\ on_irq[l] \notin {r, NoReader} => on_irq'[l] = on_irq[l] /\ wait_irq'[l] = wait_irq[l]
       /\ on_irq'[l] \in {on_irq[l], r, NoReader}
       /\ on_irq'[l] = r /\ l \notin abandoned' => LineOf[q1.d] = l /\ q1.pc \in Disk!Inside
  /\ ReadInStep(r, q1, drive'[q1.d], dev_lock'[q1.d], on_irq'[LineOf[q1.d]],
                wait_irq'[LineOf[q1.d]], irq_asleep')

LEMMA OwnStepKeeps ==
  ASSUME Disk!IdeAssumption, DiskInv, NEW r \in DriveReaders, NEW q1, OwnStep(r, q1)
  PROVE  DiskInv'
<1>0. DiskTypes /\ DriveLocks /\ LineLocks /\ \A s \in DriveReaders : ReaderInStep(s)
  BY DEF DiskInv
<1>1. /\ rd'[r] = q1 /\ \A s \in DriveReaders \ {r} : rd'[s] = rd[s]
      /\ rd' \in [DriveReaders -> ReadRecs]
  BY <1>0 DEF OwnStep, DiskTypes
<1>2. DiskTypes'
  BY <1>1 DEF OwnStep, DiskTypes
<1>3. ASSUME NEW s \in DriveReaders PROVE ReaderInStep(s)'
  <2>1. CASE s = r
    <3>1. ReadInStep(r, q1, drive'[q1.d], dev_lock'[q1.d], on_irq'[LineOf[q1.d]],
                     wait_irq'[LineOf[q1.d]], irq_asleep')
      BY DEF OwnStep
    <3> QED
      BY <1>1, <2>1, <3>1 DEF ReaderInStep
  <2>2. CASE s # r
    <3>1. PICK q : q = rd[s] /\ rd'[s] = q
      BY <1>1, <2>2
    <3>2. ReadInStep(s, q, drive[q.d], dev_lock[q.d], on_irq[LineOf[q.d]],
                     wait_irq[LineOf[q.d]], irq_asleep)
      BY <1>0, <3>1 DEF ReaderInStep
    <3>3. s # NoReader
      BY DEF Disk!IdeAssumption
    <3>4. q.pc \in Reading => drive'[q.d] = drive[q.d] /\ dev_lock'[q.d] = dev_lock[q.d]
      BY <2>2, <3>2, <3>3 DEF OwnStep, ReadInStep
    <3>5. q.pc \in Disk!Inside => /\ on_irq'[LineOf[q.d]] = on_irq[LineOf[q.d]]
                                  /\ wait_irq'[LineOf[q.d]] = wait_irq[LineOf[q.d]]
      <4>1. q.pc \in Disk!Inside => q.d \in Drives /\ on_irq[LineOf[q.d]] = s
        BY <3>2 DEF ReadInStep, Disk!Inside, Reading, ReadPcs
      <4>2. q.d \in Drives => LineOf[q.d] \in Disk!Lines
        BY DEF Disk!Lines
      <4> QED
        BY <2>2, <3>3, <4>1, <4>2 DEF OwnStep
    <3>6. s \in irq_asleep' => s \in irq_asleep /\ q.pc \in Disk!Inside
      BY <2>2, <3>2 DEF OwnStep, ReadInStep, Disk!Inside
    <3>7. ReadInStep(s, q, drive'[q.d], dev_lock'[q.d], on_irq'[LineOf[q.d]],
                     wait_irq'[LineOf[q.d]], irq_asleep')
      BY <3>2, <3>3, <3>4, <3>5, <3>6, ReadDepends
    <3> QED
      BY <3>1, <3>7 DEF ReaderInStep
  <2> QED
    BY <2>1, <2>2
<1>4. DriveLocks'
  <2> SUFFICES ASSUME NEW d \in Drives, dev_lock'[d] # NoReader
               PROVE  rd'[dev_lock'[d]].d = d /\ rd'[dev_lock'[d]].pc \in Reading
    BY DEF DriveLocks
  <2>1. CASE dev_lock'[d] = r
    BY <1>1, <2>1 DEF OwnStep
  <2>2. CASE dev_lock'[d] # r
    <3>1. dev_lock'[d] = dev_lock[d] /\ dev_lock[d] \in DriveReaders \ {r}
      BY <1>0, <2>2 DEF OwnStep, DiskTypes
    <3> QED
      BY <1>0, <1>1, <3>1 DEF DriveLocks
  <2> QED
    BY <2>1, <2>2
<1>5. LineLocks'
  <2> SUFFICES ASSUME NEW l \in Disk!Lines, l \notin abandoned', on_irq'[l] # NoReader
               PROVE  LineOf[rd'[on_irq'[l]].d] = l /\ rd'[on_irq'[l]].pc \in Disk!Inside
    BY DEF LineLocks, Disk!Lines
  <2>1. CASE on_irq'[l] = r
    BY <1>1, <2>1 DEF OwnStep
  <2>2. CASE on_irq'[l] # r
    <3>1. on_irq'[l] = on_irq[l] /\ on_irq[l] \in DriveReaders \ {r} /\ l \notin abandoned
      BY <1>0, <2>2 DEF OwnStep, DiskTypes
    <3> QED
      BY <1>0, <1>1, <3>1 DEF LineLocks
  <2> QED
    BY <2>1, <2>2
<1>6. BlocksLeft'
  BY DEF OwnStep, BlocksLeft
<1> QED
  BY <1>2, <1>3, <1>4, <1>5, <1>6 DEF DiskInv

\* What is known of a reader that takes a step.
LEMMA Acting ==
  ASSUME Disk!IdeAssumption, DiskInv, NEW r \in DriveReaders
  PROVE  /\ rd[r] \in ReadRecs /\ r # NoReader /\ DiskTypes /\ BlocksLeft
         /\ ReadInStep(r, rd[r], drive[rd[r].d], dev_lock[rd[r].d], on_irq[LineOf[rd[r].d]],
                       wait_irq[LineOf[rd[r].d]], irq_asleep)
         /\ rd[r].pc \in Reading => /\ rd[r].d \in Drives /\ dev_lock[rd[r].d] = r
                                    /\ LineOf[rd[r].d] \in Disk!Lines
         /\ \A d \in Drives : dev_lock[d] = r => rd[r].d = d /\ rd[r].pc \in Reading
         /\ \A l \in Disk!Lines : on_irq[l] = r /\ l \notin abandoned =>
              LineOf[rd[r].d] = l /\ rd[r].pc \in Disk!Inside
<1>1. rd[r] \in ReadRecs /\ r # NoReader /\ DiskTypes /\ BlocksLeft /\ ReaderInStep(r)
  BY DEF DiskInv, DiskTypes, Disk!IdeAssumption
<1>2. ReadInStep(r, rd[r], drive[rd[r].d], dev_lock[rd[r].d], on_irq[LineOf[rd[r].d]],
                       wait_irq[LineOf[rd[r].d]], irq_asleep)
  BY <1>1 DEF ReaderInStep
<1>3. rd[r].pc \in Reading => /\ rd[r].d \in Drives /\ dev_lock[rd[r].d] = r
                             /\ LineOf[rd[r].d] \in Disk!Lines
  BY <1>2 DEF ReadInStep, Disk!Lines
<1> QED
  BY <1>1, <1>2, <1>3 DEF DiskInv, DriveLocks, LineLocks

LEMMA PcGoes ==
  ASSUME DiskTypes, NEW r \in DriveReaders, NEW p \in ReadPcs, Disk!Goto(r, p)
  PROVE  \E q \in ReadRecs :
           /\ rd' = [rd EXCEPT ![r] = q] /\ q.pc = p /\ q.d = rd[r].d /\ q.len = rd[r].len
           /\ q.sent = rd[r].sent /\ q.got = rd[r].got
<1>1. rd[r] \in ReadRecs
  BY DEF DiskTypes
<1>2. PICK q : q = [rd[r] EXCEPT !.pc = p]
  OBVIOUS
<1>3. /\ q \in ReadRecs /\ q.pc = p /\ q.d = rd[r].d /\ q.len = rd[r].len
      /\ q.sent = rd[r].sent /\ q.got = rd[r].got
  BY <1>1, <1>2 DEF ReadRecs
<1>4. rd' = [rd EXCEPT ![r] = q]
  BY <1>2 DEF Disk!Goto
<1> QED
  BY <1>3, <1>4

LEMMA DriveTurns ==
  ASSUME DiskTypes, NEW d \in Drives, NEW st \in {"idle", "command", "packet", "busy", "data", "error"},
         Disk!Turns(d, st)
  PROVE  /\ drive' \in [Drives -> DriveRecs] /\ drive'[d].st = st /\ drive'[d].left = drive[d].left
         /\ \A e \in Drives \ {d} : drive'[e] = drive[e]
BY DEF DiskTypes, DriveRecs, Disk!Turns

LEMMA SectsAre ==
  ASSUME Disk!IdeAssumption, NEW n \in Nat
  PROVE  Sects(n) \in Nat /\ (n < CountValues => Sects(n) = n)
BY DEF Disk!IdeAssumption, Sects

LEMMA ReadBegins ==
  ASSUME Disk!IdeAssumption, DiskInv, NEW r \in DriveReaders, Disk!ide_vfs_read(r)
  PROVE  DiskInv'
<1>1. PICK d \in Drives, n \in 1 .. MaxBlocks :
        /\ dev_lock[d] = NoReader /\ dev_lock' = [dev_lock EXCEPT ![d] = r]
        /\ rd' = [rd EXCEPT ![r] = [Disk!Idle EXCEPT !.pc = "command", !.d = d, !.len = n]]
  BY DEF Disk!ide_vfs_read
<1>2. PICK q : q = [Disk!Idle EXCEPT !.pc = "command", !.d = d, !.len = n]
  OBVIOUS
<1>3. q \in ReadRecs /\ q.pc = "command" /\ q.d = d /\ q.sent = FALSE /\ q.got = 0
  <2>1. d \in Drives /\ n \in Nat
    BY <1>1 DEF Disk!IdeAssumption
  <2> QED
    BY <1>2, <2>1 DEF Disk!Idle, ReadRecs, ReadPcs
<1>8. rd' = [rd EXCEPT ![r] = q]
  BY <1>1, <1>2
<1>4. /\ UNCHANGED <<drive, on_irq, wait_irq, irq_asleep, abandoned>>
      /\ rd[r].pc = "idle" /\ r \notin irq_asleep
  BY DEF Disk!ide_vfs_read, Disk!At
<1>5. /\ r # NoReader /\ DiskTypes /\ BlocksLeft
      /\ \A e \in Drives : dev_lock[e] # r
      /\ \A l \in Disk!Lines : l \notin abandoned => on_irq[l] # r
  BY <1>4, Acting DEF Reading, Disk!Inside
<1>6. ReadInStep(r, q, drive'[q.d], dev_lock'[q.d], on_irq'[LineOf[q.d]],
                 wait_irq'[LineOf[q.d]], irq_asleep')
  BY <1>1, <1>3, <1>4, <1>5 DEF ReadInStep, Reading, ReadPcs, Disk!Inside, DiskTypes
<1>7. OwnStep(r, q)
  BY <1>1, <1>3, <1>4, <1>5, <1>6, <1>8 DEF OwnStep, DiskTypes, BlocksLeft, Reading, ReadPcs
<1> QED
  BY <1>7, OwnStepKeeps

LEMMA IdleIs ==
  /\ Disk!Idle \in ReadRecs /\ Disk!Idle.pc = "idle" /\ Disk!Idle.d = NoReader
  /\ Disk!Idle.sent = FALSE /\ Disk!Idle.got = 0
BY DEF Disk!Idle, ReadRecs, ReadPcs

\* A reader that goes on reading its drive.
ReadsOn(r, q, d) ==
  /\ q \in ReadRecs /\ q.d = d /\ q.pc \in Reading /\ rd' = [rd EXCEPT ![r] = q]
  /\ drive' \in [Drives -> DriveRecs]
  /\ \A e \in Drives \ {d} : drive'[e] = drive[e]
  /\ drive'[d].st = "data" => drive'[d].left > 0
  /\ on_irq' \in [Disk!Lines -> DriveReaders \cup {NoReader}]
  /\ wait_irq' \in [Disk!Lines -> DriveReaders \cup {NoReader}]
  /\ \A l \in Disk!Lines \ {LineOf[d]} : on_irq'[l] = on_irq[l] /\ wait_irq'[l] = wait_irq[l]
  /\ LET l == LineOf[d] IN
       /\ on_irq[l] \notin {r, NoReader} => on_irq'[l] = on_irq[l] /\ wait_irq'[l] = wait_irq[l]
       /\ on_irq'[l] \in {on_irq[l], r, NoReader}
       /\ on_irq'[l] = r => q.pc \in Disk!Inside \/ l \in abandoned
  /\ irq_asleep' \in SUBSET DriveReaders /\ irq_asleep' \ {r} \subseteq irq_asleep
  /\ UNCHANGED <<dev_lock, abandoned>>
  /\ ReadInStep(r, q, drive'[d], dev_lock[d], on_irq'[LineOf[d]], wait_irq'[LineOf[d]],
                irq_asleep')

LEMMA ReadsOnKeeps ==
  ASSUME Disk!IdeAssumption, DiskInv, NEW r \in DriveReaders, NEW d \in Drives, NEW q,
         rd[r].pc \in Reading, rd[r].d = d, ReadsOn(r, q, d)
  PROVE  DiskInv'
<1>1. /\ r # NoReader /\ DiskTypes /\ BlocksLeft /\ dev_lock[d] = r /\ LineOf[d] \in Disk!Lines
      /\ \A e \in Drives : dev_lock[e] = r => e = d
      /\ \A l \in Disk!Lines : l \notin abandoned /\ on_irq[l] = r => l = LineOf[d]
  BY Acting
<1>2. /\ q \in ReadRecs /\ q.d = d /\ q.pc \in Reading /\ rd' = [rd EXCEPT ![r] = q]
      /\ dev_lock' = dev_lock /\ abandoned' = abandoned
      /\ ReadInStep(r, q, drive'[q.d], dev_lock'[q.d], on_irq'[LineOf[q.d]],
                    wait_irq'[LineOf[q.d]], irq_asleep')
  BY DEF ReadsOn
<1>3. /\ drive' \in [Drives -> DriveRecs]
      /\ dev_lock' \in [Drives -> DriveReaders \cup {NoReader}]
      /\ on_irq' \in [Disk!Lines -> DriveReaders \cup {NoReader}]
      /\ wait_irq' \in [Disk!Lines -> DriveReaders \cup {NoReader}]
      /\ irq_asleep' \in SUBSET DriveReaders /\ irq_asleep' \ {r} \subseteq irq_asleep
  BY <1>1, <1>2 DEF ReadsOn, DiskTypes
<1>4. \A e \in Drives :
        /\ dev_lock[e] \notin {r, NoReader} => drive'[e] = drive[e] /\ dev_lock'[e] = dev_lock[e]
        /\ dev_lock'[e] \in {dev_lock[e], r, NoReader}
        /\ dev_lock'[e] = r => q.d = e /\ q.pc \in Reading
        /\ drive'[e].st = "data" => drive'[e].left > 0
  BY <1>1, <1>2 DEF ReadsOn, BlocksLeft
<1>5. \A l \in Disk!Lines :
        /\ on_irq[l] \notin {r, NoReader} => on_irq'[l] = on_irq[l] /\ wait_irq'[l] = wait_irq[l]
        /\ on_irq'[l] \in {on_irq[l], r, NoReader}
        /\ on_irq'[l] = r /\ l \notin abandoned' => LineOf[q.d] = l /\ q.pc \in Disk!Inside
  <2> SUFFICES ASSUME NEW l \in Disk!Lines
               PROVE  /\ on_irq[l] \notin {r, NoReader} => on_irq'[l] = on_irq[l] /\ wait_irq'[l] = wait_irq[l]
                      /\ on_irq'[l] \in {on_irq[l], r, NoReader}
                      /\ on_irq'[l] = r /\ l \notin abandoned' => LineOf[q.d] = l /\ q.pc \in Disk!Inside
    OBVIOUS
  <2>1. CASE l = LineOf[d]
    BY <1>2, <2>1 DEF ReadsOn
  <2>2. CASE l # LineOf[d]
    BY <1>1, <1>2, <2>2 DEF ReadsOn
  <2> QED
    BY <2>1, <2>2
<1>6. OwnStep(r, q)
  BY <1>2, <1>3, <1>4, <1>5 DEF OwnStep
<1> QED
  BY <1>6, OwnStepKeeps

\* A reader that is done with its drive, for q it is idle or returns.
Leaves(r, q, d) ==
  /\ q \in ReadRecs /\ rd' = [rd EXCEPT ![r] = q]
  /\ dev_lock' = [dev_lock EXCEPT ![d] = NoReader]
  /\ on_irq[LineOf[d]] = r => LineOf[d] \in abandoned'
  /\ abandoned \subseteq abandoned'
  /\ UNCHANGED <<drive, on_irq, wait_irq, irq_asleep>>
  /\ r \notin irq_asleep
  /\ q.pc \in {"idle", "done"} /\ (q.pc = "done" => q.got = Sects(q.len))

LEMMA LeavesKeeps ==
  ASSUME Disk!IdeAssumption, DiskInv, NEW r \in DriveReaders, NEW d \in Drives, NEW q,
         rd[r].pc \in Reading, rd[r].d = d, Leaves(r, q, d)
  PROVE  DiskInv'
<1>1. /\ r # NoReader /\ DiskTypes /\ BlocksLeft /\ dev_lock[d] = r /\ LineOf[d] \in Disk!Lines
      /\ \A e \in Drives : dev_lock[e] = r => e = d
      /\ \A l \in Disk!Lines : l \notin abandoned /\ on_irq[l] = r => l = LineOf[d]
  BY Acting
<1>2. dev_lock' \in [Drives -> DriveReaders \cup {NoReader}]
      /\ \A e \in Drives : dev_lock'[e] = IF e = d THEN NoReader ELSE dev_lock[e]
  BY <1>1 DEF Leaves, DiskTypes
<1>3. \A e \in Drives :
        /\ dev_lock[e] \notin {r, NoReader} => drive'[e] = drive[e] /\ dev_lock'[e] = dev_lock[e]
        /\ dev_lock'[e] \in {dev_lock[e], r, NoReader}
        /\ dev_lock'[e] # r
        /\ drive'[e].st = "data" => drive'[e].left > 0
  BY <1>1, <1>2 DEF Leaves, BlocksLeft
<1>4. \A l \in Disk!Lines :
        /\ on_irq[l] \notin {r, NoReader} => on_irq'[l] = on_irq[l] /\ wait_irq'[l] = wait_irq[l]
        /\ on_irq'[l] \in {on_irq[l], r, NoReader}
        /\ on_irq'[l] = r => l \in abandoned'
  BY <1>1 DEF Leaves
<1>5. ReadInStep(r, q, drive'[q.d], dev_lock'[q.d], on_irq'[LineOf[q.d]],
                 wait_irq'[LineOf[q.d]], irq_asleep')
  BY DEF Leaves, ReadInStep, Reading, ReadPcs, Disk!Inside
<1>6. OwnStep(r, q)
  BY <1>1, <1>2, <1>3, <1>4, <1>5 DEF OwnStep, Leaves, DiskTypes
<1> QED
  BY <1>6, OwnStepKeeps

\* What is known of a reader that reads.
LEMMA Reads ==
  ASSUME Disk!IdeAssumption, DiskInv, NEW r \in DriveReaders, rd[r].pc \in Reading
  PROVE  \E d \in Drives :
           /\ d = rd[r].d /\ Disk!Line(r) = LineOf[d] /\ LineOf[d] \in Disk!Lines
           /\ rd[r] \in ReadRecs /\ r # NoReader /\ DiskTypes /\ dev_lock[d] = r
           /\ drive[d] \in DriveRecs /\ (drive[d].st = "data" => drive[d].left > 0)
           /\ ReadInStep(r, rd[r], drive[d], dev_lock[d], on_irq[LineOf[d]],
                         wait_irq[LineOf[d]], irq_asleep)
  BY Acting DEF Disk!Line, BlocksLeft, DiskTypes

\* Only the place of a reader changes, and what its line says.
PcMovesTo(r, q, d, p) ==
  /\ q \in ReadRecs /\ rd' = [rd EXCEPT ![r] = q]
  /\ q.pc = p /\ q.d = d /\ q.len = rd[r].len /\ q.sent = rd[r].sent /\ q.got = rd[r].got

LEMMA CommandKeeps ==
  ASSUME Disk!IdeAssumption, DiskInv, NEW r \in DriveReaders, Disk!Command(r)
  PROVE  DiskInv'
<1>1. rd[r].pc = "command" /\ rd[r].pc \in Reading /\ r \notin irq_asleep
  BY DEF Disk!Command, Disk!At, Reading, ReadPcs
<1>2. PICK d \in Drives : 
        /\ d = rd[r].d /\ DiskTypes /\ r # NoReader
        /\ ReadInStep(r, rd[r], drive[d], dev_lock[d], on_irq[LineOf[d]],
                      wait_irq[LineOf[d]], irq_asleep)
  BY <1>1, Reads
<1>3. PICK q : PcMovesTo(r, q, d, "poll_packet")
  BY <1>2, PcGoes DEF Disk!Command, ReadPcs, PcMovesTo
<1>4. UNCHANGED <<dev_lock, on_irq, wait_irq, irq_asleep, abandoned>>
  BY DEF Disk!Command
<1>5. /\ drive' \in [Drives -> DriveRecs] /\ drive'[d].st = "command"
      /\ \A e \in Drives \ {d} : drive'[e] = drive[e]
  BY <1>2, DriveTurns DEF Disk!Command
<1>6. ReadInStep(r, q, drive'[d], dev_lock[d], on_irq'[LineOf[d]], wait_irq'[LineOf[d]],
                 irq_asleep')
  BY <1>1, <1>2, <1>3, <1>4 DEF ReadInStep, PcMovesTo, Reading, ReadPcs, Disk!Inside
<1>7. on_irq[LineOf[d]] = r => LineOf[d] \in abandoned
  BY <1>1, <1>2, Acting DEF Disk!Inside
<1>8. ReadsOn(r, q, d)
  BY <1>2, <1>3, <1>4, <1>5, <1>6, <1>7 DEF ReadsOn, PcMovesTo, DiskTypes, Reading, ReadPcs
<1> QED
  BY <1>1, <1>2, <1>8, ReadsOnKeeps

\* A read that fails.
LEMMA FailsKeeps ==
  ASSUME Disk!IdeAssumption, DiskInv, NEW r \in DriveReaders, rd[r].pc \in Reading,
         r \notin irq_asleep, Disk!Fails(r), UNCHANGED <<drive, on_irq, wait_irq, irq_asleep>>
  PROVE  DiskInv'
<1>1. PICK d \in Drives : d = rd[r].d /\ Disk!Line(r) = LineOf[d]
  BY Reads
<1>2. Leaves(r, Disk!Idle, d)
  BY <1>1, IdleIs DEF Disk!Fails, Leaves
<1> QED
  BY <1>1, <1>2, LeavesKeeps

\* ide_polling(): the reader goes on where it asks for what the drive is ready for.
LEMMA PollKeeps ==
  ASSUME Disk!IdeAssumption, DiskInv, NEW r \in DriveReaders, NEW p \in ReadPcs,
         \/ rd[r].pc = "poll_packet" /\ p = "prewait"
         \/ rd[r].pc = "poll_data" /\ p = "insw",
         r \notin irq_asleep,
         IF Disk!Asks(rd[r].d) THEN Disk!Goto(r, p) /\ UNCHANGED <<dev_lock, abandoned>>
         ELSE Disk!Fails(r),
         UNCHANGED <<drive, on_irq, wait_irq, irq_asleep>>
  PROVE  DiskInv'
<1>1. rd[r].pc \in Reading
  BY DEF Reading, ReadPcs
<1>2. CASE ~Disk!Asks(rd[r].d)
  BY <1>1, <1>2, FailsKeeps
<1>3. CASE Disk!Asks(rd[r].d)
  <2>1. PICK d \in Drives :
          /\ d = rd[r].d /\ DiskTypes /\ r # NoReader
          /\ ReadInStep(r, rd[r], drive[d], dev_lock[d], on_irq[LineOf[d]],
                        wait_irq[LineOf[d]], irq_asleep)
          /\ (drive[d].st = "data" => drive[d].left > 0)
    BY <1>1, Reads
  <2>2. PICK q : PcMovesTo(r, q, d, p)
    BY <1>3, <2>1, PcGoes DEF PcMovesTo
  <2>3. UNCHANGED <<drive, dev_lock, on_irq, wait_irq, irq_asleep, abandoned>>
    BY <1>3
  <2>4. ReadInStep(r, q, drive'[d], dev_lock[d], on_irq'[LineOf[d]], wait_irq'[LineOf[d]],
                   irq_asleep')
    BY <1>3, <2>1, <2>2, <2>3
       DEF ReadInStep, PcMovesTo, Reading, ReadPcs, Disk!Inside, Disk!Asks
  <2>5. on_irq[LineOf[d]] = r => p \in Disk!Inside \/ LineOf[d] \in abandoned
    BY <2>1, Acting DEF Disk!Inside, Disk!Lines
  <2>6. ReadsOn(r, q, d)
    BY <2>1, <2>2, <2>3, <2>4, <2>5 DEF ReadsOn, PcMovesTo, DiskTypes, Reading, ReadPcs
  <2> QED
    BY <1>1, <2>1, <2>6, ReadsOnKeeps
<1> QED
  BY <1>2, <1>3

\* ide_prewait_irq()
LEMMA PrewaitLockKeeps ==
  ASSUME Disk!IdeAssumption, DiskInv, NEW r \in DriveReaders, Disk!PrewaitLock(r)
  PROVE  DiskInv'
<1>1. rd[r].pc = "prewait" /\ rd[r].pc \in Reading /\ r \notin irq_asleep
  BY DEF Disk!PrewaitLock, Disk!At, Reading, ReadPcs
<1>2. PICK d \in Drives :
        /\ d = rd[r].d /\ DiskTypes /\ r # NoReader
        /\ Disk!Line(r) = LineOf[d] /\ LineOf[d] \in Disk!Lines
        /\ ReadInStep(r, rd[r], drive[d], dev_lock[d], on_irq[LineOf[d]],
                      wait_irq[LineOf[d]], irq_asleep)
        /\ (drive[d].st = "data" => drive[d].left > 0)
  BY <1>1, Reads
<1>3. PICK q : PcMovesTo(r, q, d, "set_wait")
  BY <1>2, PcGoes DEF Disk!PrewaitLock, ReadPcs, PcMovesTo
<1>4. /\ UNCHANGED <<drive, dev_lock, wait_irq, irq_asleep, abandoned>>
      /\ on_irq[LineOf[d]] = NoReader /\ on_irq' = [on_irq EXCEPT ![LineOf[d]] = r]
  BY <1>2 DEF Disk!PrewaitLock
<1>5. /\ on_irq' \in [Disk!Lines -> DriveReaders \cup {NoReader}] /\ on_irq'[LineOf[d]] = r
      /\ \A l \in Disk!Lines \ {LineOf[d]} : on_irq'[l] = on_irq[l]
  BY <1>2, <1>4 DEF DiskTypes
<1>6. ReadInStep(r, q, drive'[d], dev_lock[d], on_irq'[LineOf[d]], wait_irq'[LineOf[d]],
                 irq_asleep')
  BY <1>1, <1>2, <1>3, <1>4, <1>5 DEF ReadInStep, PcMovesTo, Reading, ReadPcs, Disk!Inside
<1>7. q.pc \in Disk!Inside
  BY <1>3 DEF PcMovesTo, Disk!Inside
<1>8. ReadsOn(r, q, d)
  BY <1>2, <1>3, <1>4, <1>5, <1>6, <1>7 DEF ReadsOn, PcMovesTo, DiskTypes, Reading, ReadPcs
<1> QED
  BY <1>1, <1>2, <1>8, ReadsOnKeeps

LEMMA PrewaitSetKeeps ==
  ASSUME Disk!IdeAssumption, DiskInv, NEW r \in DriveReaders, Disk!PrewaitSet(r)
  PROVE  DiskInv'
<1>1. rd[r].pc = "set_wait" /\ rd[r].pc \in Reading /\ r \notin irq_asleep
  BY DEF Disk!PrewaitSet, Disk!At, Reading, ReadPcs
<1>2. PICK d \in Drives :
        /\ d = rd[r].d /\ DiskTypes /\ r # NoReader
        /\ Disk!Line(r) = LineOf[d] /\ LineOf[d] \in Disk!Lines
        /\ ReadInStep(r, rd[r], drive[d], dev_lock[d], on_irq[LineOf[d]],
                      wait_irq[LineOf[d]], irq_asleep)
        /\ (drive[d].st = "data" => drive[d].left > 0)
  BY <1>1, Reads
<1>a. PICK p \in {"poll_data", "send"} : p = IF rd[r].sent THEN "poll_data" ELSE "send"
  OBVIOUS
<1>3. PICK q : PcMovesTo(r, q, d, p)
  BY <1>a, <1>2, PcGoes DEF Disk!PrewaitSet, ReadPcs, PcMovesTo
<1>4. /\ UNCHANGED <<drive, dev_lock, on_irq, irq_asleep, abandoned>>
      /\ wait_irq' = [wait_irq EXCEPT ![LineOf[d]] = r]
  BY <1>2 DEF Disk!PrewaitSet
<1>5. /\ wait_irq' \in [Disk!Lines -> DriveReaders \cup {NoReader}] /\ wait_irq'[LineOf[d]] = r
      /\ \A l \in Disk!Lines \ {LineOf[d]} : wait_irq'[l] = wait_irq[l]
  BY <1>2, <1>4 DEF DiskTypes
<1>6. ReadInStep(r, q, drive'[d], dev_lock[d], on_irq'[LineOf[d]], wait_irq'[LineOf[d]],
                 irq_asleep')
  BY <1>1, <1>2, <1>a, <1>3, <1>4, <1>5 DEF ReadInStep, PcMovesTo, Reading, ReadPcs, Disk!Inside
<1>7. q.pc \in Disk!Inside /\ on_irq[LineOf[d]] = r
  BY <1>1, <1>2, <1>a, <1>3 DEF PcMovesTo, Disk!Inside, ReadInStep
<1>8. ReadsOn(r, q, d)
  BY <1>2, <1>a, <1>3, <1>4, <1>5, <1>6, <1>7 DEF ReadsOn, PcMovesTo, DiskTypes, Reading, ReadPcs
<1> QED
  BY <1>1, <1>2, <1>8, ReadsOnKeeps

\* outsw(): the drive has all the blocks still to send.
LEMMA SendKeeps ==
  ASSUME Disk!IdeAssumption, DiskInv, NEW r \in DriveReaders, Disk!SendPacket(r)
  PROVE  DiskInv'
<1>1. rd[r].pc = "send" /\ rd[r].pc \in Reading /\ r \notin irq_asleep
  BY DEF Disk!SendPacket, Disk!At, Reading, ReadPcs
<1>2. PICK d \in Drives :
        /\ d = rd[r].d /\ DiskTypes /\ r # NoReader /\ rd[r] \in ReadRecs
        /\ ReadInStep(r, rd[r], drive[d], dev_lock[d], on_irq[LineOf[d]],
                      wait_irq[LineOf[d]], irq_asleep)
  BY <1>1, Reads
<1>3. PICK b : b = rd[r]
  OBVIOUS
<1>4. PICK q : q = [b EXCEPT !.pc = "wait", !.sent = TRUE]
  OBVIOUS
<1>5. /\ q \in ReadRecs /\ q.pc = "wait" /\ q.d = d /\ q.len = b.len /\ q.sent = TRUE
      /\ q.got = b.got
  BY <1>2, <1>3, <1>4 DEF ReadRecs, ReadPcs
<1>6. rd' = [rd EXCEPT ![r] = q]
  BY <1>2, <1>3, <1>4 DEF Disk!SendPacket, DiskTypes
<1>7. PICK v : v = [st |-> "busy", left |-> Sects(b.len)]
  OBVIOUS
<1>8. v \in DriveRecs /\ v.st = "busy" /\ v.left = Sects(b.len) /\ Sects(b.len) \in Nat
  BY <1>2, <1>3, <1>7, SectsAre DEF DriveRecs, ReadRecs
<1>9. drive' = [drive EXCEPT ![d] = v]
  BY <1>2, <1>3, <1>7 DEF Disk!SendPacket, Disk!numsects, Sects
<1>10. UNCHANGED <<dev_lock, on_irq, wait_irq, irq_asleep, abandoned>>
  BY DEF Disk!SendPacket
<1>11. /\ drive' \in [Drives -> DriveRecs] /\ drive'[d] = v
       /\ \A e \in Drives \ {d} : drive'[e] = drive[e]
  BY <1>2, <1>8, <1>9 DEF DiskTypes
<1>12. b.got = 0 /\ b.pc = "send"
  BY <1>1, <1>2, <1>3 DEF ReadInStep, Reading, ReadPcs
<1>13. ReadInStep(r, q, v, dev_lock[d], on_irq[LineOf[d]], wait_irq[LineOf[d]],
                  irq_asleep)
  BY <1>1, <1>2, <1>3, <1>5, <1>8, <1>12 DEF ReadInStep, Reading, ReadPcs, Disk!Inside
<1>14. q.pc \in Disk!Inside /\ q.pc \in Reading
  BY <1>5 DEF Disk!Inside, Reading, ReadPcs
<1>15. ReadsOn(r, q, d)
  BY <1>2, <1>5, <1>6, <1>8, <1>10, <1>11, <1>13, <1>14 DEF ReadsOn, DiskTypes
<1> QED
  BY <1>1, <1>2, <1>15, ReadsOnKeeps

\* ide_wait_irq() returns.
LEMMA WaitEndsKeeps ==
  ASSUME Disk!IdeAssumption, DiskInv, NEW r \in DriveReaders, rd[r].pc \in {"wait", "woken"},
         r \notin irq_asleep, Disk!Unlocked(r),
         NEW p \in {"prewait", "finish", "terminate"}, Disk!Goto(r, p),
         p = "finish" => ~(rd[r].got < Disk!numsects(r)),
         UNCHANGED <<drive, dev_lock, wait_irq, irq_asleep, abandoned>>
  PROVE  DiskInv'
<1>1. rd[r].pc \in Reading
  BY DEF Reading, ReadPcs
<1>2. PICK d \in Drives :
        /\ d = rd[r].d /\ DiskTypes /\ r # NoReader /\ rd[r] \in ReadRecs
        /\ drive[d] \in DriveRecs
        /\ Disk!Line(r) = LineOf[d] /\ LineOf[d] \in Disk!Lines
        /\ ReadInStep(r, rd[r], drive[d], dev_lock[d], on_irq[LineOf[d]],
                      wait_irq[LineOf[d]], irq_asleep)
        /\ (drive[d].st = "data" => drive[d].left > 0)
  BY <1>1, Reads
<1>3. PICK q : PcMovesTo(r, q, d, p)
  BY <1>2, PcGoes DEF ReadPcs, PcMovesTo
<1>4. on_irq' = [on_irq EXCEPT ![LineOf[d]] = NoReader]
  BY <1>2 DEF Disk!Unlocked
<1>5. /\ on_irq' \in [Disk!Lines -> DriveReaders \cup {NoReader}] /\ on_irq'[LineOf[d]] = NoReader
      /\ \A l \in Disk!Lines \ {LineOf[d]} : on_irq'[l] = on_irq[l]
  BY <1>2, <1>4 DEF DiskTypes
<1>6. p = "finish" => rd[r].got = Sects(rd[r].len)
  <2>1. rd[r].sent /\ rd[r].got + drive[d].left = Sects(rd[r].len)
    BY <1>1, <1>2 DEF ReadInStep
  <2>2. /\ rd[r].got \in Nat /\ drive[d].left \in Nat /\ Sects(rd[r].len) \in Nat
        /\ Disk!numsects(r) = Sects(rd[r].len)
    BY <1>2, SectsAre DEF ReadRecs, DriveRecs, Sects, Disk!numsects
  <2> QED
    BY <2>1, <2>2
<1>7. ReadInStep(r, q, drive'[d], dev_lock[d], on_irq'[LineOf[d]], wait_irq'[LineOf[d]],
                 irq_asleep')
  BY <1>1, <1>2, <1>3, <1>5, <1>6 DEF ReadInStep, PcMovesTo, Reading, ReadPcs, Disk!Inside
<1>8. on_irq[LineOf[d]] = r
  BY <1>2 DEF ReadInStep, Disk!Inside
<1>9. ReadsOn(r, q, d)
  BY <1>2, <1>3, <1>5, <1>7, <1>8 DEF ReadsOn, PcMovesTo, DiskTypes, Reading, ReadPcs
<1> QED
  BY <1>1, <1>2, <1>9, ReadsOnKeeps

LEMMA WaitsKeep ==
  ASSUME Disk!IdeAssumption, DiskInv, NEW r \in DriveReaders,
         Disk!WaitNot(r) \/ Disk!Woken(r)
  PROVE  DiskInv'
<1>1. PICK p \in {"prewait", "finish"} :
        p = Disk!AfterWait(r) /\ (p = "finish" => ~(rd[r].got < Disk!numsects(r)))
  BY DEF Disk!AfterWait
<1>2. CASE Disk!WaitNot(r)
  BY <1>1, <1>2, WaitEndsKeeps DEF Disk!WaitNot, Disk!At
<1>3. CASE Disk!Woken(r)
  <2>1. PICK t \in {"prewait", "finish", "terminate"} :
          Disk!Goto(r, t) /\ (t = "finish" => ~(rd[r].got < Disk!numsects(r)))
    BY <1>1, <1>3 DEF Disk!Woken
  <2> QED
    BY <1>3, <2>1, WaitEndsKeeps DEF Disk!Woken, Disk!At
<1> QED
  BY <1>2, <1>3

LEMMA WaitSleepKeeps ==
  ASSUME Disk!IdeAssumption, DiskInv, NEW r \in DriveReaders, Disk!WaitSleep(r)
  PROVE  DiskInv'
<1>1. rd[r].pc = "wait" /\ rd[r].pc \in Reading /\ r \notin irq_asleep
  BY DEF Disk!WaitSleep, Disk!At, Reading, ReadPcs
<1>2. PICK d \in Drives :
        /\ d = rd[r].d /\ DiskTypes /\ r # NoReader
        /\ Disk!Line(r) = LineOf[d] /\ LineOf[d] \in Disk!Lines
        /\ ReadInStep(r, rd[r], drive[d], dev_lock[d], on_irq[LineOf[d]],
                      wait_irq[LineOf[d]], irq_asleep)
        /\ (drive[d].st = "data" => drive[d].left > 0)
  BY <1>1, Reads
<1>3. PICK q : PcMovesTo(r, q, d, "woken")
  BY <1>2, PcGoes DEF Disk!WaitSleep, ReadPcs, PcMovesTo
<1>4. /\ UNCHANGED <<drive, dev_lock, on_irq, wait_irq, abandoned>>
      /\ irq_asleep' = irq_asleep \cup {r} /\ wait_irq[LineOf[d]] # NoReader
  BY <1>2 DEF Disk!WaitSleep
<1>5. wait_irq[LineOf[d]] = r /\ on_irq[LineOf[d]] = r
  BY <1>1, <1>2, <1>4 DEF ReadInStep, Disk!Inside
<1>6. ReadInStep(r, q, drive'[d], dev_lock[d], on_irq'[LineOf[d]], wait_irq'[LineOf[d]],
                 irq_asleep')
  BY <1>1, <1>2, <1>3, <1>4, <1>5 DEF ReadInStep, PcMovesTo, Reading, ReadPcs, Disk!Inside
<1>7. q.pc \in Disk!Inside
  BY <1>3 DEF PcMovesTo, Disk!Inside
<1>8. ReadsOn(r, q, d)
  BY <1>2, <1>3, <1>4, <1>6, <1>7 DEF ReadsOn, PcMovesTo, DiskTypes, Reading, ReadPcs
<1> QED
  BY <1>1, <1>2, <1>8, ReadsOnKeeps

\* insw(): one block of those the drive has left.
LEMMA ReadBlockKeeps ==
  ASSUME Disk!IdeAssumption, DiskInv, NEW r \in DriveReaders, Disk!ReadBlock(r)
  PROVE  DiskInv'
<1>1. rd[r].pc = "insw" /\ rd[r].pc \in Reading /\ r \notin irq_asleep
  BY DEF Disk!ReadBlock, Disk!At, Reading, ReadPcs
<1>2. PICK d \in Drives :
        /\ d = rd[r].d /\ DiskTypes /\ r # NoReader /\ rd[r] \in ReadRecs
        /\ drive[d] \in DriveRecs /\ (drive[d].st = "data" => drive[d].left > 0)
        /\ ReadInStep(r, rd[r], drive[d], dev_lock[d], on_irq[LineOf[d]],
                      wait_irq[LineOf[d]], irq_asleep)
  BY <1>1, Reads
<1>3. PICK b, u : b = rd[r] /\ u = drive[d]
  OBVIOUS
<1>4. /\ drive[d].st = "data" /\ u.left \in Nat /\ u.left > 0 /\ b.sent /\ b.pc = "insw"
      /\ b.got + u.left = Sects(b.len) /\ b \in ReadRecs /\ b.d = d
      /\ wait_irq[LineOf[d]] \in {r, NoReader} /\ on_irq[LineOf[d]] = r /\ dev_lock[d] = r
  BY <1>1, <1>2, <1>3 DEF ReadInStep, DriveRecs, Disk!Inside
<1>a. PICK g \in Nat : g = b.got + 1
  BY <1>4 DEF ReadRecs
<1>5. PICK q, v : q = [b EXCEPT !.got = g, !.pc = "wait"]
                  /\ v = [st |-> "busy", left |-> u.left - 1]
  OBVIOUS
<1>6. /\ q \in ReadRecs /\ q.pc = "wait" /\ q.d = d /\ q.len = b.len /\ q.sent = b.sent
      /\ q.got = b.got + 1
  BY <1>a, <1>4, <1>5 DEF ReadRecs, ReadPcs
<1>7. v \in DriveRecs /\ v.st = "busy" /\ v.left = u.left - 1
  BY <1>4, <1>5 DEF DriveRecs
<1>8. rd' = [rd EXCEPT ![r] = q]
  <2>1. rd' = [rd EXCEPT ![r].got = @ + 1, ![r].pc = "wait"]
    BY <1>2, <1>4 DEF Disk!ReadBlock
  <2> QED
    BY <1>a, <1>2, <1>3, <1>5, <2>1 DEF DiskTypes
<1>9. drive' = [drive EXCEPT ![d] = v]
  <2>1. drive' = [drive EXCEPT ![d] = [st |-> "busy", left |-> @.left - 1]]
    BY <1>2, <1>4 DEF Disk!ReadBlock
  <2> QED
    BY <1>2, <1>3, <1>5, <2>1 DEF DiskTypes
<1>10. UNCHANGED <<dev_lock, on_irq, wait_irq, irq_asleep, abandoned>>
  BY DEF Disk!ReadBlock
<1>11. /\ drive' \in [Drives -> DriveRecs] /\ drive'[d] = v
       /\ \A e \in Drives \ {d} : drive'[e] = drive[e]
  BY <1>2, <1>7, <1>9 DEF DiskTypes
<1>12. q.got + v.left = Sects(q.len)
  <2>1. b.got \in Nat
    BY <1>4 DEF ReadRecs
  <2> QED
    BY <1>4, <1>6, <1>7, <2>1
<1>13. ReadInStep(r, q, v, dev_lock[d], on_irq[LineOf[d]], wait_irq[LineOf[d]],
                  irq_asleep)
  BY <1>1, <1>4, <1>6, <1>7, <1>12 DEF ReadInStep, Reading, ReadPcs, Disk!Inside
<1>14. q.pc \in Disk!Inside /\ q.pc \in Reading
  BY <1>6 DEF Disk!Inside, Reading, ReadPcs
<1>15. ReadsOn(r, q, d)
  BY <1>2, <1>6, <1>7, <1>8, <1>10, <1>11, <1>13, <1>14 DEF ReadsOn, DiskTypes
<1> QED
  BY <1>1, <1>2, <1>15, ReadsOnKeeps

LEMMA EndsKeep ==
  ASSUME Disk!IdeAssumption, DiskInv, NEW r \in DriveReaders,
         Disk!Finish(r) \/ Disk!Terminate(r)
  PROVE  DiskInv'
<1>1. /\ rd[r].pc \in {"finish", "terminate"} /\ rd[r].pc \in Reading /\ r \notin irq_asleep
      /\ UNCHANGED <<drive, on_irq, wait_irq, irq_asleep, abandoned>>
  BY DEF Disk!Finish, Disk!Terminate, Disk!At, Reading, ReadPcs
<1>2. PICK d \in Drives :
        /\ d = rd[r].d /\ DiskTypes
        /\ ReadInStep(r, rd[r], drive[d], dev_lock[d], on_irq[LineOf[d]],
                      wait_irq[LineOf[d]], irq_asleep)
  BY <1>1, Reads
<1>3. on_irq[LineOf[d]] = r => LineOf[d] \in abandoned
  BY <1>1, <1>2, Acting DEF Disk!Inside, Disk!Lines
<1>4. dev_lock' = [dev_lock EXCEPT ![d] = NoReader]
  BY <1>2 DEF Disk!Finish, Disk!Terminate
<1>5. CASE Disk!Finish(r)
  <2>1. PICK q : PcMovesTo(r, q, d, "done")
    BY <1>2, <1>5, PcGoes DEF Disk!Finish, ReadPcs, PcMovesTo
  <2>2. rd[r].got = Sects(rd[r].len)
    BY <1>2, <1>5 DEF ReadInStep, Disk!Finish, Disk!At
  <2>3. Leaves(r, q, d)
    BY <1>1, <1>3, <1>4, <2>1, <2>2 DEF Leaves, PcMovesTo
  <2> QED
    BY <1>1, <1>2, <2>3, LeavesKeeps
<1>6. CASE Disk!Terminate(r)
  <2>1. Leaves(r, Disk!Idle, d)
    BY <1>1, <1>3, <1>4, <1>6, IdleIs DEF Leaves, Disk!Terminate
  <2> QED
    BY <1>1, <1>2, <2>1, LeavesKeeps
<1> QED
  BY <1>5, <1>6

LEMMA ReturnKeeps ==
  ASSUME Disk!IdeAssumption, DiskInv, NEW r \in DriveReaders, Disk!Return(r)
  PROVE  DiskInv'
<1>1. /\ rd[r].pc = "done" /\ r \notin irq_asleep /\ rd' = [rd EXCEPT ![r] = Disk!Idle]
      /\ UNCHANGED <<drive, dev_lock, on_irq, wait_irq, irq_asleep, abandoned>>
  BY DEF Disk!Return, Disk!At
<1>2. /\ r # NoReader /\ DiskTypes /\ BlocksLeft
      /\ \A e \in Drives : dev_lock[e] # r
      /\ \A l \in Disk!Lines : l \notin abandoned => on_irq[l] # r
  BY <1>1, Acting DEF Reading, Disk!Inside
<1>3. ReadInStep(r, Disk!Idle, drive'[Disk!Idle.d], dev_lock'[Disk!Idle.d],
                 on_irq'[LineOf[Disk!Idle.d]], wait_irq'[LineOf[Disk!Idle.d]], irq_asleep')
  BY <1>1, IdleIs DEF ReadInStep, Reading, ReadPcs, Disk!Inside
<1>4. OwnStep(r, Disk!Idle)
  BY <1>1, <1>2, <1>3, IdleIs DEF OwnStep, DiskTypes, BlocksLeft
<1> QED
  BY <1>4, OwnStepKeeps

LEMMA ReaderKeeps ==
  ASSUME Disk!IdeAssumption, DiskInv, NEW r \in DriveReaders, Disk!ReaderStep(r)
  PROVE  DiskInv'
<1>1. CASE Disk!PollPacket(r)
  BY <1>1, PollKeeps DEF Disk!PollPacket, Disk!At, ReadPcs
<1>2. CASE Disk!PollData(r)
  BY <1>2, PollKeeps DEF Disk!PollData, Disk!At, ReadPcs
<1> QED
  BY <1>1, <1>2, ReadBegins, CommandKeeps, PrewaitLockKeeps, PrewaitSetKeeps, SendKeeps,
     WaitsKeep, WaitSleepKeeps, ReadBlockKeeps, EndsKeep, ReturnKeeps DEF Disk!ReaderStep

\* kill_thread() only wakes, and so does the timer of an earlier select().
LEMMA KillKeeps ==
  ASSUME Disk!IdeAssumption, DiskInv, NEW r \in DriveReaders, Disk!Kill(r) \/ Disk!Stray(r)
  PROVE  DiskInv'
<1>1. /\ UNCHANGED <<drive, dev_lock, on_irq, wait_irq, rd, abandoned>>
      /\ irq_asleep' = irq_asleep \ {r}
  BY DEF Disk!Kill, Disk!Stray
<1>2. DiskTypes' /\ DriveLocks' /\ LineLocks' /\ BlocksLeft'
  BY <1>1 DEF DiskInv, DiskTypes, DriveLocks, LineLocks, BlocksLeft
<1>3. ASSUME NEW s \in DriveReaders PROVE ReaderInStep(s)'
  <2>1. ReaderInStep(s)
    BY DEF DiskInv
  <2> QED
    BY <1>1, <2>1 DEF ReaderInStep, ReadInStep
<1> QED
  BY <1>2, <1>3 DEF DiskInv

\* A drive that raises its line, or another on the same line: who waits has its
\* wait_irq cleared, and is woken.
DriveActs(l) ==
  /\ UNCHANGED <<dev_lock, on_irq, rd, abandoned>>
  /\ drive' \in [Drives -> DriveRecs]
  /\ \A d \in Drives : \/ drive'[d] = drive[d]
                       \/ drive[d].st = "command" /\ drive'[d].st # "data"
                       \/ /\ drive[d].st = "busy" /\ drive'[d].left = drive[d].left
                          /\ drive'[d].st \in {"error", "data", "idle"}
                          /\ LineOf[d] = l /\ wait_irq'[l] = NoReader
                          /\ (drive'[d].st = "data" => drive'[d].left > 0)
  /\ wait_irq' \in [Disk!Lines -> DriveReaders \cup {NoReader}]
  /\ irq_asleep' \subseteq irq_asleep
  /\ \A k \in Disk!Lines : \/ wait_irq'[k] = wait_irq[k]
                           \/ wait_irq'[k] = NoReader /\ wait_irq[k] \notin irq_asleep'

LEMMA DriveActsKeeps ==
  ASSUME Disk!IdeAssumption, DiskInv, NEW l \in Disk!Lines, DriveActs(l)
  PROVE  DiskInv'
<1>0. DiskTypes /\ DriveLocks /\ LineLocks /\ BlocksLeft
  BY DEF DiskInv
<1>1. UNCHANGED <<dev_lock, on_irq, rd, abandoned>>
  BY DEF DriveActs
<1>2. DiskTypes' /\ DriveLocks' /\ LineLocks'
  BY <1>0, <1>1 DEF DriveActs, DiskTypes, DriveLocks, LineLocks
<1>3. BlocksLeft'
  BY <1>0 DEF DriveActs, BlocksLeft
<1>4. ASSUME NEW s \in DriveReaders PROVE ReaderInStep(s)'
  <2>1. PICK q : q = rd[s] /\ rd'[s] = q
    BY <1>1
  <2>2. ReadInStep(s, q, drive[q.d], dev_lock[q.d], on_irq[LineOf[q.d]],
                   wait_irq[LineOf[q.d]], irq_asleep)
    BY <2>1 DEF ReaderInStep, DiskInv
  <2>3. q.pc \in Reading => q.d \in Drives /\ LineOf[q.d] \in Disk!Lines
    BY <2>2 DEF ReadInStep, Disk!Lines
  <2>4. q.pc \in Disk!Inside => q.pc \in Reading
    BY DEF Disk!Inside, Reading, ReadPcs
  <2>5. s # NoReader
    BY DEF Disk!IdeAssumption
  <2>6. q.pc \in Disk!Inside => \/ wait_irq'[LineOf[q.d]] = wait_irq[LineOf[q.d]]
                                \/ wait_irq'[LineOf[q.d]] = NoReader
    BY <2>3, <2>4 DEF DriveActs
  <2>7. s \in irq_asleep' => s \in irq_asleep /\ wait_irq'[LineOf[q.d]] = wait_irq[LineOf[q.d]]
    <3>1. s \in irq_asleep' =>
            s \in irq_asleep /\ q.pc \in Disk!Inside /\ wait_irq[LineOf[q.d]] = s
      BY <2>2 DEF DriveActs, ReadInStep, Disk!Inside
    <3> QED
      BY <2>3, <2>4, <3>1 DEF DriveActs
  <2>8. q.pc \in Reading /\ q.sent =>
           \/ drive'[q.d] = drive[q.d]
           \/ /\ drive[q.d].st = "busy" /\ drive'[q.d].left = drive[q.d].left
              /\ drive'[q.d].st \in {"error", "data", "idle"}
              /\ wait_irq'[LineOf[q.d]] = NoReader
    <3>1. q.pc \in Reading /\ q.sent => drive[q.d].st # "command"
      BY <2>2 DEF ReadInStep
    <3> QED
      BY <2>3, <3>1 DEF DriveActs
  <2>9. ReadInStep(s, q, drive'[q.d], dev_lock[q.d], on_irq[LineOf[q.d]],
                   wait_irq'[LineOf[q.d]], irq_asleep')
    BY <2>2, <2>5, <2>6, <2>7, <2>8, ReadDepends
  <2> QED
    BY <1>1, <2>1, <2>9 DEF ReaderInStep
<1> QED
  BY <1>2, <1>3, <1>4 DEF DiskInv

\* The handler of a line.
LEMMA InterruptWakes ==
  ASSUME DiskTypes, NEW l \in Disk!Lines, Disk!Interrupt(l)
  PROVE  /\ wait_irq' \in [Disk!Lines -> DriveReaders \cup {NoReader}]
         /\ wait_irq'[l] = NoReader /\ irq_asleep' \subseteq irq_asleep
         /\ \A k \in Disk!Lines : \/ wait_irq'[k] = wait_irq[k]
                                  \/ wait_irq'[k] = NoReader /\ wait_irq[k] \notin irq_asleep'
  BY DEF Disk!Interrupt, Disk!Forgotten, DiskTypes

LEMMA DrivesKeep ==
  ASSUME Disk!IdeAssumption, DiskInv,
         \/ \E d \in Drives : Disk!WantsPacket(d) \/ Disk!Interrupts(d)
         \/ \E l \in Disk!Lines : Disk!OtherInterrupt(l)
  PROVE  DiskInv'
<1>0. DiskTypes
  BY DEF DiskInv
<1>1. ASSUME NEW d \in Drives, Disk!WantsPacket(d) PROVE DiskInv'
  <2>1. PICK st \in {"packet", "error"} : drive[d].st = "command" /\ Disk!Turns(d, st)
    BY <1>1 DEF Disk!WantsPacket
  <2>2. /\ drive' \in [Drives -> DriveRecs] /\ drive'[d].st = st
        /\ \A e \in Drives \ {d} : drive'[e] = drive[e]
    BY <1>0, <2>1, DriveTurns
  <2>3. UNCHANGED <<dev_lock, on_irq, rd, abandoned>>
    BY <1>1 DEF Disk!WantsPacket, Disk!OthersSame
  <2>4. LineOf[d] \in Disk!Lines
    BY DEF Disk!Lines
  <2>5. /\ wait_irq' \in [Disk!Lines -> DriveReaders \cup {NoReader}]
        /\ irq_asleep' \subseteq irq_asleep
        /\ \A k \in Disk!Lines : \/ wait_irq'[k] = wait_irq[k]
                                 \/ wait_irq'[k] = NoReader /\ wait_irq[k] \notin irq_asleep'
    <3>1. CASE Disk!Interrupt(LineOf[d])
      BY <1>0, <2>4, <3>1, InterruptWakes
    <3>2. CASE UNCHANGED <<wait_irq, irq_asleep>>
      BY <1>0, <3>2 DEF DiskTypes
    <3> QED
      BY <1>1, <3>1, <3>2 DEF Disk!WantsPacket
  <2>6. DriveActs(LineOf[d])
    BY <2>1, <2>2, <2>3, <2>5 DEF DriveActs
  <2> QED
    BY <2>4, <2>6, DriveActsKeeps
<1>2. ASSUME NEW d \in Drives, Disk!Interrupts(d) PROVE DiskInv'
  <2>1. PICK st \in {"error", "data", "idle"} :
          /\ drive[d].st = "busy" /\ Disk!Turns(d, st)
          /\ st = "data" => drive[d].left > 0
    BY <1>2 DEF Disk!Interrupts
  <2>2. /\ drive' \in [Drives -> DriveRecs] /\ drive'[d].st = st
        /\ drive'[d].left = drive[d].left
        /\ \A e \in Drives \ {d} : drive'[e] = drive[e]
    BY <1>0, <2>1, DriveTurns
  <2>3. UNCHANGED <<dev_lock, on_irq, rd, abandoned>> /\ Disk!Interrupt(LineOf[d])
    BY <1>2 DEF Disk!Interrupts, Disk!OthersSame
  <2>4. LineOf[d] \in Disk!Lines
    BY DEF Disk!Lines
  <2>5. /\ wait_irq' \in [Disk!Lines -> DriveReaders \cup {NoReader}]
        /\ wait_irq'[LineOf[d]] = NoReader /\ irq_asleep' \subseteq irq_asleep
        /\ \A k \in Disk!Lines : \/ wait_irq'[k] = wait_irq[k]
                                 \/ wait_irq'[k] = NoReader /\ wait_irq[k] \notin irq_asleep'
    BY <1>0, <2>3, <2>4, InterruptWakes
  <2>6. DriveActs(LineOf[d])
    BY <2>1, <2>2, <2>3, <2>5 DEF DriveActs
  <2> QED
    BY <2>4, <2>6, DriveActsKeeps
<1>3. ASSUME NEW l \in Disk!Lines, Disk!OtherInterrupt(l) PROVE DiskInv'
  <2>1. UNCHANGED <<drive, dev_lock, on_irq, rd, abandoned>> /\ Disk!Interrupt(l)
    BY <1>3 DEF Disk!OtherInterrupt, Disk!OthersSame
  <2>2. DriveActs(l)
    BY <1>0, <2>1, InterruptWakes DEF DriveActs, DiskTypes
  <2> QED
    BY <2>2, DriveActsKeeps
<1> QED
  BY <1>1, <1>2, <1>3

LEMMA DiskBegins ==
  ASSUME Disk!IdeAssumption, Disk!Init
  PROVE  DiskInv
<1>1. PICK v : v = [st |-> "idle", left |-> 0]
  OBVIOUS
<1>2. v \in DriveRecs /\ v.st = "idle"
  BY <1>1 DEF DriveRecs
<1>3. /\ drive = [d \in Drives |-> v] /\ rd = [r \in DriveReaders |-> Disk!Idle]
      /\ dev_lock = [d \in Drives |-> NoReader]
      /\ on_irq = [l \in Disk!Lines |-> NoReader] /\ wait_irq = [l \in Disk!Lines |-> NoReader]
      /\ irq_asleep = {}
  BY <1>1 DEF Disk!Init
<1>4. DiskTypes
  BY <1>2, <1>3, IdleIs DEF DiskTypes
<1>5. DriveLocks /\ LineLocks /\ BlocksLeft
  BY <1>2, <1>3 DEF DriveLocks, LineLocks, BlocksLeft
<1>6. ASSUME NEW r \in DriveReaders PROVE ReaderInStep(r)
  <2>1. rd[r] = Disk!Idle /\ r \notin irq_asleep
    BY <1>3
  <2> QED
    BY <2>1, IdleIs DEF ReaderInStep, ReadInStep, Reading, ReadPcs, Disk!Inside
<1> QED
  BY <1>4, <1>5, <1>6 DEF DiskInv

\* What the invariant says of the drivers.
LEMMA DrivesAreExact ==
  ASSUME Disk!IdeAssumption, DiskInv
  PROVE  Disk!DriverExact
<1>1. ASSUME NEW r \in irq_asleep
      PROVE  drive[rd[r].d].st = "busy" /\ wait_irq[Disk!Line(r)] = r
  BY <1>1 DEF DiskInv, DiskTypes, ReaderInStep, ReadInStep, Disk!Line
<1>2. ASSUME NEW r \in DriveReaders, rd[r].pc = "done", rd[r].len < CountValues
      PROVE  rd[r].got = rd[r].len
  <2>1. rd[r].got = Sects(rd[r].len) /\ rd[r].len \in Nat
    BY <1>2 DEF DiskInv, DiskTypes, ReaderInStep, ReadInStep, ReadRecs
  <2> QED
    BY <1>2, <2>1, SectsAre
<1>3. Disk!LocksReturned
  BY DEF DiskInv, DriveLocks, LineLocks, Disk!LocksReturned, Reading
<1> QED
  BY <1>1, <1>2, <1>3 DEF Disk!DriverExact, Disk!IrqComes, Disk!ReadIsWhole

(***************************************************************************)
(* However many read and from whatever drives: who sleeps for an interrupt *)
(* will get it, a read that reports success has all its blocks, and the    *)
(* locks of drives and lines belong to reads under way (ide_vfs_read(),    *)
(* ide_prewait_irq() and ide_wait_irq() of pciide.c).                      *)
(***************************************************************************)
THEOREM DrivesAnswer ==
  ASSUME Disk!IdeAssumption
  PROVE  Disk!Init /\ [][Disk!Next]_(Disk!vars) => []Disk!DriverExact
<1>1. Disk!Init => DiskInv
  BY DiskBegins
<1>2. DiskInv /\ [Disk!Next]_(Disk!vars) => DiskInv'
  <2>1. CASE Disk!Next /\ DiskInv
    BY <2>1, ReaderKeeps, KillKeeps, DrivesKeep DEF Disk!Next
  <2>2. CASE UNCHANGED Disk!vars /\ DiskInv
    BY <2>2 DEF Disk!vars, DiskInv, DiskTypes, DriveLocks, LineLocks, BlocksLeft, ReaderInStep
  <2> QED
    BY <2>1, <2>2
<1>3. DiskInv => Disk!DriverExact
  BY DrivesAreExact
<1> QED
  BY <1>1, <1>2, <1>3, PTL

-----------------------------------------------------------------------------
(***************************************************************************)
(* The framebuffer and the processes that map it (module Framebuffer), for *)
(* any number of processes and any modes.                                  *)
(*                                                                         *)
(* While a change of mode is between change_device_pager()'s two loops, no *)
(* page that a process has, or is about to enter, may be unknown to stale: *)
(* the numbers of pages change behind it.  And as long as no change has    *)
(* overtaken another, there is one at most, and it is to the display's     *)
(* mode.                                                                   *)
(***************************************************************************)
FbAts == {"user", "session", "set", "change", "release", "map", "lost"}
Changing == {"set", "change", "release"}
UnderWay == Changing \cup {"lost"}
FbFrames == Nat \cup {FbNone}
FbThreads == [at : FbAts, mode : FbModes \cup {FbNone}, page : Fb!Pages \cup {FbNone},
              frame : FbFrames]

FbTypes ==
  /\ fb_bios \in FbModes /\ fb_mode \in FbModes /\ fb_size \in Nat /\ fb_phys \in Nat
  /\ fb_pages \in [Fb!Pages -> FbFrames]
  /\ fb_entry \in [FbProcs -> [Fb!Pages -> FbFrames]]
  /\ fb_th \in [FbProcs -> FbThreads]
  /\ fb_lock \in FbProcs \cup {FbNone}
  /\ fb_crossed \in BOOLEAN

PagesKnown == \A o \in Fb!Pages : fb_pages[o] # FbNone =>
  fb_pages[o] = fb_phys + o \/ o \in fb_beyond
EntriesKnown == \A p \in FbProcs, o \in Fb!Pages : fb_entry[p][o] # FbNone =>
  fb_entry[p][o] = fb_phys + o \/ <<p, o>> \in fb_stale \/ o \in fb_beyond
\* A page that a thread has from the pager and is about to enter.
EnteringKnown == \A p \in FbProcs : fb_th[p].at = "map" /\ fb_th[p].frame # FbNone =>
  /\ fb_th[p].page \in Fb!Pages
  /\ \/ fb_th[p].frame = fb_phys + fb_th[p].page
     \/ <<p, fb_th[p].page>> \in fb_stale \/ fb_th[p].page \in fb_beyond
Entering == \A p \in FbProcs : fb_th[p].at = "map" => fb_th[p].page \in Fb!Pages
Releasing == \A p \in FbProcs : fb_th[p].at = "release" =>
  /\ fb_lock = p
  /\ \A q \in FbProcs, o \in Fb!Pages : fb_entry[q][o] # FbNone => <<q, o>> \in fb_stale
  /\ \A q \in FbProcs : fb_th[q].at = "map" => <<q, fb_th[q].page>> \in fb_stale
Changes == \A p \in FbProcs : fb_th[p].at \in {"session"} \cup Changing =>
  fb_th[p].mode \in FbModes
\* What display, driver and pager have to do with a change, if it is the only one.
OneChange == ~fb_crossed =>
  /\ \A p, q \in FbProcs : fb_th[p].at \in UnderWay /\ fb_th[q].at \in UnderWay => p = q
  /\ \A p \in FbProcs : fb_th[p].at \in Changing =>
       /\ fb_th[p].mode = fb_bios
       /\ fb_th[p].at # "set" => fb_mode = fb_bios
  /\ (\A p \in FbProcs : fb_th[p].at \notin UnderWay) =>
       fb_mode = fb_bios /\ fb_size = FbSizeOf[fb_bios] /\ fb_phys = FbPhysOf[fb_bios]

FbInv ==
  /\ FbTypes /\ PagesKnown /\ EntriesKnown /\ EnteringKnown /\ Entering /\ Releasing /\ Changes
  /\ OneChange

\* One thread moves to t.
ThMoves(p, t) ==
  /\ t \in FbThreads /\ fb_th' \in [FbProcs -> FbThreads] /\ fb_th'[p] = t
  /\ \A q \in FbProcs \ {p} : fb_th'[q] = fb_th[q]

LEMMA FbMoves ==
  ASSUME FbTypes, NEW p \in FbProcs, NEW t \in FbThreads, fb_th' = [fb_th EXCEPT ![p] = t]
  PROVE  ThMoves(p, t)
BY DEF FbTypes, ThMoves

LEMMA FbGoes ==
  ASSUME FbTypes, NEW p \in FbProcs, NEW a \in FbAts, Fb!Go(p, a)
  PROVE  \E t \in FbThreads : /\ ThMoves(p, t) /\ t.at = a /\ t.mode = fb_th[p].mode
                              /\ t.page = fb_th[p].page /\ t.frame = fb_th[p].frame
<1>1. PICK s \in FbThreads : s = fb_th[p]
  BY DEF FbTypes
<1>2. PICK t : t = [s EXCEPT !.at = a]
  OBVIOUS
<1>3. t \in FbThreads /\ t.at = a /\ t.mode = s.mode /\ t.page = s.page /\ t.frame = s.frame
  BY <1>1, <1>2 DEF FbThreads
<1>4. fb_th' = [fb_th EXCEPT ![p] = t]
  BY <1>1, <1>2 DEF Fb!Go
<1> QED
  BY <1>1, <1>3, <1>4, FbMoves

LEMMA FbIdle == Fb!Idle \in FbThreads /\ Fb!Idle.at = "user"
  BY DEF Fb!Idle, FbThreads, FbAts, FbFrames

LEMMA FbBegins ==
  ASSUME Fb!FramebufferAssumption, Fb!Init
  PROVE  FbInv
<1>1. PICK n \in [Fb!Pages -> FbFrames] : n = [o \in Fb!Pages |-> FbNone]
  BY DEF FbFrames
<1>2. /\ fb_pages = n /\ fb_entry = [p \in FbProcs |-> n] /\ \A o \in Fb!Pages : n[o] = FbNone
      /\ fb_th = [p \in FbProcs |-> Fb!Idle] /\ fb_lock = FbNone /\ fb_crossed = FALSE
      /\ fb_bios \in FbModes /\ fb_mode = fb_bios
      /\ fb_size = FbSizeOf[fb_bios] /\ fb_phys = FbPhysOf[fb_bios]
  BY <1>1 DEF Fb!Init
<1>3. FbTypes
  <2>1. fb_size \in Nat /\ fb_phys \in Nat
    BY <1>2 DEF Fb!FramebufferAssumption
  <2> QED
    BY <1>1, <1>2, <2>1, FbIdle DEF FbTypes
<1>4. \A p \in FbProcs : fb_th[p].at = "user"
  BY <1>2, FbIdle
<1>5. PagesKnown /\ EntriesKnown
  BY <1>2 DEF PagesKnown, EntriesKnown
<1> QED
  BY <1>2, <1>3, <1>4, <1>5
     DEF FbInv, EnteringKnown, Entering, Releasing, Changes, OneChange, Changing, UnderWay

\* A step of vesa_set_mode() before it comes to the pager.
LEMMA SetModeKeeps ==
  ASSUME Fb!FramebufferAssumption, FbInv, NEW p \in FbProcs, NEW t, ThMoves(p, t),
         UNCHANGED <<fb_size, fb_phys, fb_pages, fb_lock, fb_entry, fb_stale, fb_beyond>>,
         fb_bios' \in FbModes, fb_mode' \in FbModes, fb_crossed' \in BOOLEAN,
         t.at \in {"user", "session", "set", "change"},
         t.at # "user" => t.mode \in FbModes,
         OneChange'
  PROVE  FbInv'
<1>0. /\ FbTypes /\ PagesKnown /\ EntriesKnown /\ EnteringKnown /\ Entering /\ Releasing
      /\ Changes
  BY DEF FbInv
<1>1. FbTypes' /\ PagesKnown' /\ EntriesKnown'
  BY <1>0 DEF FbTypes, PagesKnown, EntriesKnown, ThMoves
<1>2. EnteringKnown' /\ Entering'
  BY <1>0 DEF EnteringKnown, Entering, ThMoves
<1>3. Releasing'
  BY <1>0 DEF Releasing, ThMoves
<1>4. Changes'
  BY <1>0 DEF Changes, ThMoves, Changing
<1> QED
  BY <1>1, <1>2, <1>3, <1>4 DEF FbInv

LEMMA SessionsKeep ==
  ASSUME Fb!FramebufferAssumption, FbInv, NEW p \in FbProcs,
         Fb!v86_begin_session(p) \/ Fb!v86_bios_int(p) \/ Fb!SetCurrent(p)
  PROVE  FbInv'
<1>0. FbTypes /\ Changes /\ OneChange /\ fb_th[p] \in FbThreads
  BY DEF FbInv, FbTypes
<1>1. CASE Fb!v86_begin_session(p)
  <2>1. PICK n \in FbModes : fb_th' = [fb_th EXCEPT ![p].at = "session", ![p].mode = n]
    BY <1>1 DEF Fb!v86_begin_session
  <2>2. PICK t : t = [fb_th[p] EXCEPT !.at = "session", !.mode = n]
    OBVIOUS
  <2>3. t \in FbThreads /\ t.at = "session" /\ t.mode = n
    BY <1>0, <2>2 DEF FbThreads, FbAts
  <2>4. fb_th' = [fb_th EXCEPT ![p] = t]
    BY <1>0, <2>1, <2>2 DEF FbTypes
  <2>5. ThMoves(p, t)
    BY <1>0, <2>3, <2>4, FbMoves
  <2>6. /\ UNCHANGED <<fb_bios, fb_mode, fb_size, fb_phys, fb_pages, fb_lock, fb_entry,
                       fb_stale, fb_beyond, fb_crossed>>
        /\ fb_th[p].at = "user"
    BY <1>1 DEF Fb!v86_begin_session, Fb!At
  <2>7. OneChange'
    BY <1>0, <2>3, <2>5, <2>6 DEF OneChange, ThMoves, Changing, UnderWay
  <2> QED
    BY <1>0, <2>3, <2>5, <2>6, <2>7, SetModeKeeps DEF FbTypes
<1>2. CASE Fb!v86_bios_int(p)
  <2>1. /\ UNCHANGED <<fb_mode, fb_size, fb_phys, fb_pages, fb_lock, fb_entry, fb_stale,
                       fb_beyond>>
        /\ fb_th[p].at = "session" /\ fb_th[p].mode \in FbModes
    BY <1>0, <1>2 DEF Fb!v86_bios_int, Fb!At, Changes
  <2>2. CASE fb_bios' = fb_th[p].mode /\ fb_crossed' = (Fb!Pending # {}) /\ Fb!Go(p, "set")
    <3>1. PICK t \in FbThreads : ThMoves(p, t) /\ t.at = "set" /\ t.mode = fb_th[p].mode
      BY <1>0, <2>2, FbGoes DEF FbAts
    <3>2. ~fb_crossed' => \A q \in FbProcs : fb_th[q].at \notin UnderWay
      BY <2>2 DEF Fb!Pending, Changing, UnderWay
    <3>3. OneChange'
      BY <1>0, <2>1, <2>2, <3>1, <3>2 DEF OneChange, ThMoves, Changing, UnderWay
    <3> QED
      BY <1>0, <2>1, <2>2, <3>1, <3>3, SetModeKeeps DEF FbTypes
  <2>3. CASE fb_th' = [fb_th EXCEPT ![p] = Fb!Idle] /\ UNCHANGED <<fb_bios, fb_crossed>>
    <3>1. ThMoves(p, Fb!Idle)
      BY <1>0, <2>3, FbIdle, FbMoves
    <3>2. OneChange'
      BY <1>0, <2>1, <2>3, <3>1, FbIdle DEF OneChange, ThMoves, Changing, UnderWay
    <3> QED
      BY <1>0, <2>1, <2>3, <3>1, <3>2, FbIdle, SetModeKeeps DEF FbTypes
  <2>4. CASE fb_th' = [fb_th EXCEPT ![p] = Fb!Idle] /\ fb_bios' = fb_th[p].mode /\ fb_crossed' = TRUE
    <3>1. ThMoves(p, Fb!Idle)
      BY <1>0, <2>4, FbIdle, FbMoves
    <3>2. OneChange'
      BY <2>4 DEF OneChange
    <3>3. fb_bios' \in FbModes /\ fb_mode' \in FbModes /\ fb_crossed' \in BOOLEAN
      BY <1>0, <2>1, <2>4 DEF FbTypes
    <3> QED
      BY <2>1, <3>1, <3>2, <3>3, FbIdle, SetModeKeeps
  <2> QED
    BY <1>2, <2>2, <2>3, <2>4 DEF Fb!v86_bios_int
<1>3. CASE Fb!SetCurrent(p)
  <2>1. /\ UNCHANGED <<fb_bios, fb_size, fb_phys, fb_pages, fb_lock, fb_entry, fb_stale,
                       fb_beyond, fb_crossed>>
        /\ fb_th[p].at = "set" /\ fb_th[p].mode \in FbModes /\ fb_mode' = fb_th[p].mode
        /\ Fb!Go(p, "change")
    BY <1>0, <1>3 DEF Fb!SetCurrent, Fb!At, Changes, Changing
  <2>2. PICK t \in FbThreads : ThMoves(p, t) /\ t.at = "change" /\ t.mode = fb_th[p].mode
    BY <1>0, <2>1, FbGoes DEF FbAts
  <2>3. OneChange'
    BY <1>0, <2>1, <2>2 DEF OneChange, ThMoves, Changing, UnderWay
  <2> QED
    BY <1>0, <2>1, <2>2, <2>3, SetModeKeeps DEF FbTypes
<1> QED
  BY <1>1, <1>2, <1>3

LEMMA FbPageNumbers ==
  ASSUME Fb!FramebufferAssumption, NEW o \in Fb!Pages
  PROVE  o \in Nat
<1>1. PICK b \in FbOffsets : o \in b .. (b + FbRegionSize - 1)
  BY DEF Fb!Pages
<1>2. b \in Nat /\ FbRegionSize \in Nat
  BY DEF Fb!FramebufferAssumption
<1> QED
  BY <1>1, <1>2

\* change_device_pager(): what its first loop leaves in processes is stale.
LEMMA ChangeKeeps ==
  ASSUME Fb!FramebufferAssumption, FbInv, NEW p \in FbProcs, Fb!Change(p)
  PROVE  FbInv'
<1>0. /\ FbTypes /\ PagesKnown /\ EntriesKnown /\ EnteringKnown /\ Entering /\ Releasing
      /\ Changes /\ OneChange
  BY DEF FbInv
<1>1. PICK found, gone, whole :
        found \subseteq FbProcs /\ Fb!Unmapped(found) \subseteq gone /\ Fb!Unmap(p, found, gone, whole)
  <2>1. PICK W \in SUBSET Fb!Mapped : \E found \in SUBSET W :
          \E astray \in [W \ found -> FbProcs \X Fb!Pages] :
            Fb!Unmap(p, found, Fb!Unmapped(found) \cup {astray[r] : r \in W \ found}, W = Fb!Mapped)
    BY DEF Fb!Change
  <2>2. W \subseteq FbProcs
    BY DEF Fb!Mapped
  <2> QED
    BY <2>1, <2>2
<1>2. /\ UNCHANGED <<fb_bios, fb_mode, fb_size, fb_phys, fb_pages, fb_beyond, fb_crossed>>
      /\ fb_th[p].at = "change" /\ fb_lock = FbNone /\ fb_lock' = p
  BY DEF Fb!Change, Fb!At
<1>3. /\ fb_entry' \in [FbProcs -> [Fb!Pages -> FbFrames]]
      /\ \A q \in FbProcs, o \in Fb!Pages : fb_entry'[q][o] \in {FbNone, fb_entry[q][o]}
      /\ \A q \in found, o \in Fb!Pages : o = 0 => fb_entry'[q][o] = FbNone
  BY <1>0, <1>1 DEF FbTypes, FbFrames, Fb!Unmapped, Fb!Unmap
<1>4. \A q \in FbProcs : fb_th[q].at # "release"
  BY <1>0, <1>2 DEF Releasing, Fb!FramebufferAssumption
<1>5. CASE /\ fb_stale' = {x \in FbProcs \X Fb!Pages :
                     \/ fb_entry'[x[1]][x[2]] # FbNone /\ ~(x[1] \in found /\ x[2] = 0)
                     \/ Fb!At(x[1], "map") /\ fb_th[x[1]].page = x[2]}
           /\ Fb!Go(p, "release")
  <2>1. PICK t \in FbThreads : ThMoves(p, t) /\ t.at = "release" /\ t.mode = fb_th[p].mode
    BY <1>0, <1>5, FbGoes DEF FbAts
  <2>2. \A q \in FbProcs, o \in Fb!Pages : fb_entry'[q][o] # FbNone => <<q, o>> \in fb_stale'
    BY <1>3, <1>5
  <2>3. \A q \in FbProcs : fb_th'[q].at = "map" =>
          <<q, fb_th'[q].page>> \in fb_stale' /\ fb_th'[q].page \in Fb!Pages
    BY <1>0, <1>5, <2>1 DEF ThMoves, Entering, Fb!At
  <2>4. FbTypes'
    BY <1>0, <1>2, <1>3, <2>1 DEF FbTypes, ThMoves
  <2>5. PagesKnown' /\ EntriesKnown' /\ EnteringKnown' /\ Entering'
    BY <1>0, <1>2, <2>2, <2>3 DEF PagesKnown, EntriesKnown, EnteringKnown, Entering
  <2>6. Releasing'
    BY <1>2, <1>4, <2>1, <2>2, <2>3 DEF Releasing, ThMoves
  <2>7. Changes' /\ OneChange'
    BY <1>0, <1>2, <2>1 DEF Changes, OneChange, ThMoves, Changing, UnderWay
  <2> QED
    BY <2>4, <2>5, <2>6, <2>7 DEF FbInv
<1>6. CASE /\ fb_th' = [fb_th EXCEPT ![p] = [Fb!Idle EXCEPT !.at = "lost"]]
           /\ UNCHANGED fb_stale
  <2>1. PICK t : t = [Fb!Idle EXCEPT !.at = "lost"]
    OBVIOUS
  <2>2. t \in FbThreads /\ t.at = "lost"
    BY <2>1 DEF Fb!Idle, FbThreads, FbAts, FbFrames
  <2>3. ThMoves(p, t)
    BY <1>0, <1>6, <2>1, <2>2, FbMoves
  <2>4. FbTypes' /\ PagesKnown'
    BY <1>0, <1>2, <1>3, <2>3 DEF FbTypes, PagesKnown, ThMoves
  <2>5. EntriesKnown'
    <3>1. ASSUME NEW q \in FbProcs, NEW o \in Fb!Pages, fb_entry'[q][o] # FbNone
          PROVE  fb_entry'[q][o] = fb_phys + o \/ <<q, o>> \in fb_stale \/ o \in fb_beyond
      <4>1. fb_entry'[q][o] = fb_entry[q][o]
        BY <1>3, <3>1
      <4> QED
        BY <1>0, <3>1, <4>1 DEF EntriesKnown
    <3> QED
      BY <1>2, <1>6, <3>1 DEF EntriesKnown, Fb!Pages
  <2>6. EnteringKnown' /\ Entering' /\ Releasing'
    BY <1>0, <1>2, <1>4, <1>6, <2>2, <2>3 DEF EnteringKnown, Entering, Releasing, ThMoves
  <2>7. Changes' /\ OneChange'
    BY <1>0, <1>2, <2>2, <2>3 DEF Changes, OneChange, ThMoves, Changing, UnderWay
  <2> QED
    BY <2>4, <2>5, <2>6, <2>7 DEF FbInv
<1> QED
  BY <1>1, <1>5, <1>6 DEF Fb!Unmap

LEMMA ChangeEndKeeps ==
  ASSUME Fb!FramebufferAssumption, FbInv, NEW p \in FbProcs, Fb!ChangeEnd(p)
  PROVE  FbInv'
<1>0. /\ FbTypes /\ PagesKnown /\ EntriesKnown /\ EnteringKnown /\ Entering /\ Releasing
      /\ Changes /\ OneChange
  BY DEF FbInv
<1>1. /\ UNCHANGED <<fb_bios, fb_mode, fb_entry, fb_stale, fb_crossed>>
      /\ fb_th[p].at = "release" /\ fb_lock' = FbNone
      /\ fb_th' = [fb_th EXCEPT ![p] = Fb!Idle]
      /\ fb_pages' = [o \in Fb!Pages |-> IF o < fb_size THEN FbNone ELSE fb_pages[o]]
      /\ fb_beyond' = {o \in Fb!Pages : o >= fb_size /\ fb_pages[o] # FbNone}
      /\ fb_size' = FbSizeOf[fb_th[p].mode] /\ fb_phys' = FbPhysOf[fb_th[p].mode]
  BY DEF Fb!ChangeEnd, Fb!At, Fb!device_page_release
<1>2. ThMoves(p, Fb!Idle)
  BY <1>0, <1>1, FbIdle, FbMoves
<1>3. /\ fb_lock = p /\ fb_th[p].mode \in FbModes
      /\ \A q \in FbProcs, o \in Fb!Pages : fb_entry[q][o] # FbNone => <<q, o>> \in fb_stale
      /\ \A q \in FbProcs : fb_th[q].at = "map" => <<q, fb_th[q].page>> \in fb_stale
  BY <1>0, <1>1 DEF Releasing, Changes, Changing
<1>4. FbTypes'
  <2>1. fb_size' \in Nat /\ fb_phys' \in Nat
    BY <1>1, <1>3 DEF Fb!FramebufferAssumption
  <2>2. fb_pages' \in [Fb!Pages -> FbFrames]
    BY <1>0, <1>1 DEF FbTypes, FbFrames
  <2> QED
    BY <1>0, <1>1, <1>2, <2>1, <2>2 DEF FbTypes, ThMoves
<1>5. PagesKnown'
  <2>1. ASSUME NEW o \in Fb!Pages, fb_pages'[o] # FbNone PROVE o \in fb_beyond'
    <3>1. o \in Nat /\ fb_size \in Nat
      BY <1>0, FbPageNumbers DEF FbTypes
    <3>2. ~(o < fb_size) /\ fb_pages[o] # FbNone
      BY <1>1, <2>1
    <3> QED
      BY <1>1, <3>1, <3>2
  <2> QED
    BY <2>1 DEF PagesKnown, Fb!Pages
<1>6. EntriesKnown' /\ Entering' /\ EnteringKnown'
  <2>1. EntriesKnown'
    BY <1>1, <1>3 DEF EntriesKnown
  <2>2. Entering' /\ EnteringKnown'
    BY <1>0, <1>1, <1>2, <1>3, FbIdle DEF Entering, EnteringKnown, ThMoves
  <2> QED
    BY <2>1, <2>2
<1>7. Releasing'
  <2>1. \A q \in FbProcs \ {p} : fb_th[q].at # "release"
    BY <1>0, <1>3 DEF Releasing
  <2> QED
    BY <1>2, <2>1, FbIdle DEF Releasing, ThMoves
<1>8. Changes'
  BY <1>0, <1>2, FbIdle DEF Changes, ThMoves, Changing
<1>9. OneChange'
  <2>1. ~fb_crossed => /\ \A q \in FbProcs \ {p} : fb_th[q].at \notin UnderWay
                       /\ fb_th[p].mode = fb_bios /\ fb_mode = fb_bios
    BY <1>0, <1>1 DEF OneChange, Changing, UnderWay
  <2> QED
    BY <1>1, <1>2, <2>1, FbIdle DEF OneChange, ThMoves, Changing, UnderWay
<1> QED
  BY <1>4, <1>5, <1>6, <1>7, <1>8, <1>9 DEF FbInv

\* What the processes do that concerns no change.
LEMMA ProcessKeeps ==
  ASSUME FbInv, NEW p \in FbProcs, NEW t, ThMoves(p, t),
         fb_th[p].at \in {"user", "map"}, t.at \in {"user", "map"},
         UNCHANGED <<fb_bios, fb_mode, fb_size, fb_phys, fb_crossed>>
  PROVE  Changes' /\ OneChange'
BY DEF FbInv, Changes, OneChange, ThMoves, Changing, UnderWay

LEMMA MmapKeeps ==
  ASSUME Fb!FramebufferAssumption, FbInv, NEW p \in FbProcs, Fb!mmap_file(p)
  PROVE  FbInv'
BY DEF Fb!mmap_file, FbInv, FbTypes, PagesKnown, EntriesKnown, EnteringKnown, Entering,
       Releasing, Changes, OneChange

\* munmap()
LEMMA MunmapKeeps ==
  ASSUME Fb!FramebufferAssumption, FbInv, NEW p \in FbProcs, Fb!munmap(p)
  PROVE  FbInv'
<1>0. /\ FbTypes /\ PagesKnown /\ EntriesKnown /\ EnteringKnown /\ Entering /\ Releasing
      /\ Changes /\ OneChange
  BY DEF FbInv
<1>1. /\ UNCHANGED <<fb_bios, fb_mode, fb_size, fb_phys, fb_pages, fb_lock, fb_th, fb_beyond,
                     fb_crossed>>
      /\ fb_th[p].at = "user" /\ fb_lock = FbNone
      /\ fb_entry' = [fb_entry EXCEPT ![p] = [o \in Fb!Pages |-> FbNone]]
      /\ fb_stale' = fb_stale \ ({p} \X Fb!Pages)
  BY DEF Fb!munmap, Fb!At
<1>2. PICK n \in [Fb!Pages -> FbFrames] : n = [o \in Fb!Pages |-> FbNone]
  BY DEF FbFrames
<1>3. /\ fb_entry' \in [FbProcs -> [Fb!Pages -> FbFrames]]
      /\ \A o \in Fb!Pages : fb_entry'[p][o] = FbNone
      /\ \A q \in FbProcs \ {p} : fb_entry'[q] = fb_entry[q]
  BY <1>0, <1>1, <1>2 DEF FbTypes
<1>4. FbTypes' /\ PagesKnown' /\ Entering' /\ Changes' /\ OneChange'
  BY <1>0, <1>1, <1>3 DEF FbTypes, PagesKnown, Entering, Changes, OneChange
<1>5. EntriesKnown'
  <2>1. ASSUME NEW q \in FbProcs, NEW o \in Fb!Pages, fb_entry'[q][o] # FbNone
        PROVE  \/ fb_entry'[q][o] = fb_phys + o \/ <<q, o>> \in fb_stale' \/ o \in fb_beyond
    <3>1. q # p /\ fb_entry'[q][o] = fb_entry[q][o]
      BY <1>3, <2>1
    <3> QED
      BY <1>0, <1>1, <2>1, <3>1 DEF EntriesKnown
  <2> QED
    BY <1>1, <2>1 DEF EntriesKnown, Fb!Pages
<1>6. EnteringKnown'
  <2>1. \A q \in FbProcs : fb_th[q].at = "map" => q # p
    BY <1>1
  <2> QED
    BY <1>0, <1>1, <2>1 DEF EnteringKnown
<1>7. Releasing'
  BY <1>0, <1>1 DEF Releasing, Fb!FramebufferAssumption
<1> QED
  BY <1>4, <1>5, <1>6, <1>7 DEF FbInv

\* device_page_in()
LEMMA GetFrameKeeps ==
  ASSUME Fb!FramebufferAssumption, FbInv, NEW p \in FbProcs, Fb!pager_get_frame(p)
  PROVE  FbInv'
<1>0. /\ FbTypes /\ PagesKnown /\ EntriesKnown /\ EnteringKnown /\ Entering /\ Releasing
      /\ Changes /\ OneChange
  BY DEF FbInv
<1>1. PICK o \in Fb!Pages :
        /\ fb_pages' = [fb_pages EXCEPT ![o] = Fb!Frame(o)]
        /\ fb_th' = [fb_th EXCEPT ![p].at = "map", ![p].page = o, ![p].frame = Fb!Frame(o)]
  BY DEF Fb!pager_get_frame
<1>2. /\ UNCHANGED <<fb_bios, fb_mode, fb_size, fb_phys, fb_lock, fb_entry, fb_stale, fb_beyond,
                     fb_crossed>>
      /\ fb_th[p].at = "user" /\ fb_lock = FbNone
  BY DEF Fb!pager_get_frame, Fb!At
<1>3. PICK f \in FbFrames : f = Fb!Frame(o) /\ (f = fb_phys + o \/ o \in fb_beyond)
  <2>1. o \in Nat /\ fb_phys \in Nat /\ fb_pages[o] \in FbFrames
    BY <1>0, FbPageNumbers DEF FbTypes
  <2>2. fb_phys + o \in FbFrames
    BY <2>1 DEF FbFrames
  <2> QED
    BY <1>0, <2>1, <2>2 DEF Fb!Frame, PagesKnown
<1>4. PICK s \in FbThreads : s = fb_th[p]
  BY <1>0 DEF FbTypes
<1>5. PICK t : t = [s EXCEPT !.at = "map", !.page = o, !.frame = f]
  OBVIOUS
<1>6. t \in FbThreads /\ t.at = "map" /\ t.page = o /\ t.frame = f
  <2>1. o \in Fb!Pages /\ f \in FbFrames
    BY <1>1, <1>3
  <2> QED
    BY <1>4, <1>5, <2>1 DEF FbThreads, FbAts
<1>7. fb_th' = [fb_th EXCEPT ![p] = t]
  BY <1>0, <1>1, <1>3, <1>4, <1>5 DEF FbTypes
<1>8. ThMoves(p, t)
  BY <1>0, <1>6, <1>7, FbMoves
<1>9. /\ fb_pages' \in [Fb!Pages -> FbFrames] /\ fb_pages'[o] = f
      /\ \A u \in Fb!Pages \ {o} : fb_pages'[u] = fb_pages[u]
  BY <1>0, <1>1, <1>3 DEF FbTypes
<1>10. FbTypes'
  BY <1>0, <1>2, <1>8, <1>9 DEF FbTypes, ThMoves
<1>11. PagesKnown'
  BY <1>0, <1>2, <1>3, <1>9 DEF PagesKnown
<1>12. EntriesKnown'
  BY <1>0, <1>2 DEF EntriesKnown
<1>13. Entering' /\ EnteringKnown'
  BY <1>0, <1>1, <1>2, <1>3, <1>6, <1>8 DEF Entering, EnteringKnown, ThMoves
<1>14. Releasing'
  <2>1. \A q \in FbProcs : fb_th[q].at # "release"
    BY <1>0, <1>2 DEF Releasing, Fb!FramebufferAssumption
  <2> QED
    BY <1>6, <1>8, <2>1 DEF Releasing, ThMoves
<1>15. Changes' /\ OneChange'
  BY <1>2, <1>6, <1>8, ProcessKeeps
<1> QED
  BY <1>10, <1>11, <1>12, <1>13, <1>14, <1>15 DEF FbInv

\* pd_map_page()
LEMMA EnterKeeps ==
  ASSUME Fb!FramebufferAssumption, FbInv, NEW p \in FbProcs, Fb!pd_map_page(p)
  PROVE  FbInv'
<1>0. /\ FbTypes /\ PagesKnown /\ EntriesKnown /\ EnteringKnown /\ Entering /\ Releasing
      /\ Changes /\ OneChange
  BY DEF FbInv
<1>1. /\ UNCHANGED <<fb_bios, fb_mode, fb_size, fb_phys, fb_pages, fb_lock, fb_stale, fb_beyond,
                     fb_crossed>>
      /\ fb_th[p].at = "map" /\ fb_th' = [fb_th EXCEPT ![p] = Fb!Idle]
      /\ fb_entry' = [fb_entry EXCEPT ![p][fb_th[p].page] = fb_th[p].frame]
  BY DEF Fb!pd_map_page, Fb!At
<1>2. PICK o \in Fb!Pages, f \in FbFrames :
        /\ o = fb_th[p].page /\ f = fb_th[p].frame
        /\ f # FbNone => f = fb_phys + o \/ <<p, o>> \in fb_stale \/ o \in fb_beyond
  BY <1>0, <1>1 DEF FbTypes, FbThreads, Entering, EnteringKnown
<1>3. PICK n \in [Fb!Pages -> FbFrames] : n = [fb_entry[p] EXCEPT ![o] = f]
  BY <1>0, <1>2 DEF FbTypes
<1>4. fb_entry' = [fb_entry EXCEPT ![p] = n]
  BY <1>1, <1>2, <1>3
<1>5. /\ fb_entry' \in [FbProcs -> [Fb!Pages -> FbFrames]] /\ fb_entry'[p] = n
      /\ \A q \in FbProcs \ {p} : fb_entry'[q] = fb_entry[q]
  BY <1>0, <1>3, <1>4 DEF FbTypes
<1>6. n[o] = f /\ \A u \in Fb!Pages \ {o} : n[u] = fb_entry[p][u]
  BY <1>0, <1>2, <1>3 DEF FbTypes
<1>7. ThMoves(p, Fb!Idle)
  BY <1>0, <1>1, FbIdle, FbMoves
<1>8. FbTypes' /\ PagesKnown'
  BY <1>0, <1>1, <1>5, <1>7 DEF FbTypes, PagesKnown, ThMoves
<1>9. EntriesKnown'
  <2>1. ASSUME NEW q \in FbProcs, NEW u \in Fb!Pages, fb_entry'[q][u] # FbNone
        PROVE  \/ fb_entry'[q][u] = fb_phys + u \/ <<q, u>> \in fb_stale \/ u \in fb_beyond
    <3>1. CASE q = p /\ u = o
      BY <1>2, <1>5, <1>6, <2>1, <3>1
    <3>2. CASE ~(q = p /\ u = o)
      <4>1. fb_entry'[q][u] = fb_entry[q][u]
        BY <1>5, <1>6, <3>2
      <4> QED
        BY <1>0, <2>1, <4>1 DEF EntriesKnown
    <3> QED
      BY <3>1, <3>2
  <2> QED
    BY <1>1, <2>1 DEF EntriesKnown, Fb!Pages
<1>10. Entering' /\ EnteringKnown'
  BY <1>0, <1>1, <1>7, FbIdle DEF Entering, EnteringKnown, ThMoves
<1>11. Releasing'
  <2>1. ASSUME NEW r \in FbProcs, fb_th'[r].at = "release"
        PROVE  /\ fb_lock = r
               /\ \A q \in FbProcs, u \in Fb!Pages :
                    fb_entry'[q][u] # FbNone => <<q, u>> \in fb_stale
               /\ \A q \in FbProcs : fb_th'[q].at = "map" => <<q, fb_th'[q].page>> \in fb_stale
    <3>1. /\ fb_lock = r
          /\ \A q \in FbProcs, u \in Fb!Pages :
               fb_entry[q][u] # FbNone => <<q, u>> \in fb_stale
          /\ \A q \in FbProcs : fb_th[q].at = "map" => <<q, fb_th[q].page>> \in fb_stale
      BY <1>0, <1>7, <2>1, FbIdle DEF Releasing, ThMoves
    <3>2. <<p, o>> \in fb_stale
      BY <1>1, <1>2, <3>1
    <3>3. ASSUME NEW q \in FbProcs, NEW u \in Fb!Pages, fb_entry'[q][u] # FbNone
          PROVE  <<q, u>> \in fb_stale
      <4>1. CASE q = p /\ u = o
        BY <3>2, <4>1
      <4>2. CASE ~(q = p /\ u = o)
        BY <1>5, <1>6, <3>1, <3>3, <4>2
      <4> QED
        BY <4>1, <4>2
    <3> QED
      BY <1>7, <3>1, <3>3, FbIdle DEF ThMoves
  <2> QED
    BY <1>1, <2>1 DEF Releasing, Fb!Pages
<1>12. Changes' /\ OneChange'
  BY <1>1, <1>7, FbIdle, ProcessKeeps
<1> QED
  BY <1>8, <1>9, <1>10, <1>11, <1>12 DEF FbInv

(***************************************************************************)
(* Whoever sets modes and maps the framebuffer: a process sees the memory  *)
(* of the present mode up to the pages that a change leaves behind, and    *)
(* display, driver and pager agree between changes that do not overtake    *)
(* each other (vesa_set_mode() of vesa.c, change_device_pager() of         *)
(* pager.c).                                                               *)
(***************************************************************************)
THEOREM FramebufferIsExact ==
  ASSUME Fb!FramebufferAssumption
  PROVE  Fb!Init /\ [][Fb!Next]_(Fb!vars) => []Fb!FramebufferExact
<1>1. Fb!Init => FbInv
  BY FbBegins
<1>2. FbInv /\ [Fb!Next]_(Fb!vars) => FbInv'
  <2>1. CASE Fb!Next /\ FbInv
    BY <2>1, SessionsKeep, ChangeKeeps, ChangeEndKeeps, MmapKeeps, MunmapKeeps, GetFrameKeeps,
       EnterKeeps DEF Fb!Next
  <2>2. CASE UNCHANGED Fb!vars /\ FbInv
    BY <2>2 DEF Fb!vars, FbInv, FbTypes, PagesKnown, EntriesKnown, EnteringKnown, Entering,
       Releasing, Changes, OneChange
  <2> QED
    BY <2>1, <2>2
<1>3. FbInv => Fb!FramebufferExact
  <2>1. FbInv /\ Fb!Pending = {} /\ ~fb_crossed =>
          fb_mode = fb_bios /\ fb_size = FbSizeOf[fb_bios] /\ fb_phys = FbPhysOf[fb_bios]
    BY DEF FbInv, OneChange, Changing, UnderWay, Fb!Pending
  <2> QED
    BY <2>1 DEF FbInv, PagesKnown, EntriesKnown, Fb!FramebufferExact
<1> QED
  BY <1>1, <1>2, <1>3, PTL

-----------------------------------------------------------------------------
(***************************************************************************)
(* Keyboard and mouse (module Input), for any keys, sizes of the buffers   *)
(* and movements.                                                          *)
(*                                                                         *)
(* What is on the way to the program must account for what it does not     *)
(* know yet: of the events of a modifier in the buffer only the last one   *)
(* counts, after it the key whose bytes are still to interrupt.            *)
(***************************************************************************)
Modifiers == {"shift", "ctrl", "super", "alt", "mod"}
Layers == {"normal", "shift", "caps", "shiftcaps", "mod", "shiftmod", KbNoKey}
KeyEvents == [k : KbTyped, press : BOOLEAN]
KbStates == [status : SUBSET (Modifiers \cup {"caps"}), key_char : [KbTyped -> Layers],
             up : KbTyped \cup {KbNoKey}, chr : Layers]

KeyTypes ==
  /\ in_down \in SUBSET KbTyped
  /\ in_pckbd \in [buf : Seq(KeyEvents), escaped : BOOLEAN]
  /\ in_kb \in KbStates
  /\ in_said \in [KbTyped -> Layers]

\* The key k has been pressed or released, and its bytes are on the way.
LastByte(k) == (k % 128) + (IF k \in in_down THEN 0 ELSE 128)
Coming(k) ==
  \/ in_wire = Inp!Bytes(k, k \in in_down) /\ ~in_pckbd.escaped
  \/ k >= 128 /\ in_wire = <<LastByte(k)>> /\ in_pckbd.escaped
WireIsKey == \/ in_wire = <<>> /\ ~in_pckbd.escaped
             \/ \E k \in KbTyped : Coming(k)

\* The modifier m may be taken to be on, or off; a key of it may have gone up
\* while another one was held.
Tells(m, on, gone) ==
  IF on
  THEN \/ Inp!Group[m] \cap in_down # {}
       \/ \E k \in Inp!Group[m] \cap KbTyped : Coming(k) /\ k \notin in_down
  ELSE \/ Inp!Group[m] \cap in_down = {}
       \/ gone
       \/ \E k \in Inp!Group[m] \cap KbTyped : Coming(k) /\ k \in in_down

IsLast(b, i, m) == /\ i \in 1 .. Len(b) /\ b[i].k \in Inp!Group[m]
                   /\ \A j \in 1 .. Len(b) : j > i => b[j].k \notin Inp!Group[m]
NoneOf(b, m) == \A i \in 1 .. Len(b) : b[i].k \notin Inp!Group[m]
ModifierKnown(m) == Inp!Group[m] \cap in_unknown = {} =>
  LET b == in_pckbd.buf IN
  /\ \A i \in 1 .. Len(b) : IsLast(b, i, m) =>
       Tells(m, b[i].press, Inp!Group[m] \cap KbTyped # {b[i].k})
  /\ NoneOf(b, m) => Tells(m, m \in in_kb.status, m \in in_crossed)

CharsKnown ==
  /\ \A k \in KbTyped : Inp!HasChar(k) => in_kb.key_char[k] = in_said[k]
  /\ in_kb.up # KbNoKey /\ in_kb.chr # KbNoKey => in_kb.chr = in_said[in_kb.up]

KeyInv ==
  /\ KeyTypes /\ WireIsKey /\ CharsKnown
  /\ \A m \in Modifiers : ModifierKnown(m)

LEMMA GroupsAre ==
  /\ DOMAIN Inp!Group = Modifiers
  /\ \A m \in Modifiers : Inp!CAPSLOCK \notin Inp!Group[m] /\ m # "caps"
BY DEF Inp!Group, Inp!CAPSLOCK, Modifiers

LEMMA OfIs ==
  ASSUME NEW k
  PROVE  Inp!Of(k) = {m \in Modifiers : k \in Inp!Group[m]}
BY GroupsAre DEF Inp!Of

\* Sequences of up to three items that need not be of one kind.
LEMMA Pairs ==
  ASSUME NEW a, NEW b
  PROVE  <<a>> \o <<b>> = <<a, b>> /\ <<>> \o <<b>> = <<b>>
<1>1. PICK S : S = {a, b}
  OBVIOUS
<1>2. <<a>> \in Seq(S) /\ <<b>> \in Seq(S) /\ <<a, b>> \in Seq(S)
  BY <1>1
<1>3. /\ Len(<<a>>) = 1 /\ Len(<<b>>) = 1 /\ Len(<<a, b>>) = 2
      /\ <<a>>[1] = a /\ <<b>>[1] = b /\ <<a, b>>[1] = a /\ <<a, b>>[2] = b
  OBVIOUS
<1>4. /\ <<a>> \o <<b>> \in Seq(S) /\ Len(<<a>> \o <<b>>) = 2
      /\ \A i \in 1 .. 2 : (<<a>> \o <<b>>)[i] = <<a, b>>[i]
  BY <1>2, <1>3, ConcatProperties
<1>5. <<>> \o <<b>> = <<b>>
  BY <1>2, ConcatEmptySeq
<1> QED
  BY <1>2, <1>3, <1>4, <1>5, SeqEqual

LEMMA Triples ==
  ASSUME NEW a, NEW b, NEW c
  PROVE  Append(<<>>, a) = <<a>> /\ Append(<<a>>, b) = <<a, b>> /\ Append(<<a, b>>, c) = <<a, b, c>>
<1>1. PICK S : S = {a, b, c}
  OBVIOUS
<1>2. <<a>> \in Seq(S) /\ <<a, b>> \in Seq(S) /\ <<a, b, c>> \in Seq(S) /\ b \in S /\ c \in S
  BY <1>1
<1>3. /\ Len(<<a>>) = 1 /\ Len(<<a, b>>) = 2 /\ Len(<<a, b, c>>) = 3
      /\ <<a>>[1] = a /\ <<a, b>>[1] = a /\ <<a, b>>[2] = b
      /\ <<a, b, c>>[1] = a /\ <<a, b, c>>[2] = b /\ <<a, b, c>>[3] = c
  OBVIOUS
<1>4. /\ Append(<<a>>, b) \in Seq(S) /\ Len(Append(<<a>>, b)) = 2
      /\ \A i \in 1 .. 2 : Append(<<a>>, b)[i] = <<a, b>>[i]
  BY <1>2, <1>3, AppendProperties
<1>5. /\ Append(<<a, b>>, c) \in Seq(S) /\ Len(Append(<<a, b>>, c)) = 3
      /\ \A i \in 1 .. 3 : Append(<<a, b>>, c)[i] = <<a, b, c>>[i]
  BY <1>2, <1>3, AppendProperties
<1>6. Append(<<>>, a) = <<a>>
  OBVIOUS
<1>7. Append(<<a>>, b) = <<a, b>>
  BY <1>2, <1>3, <1>4, SeqEqual
<1>8. Append(<<a, b>>, c) = <<a, b, c>>
  BY <1>2, <1>3, <1>5, SeqEqual
<1> QED
  BY <1>6, <1>7, <1>8

\* The arithmetic of scan codes.
LEMMA ScanCodes ==
  ASSUME Inp!InputAssumption, NEW k \in KbTyped
  PROVE  /\ k \in Nat /\ k % 128 \in 0 .. 127 /\ k % 128 # 96
         /\ k = (k % 128) + (IF k >= 128 THEN 128 ELSE 0)
         /\ ((k % 128) + 128) % 128 = k % 128 /\ (k % 128) % 128 = k % 128
<1>1. k \in 0 .. 255 /\ k % 128 # 96
  BY DEF Inp!InputAssumption
<1> QED
  BY <1>1

\* What arrives with the last byte is the key.
LEMMA Arrives ==
  ASSUME Inp!InputAssumption, NEW k \in KbTyped
  PROVE  /\ LastByte(k) # 224 /\ (LastByte(k) < 128 <=> k \in in_down)
         /\ LastByte(k) \in 0 .. 255
         /\ Inp!Scancode(LastByte(k), k >= 128) = k
BY ScanCodes DEF LastByte, Inp!Scancode

LEMMA Comes ==
  ASSUME Inp!InputAssumption, NEW k \in KbTyped, KeyTypes
  PROVE  Coming(k) <=>
           \/ in_wire = <<224, LastByte(k)>> /\ ~in_pckbd.escaped /\ k >= 128
           \/ in_wire = <<LastByte(k)>> /\ (in_pckbd.escaped <=> k >= 128)
<1>1. k \in Nat /\ in_pckbd.escaped \in BOOLEAN
  BY ScanCodes DEF KeyTypes
<1>2. Inp!Bytes(k, k \in in_down) = (IF k >= 128 THEN <<224>> ELSE <<>>) \o <<LastByte(k)>>
  BY DEF Inp!Bytes, LastByte
<1>3. <<224>> \o <<LastByte(k)>> = <<224, LastByte(k)>> /\ <<>> \o <<LastByte(k)>> = <<LastByte(k)>>
  <2>1. PICK x : x = LastByte(k)
    OBVIOUS
  <2>2. <<>> \o <<x>> = <<x>> /\ <<224>> \o <<x>> = <<224, x>>
    BY Pairs
  <2> QED
    BY <2>1, <2>2
<1>4. CASE k >= 128
  BY <1>1, <1>2, <1>3, <1>4 DEF Coming
<1>5. CASE ~(k >= 128)
  BY <1>1, <1>2, <1>3, <1>5 DEF Coming
<1> QED
  BY <1>4, <1>5

LEMMA OneComes ==
  ASSUME Inp!InputAssumption, KeyTypes, NEW k \in KbTyped, NEW l \in KbTyped, Coming(k), Coming(l)
  PROVE  k = l
<1>1. LastByte(k) # 224 /\ LastByte(l) # 224
  BY Arrives
<1>2. \/ in_wire = <<224, LastByte(k)>> /\ ~in_pckbd.escaped /\ k >= 128
      \/ in_wire = <<LastByte(k)>> /\ (in_pckbd.escaped <=> k >= 128)
  BY Comes
<1>3. \/ in_wire = <<224, LastByte(l)>> /\ ~in_pckbd.escaped /\ l >= 128
      \/ in_wire = <<LastByte(l)>> /\ (in_pckbd.escaped <=> l >= 128)
  BY Comes
<1>4. LastByte(k) = LastByte(l) /\ (k >= 128 <=> l >= 128)
  <2>1. CASE in_wire = <<224, LastByte(k)>> /\ ~in_pckbd.escaped /\ k >= 128
    BY <1>1, <1>3, <2>1
  <2>2. CASE in_wire = <<LastByte(k)>> /\ (in_pckbd.escaped <=> k >= 128)
    BY <1>1, <1>3, <2>2
  <2> QED
    BY <1>2, <2>1, <2>2
<1>5. Inp!Scancode(LastByte(k), k >= 128) = k /\ Inp!Scancode(LastByte(l), l >= 128) = l
  BY Arrives
<1>6. (k >= 128) = (l >= 128)
  BY <1>4
<1> QED
  BY <1>4, <1>5, <1>6

\* An event of another key changes nothing of what is last, one of a key of the
\* modifier is last.
LEMMA LastOfMore ==
  ASSUME NEW s \in Seq(KeyEvents), NEW e \in KeyEvents, NEW m \in Modifiers,
         e.k \notin Inp!Group[m]
  PROVE  /\ \A i \in 1 .. Len(Append(s, e)) : IsLast(Append(s, e), i, m) =>
              i \in 1 .. Len(s) /\ IsLast(s, i, m) /\ Append(s, e)[i] = s[i]
         /\ NoneOf(Append(s, e), m) => NoneOf(s, m)
<1>1. PICK n \in Nat : n = Len(s)
  OBVIOUS
<1>2. PICK a \in Seq(KeyEvents) : a = Append(s, e)
  BY AppendProperties
<1>3. Len(a) = n + 1 /\ (\A i \in 1 .. n : a[i] = s[i]) /\ a[n + 1] = e
  BY <1>1, <1>2, AppendProperties
<1>4. ASSUME NEW i \in 1 .. Len(a), IsLast(a, i, m)
      PROVE  i \in 1 .. n /\ IsLast(s, i, m) /\ a[i] = s[i]
  <2>1. i # n + 1
    BY <1>3, <1>4 DEF IsLast
  <2>2. i \in 1 .. n /\ a[i] = s[i] /\ a[i].k \in Inp!Group[m]
    BY <1>3, <1>4, <2>1 DEF IsLast
  <2>3. ASSUME NEW j \in 1 .. n, j > i PROVE s[j].k \notin Inp!Group[m]
    BY <1>3, <1>4, <2>3 DEF IsLast
  <2> QED
    BY <1>1, <2>2, <2>3 DEF IsLast
<1>5. NoneOf(a, m) => NoneOf(s, m)
  BY <1>1, <1>3 DEF NoneOf
<1> QED
  BY <1>1, <1>2, <1>4, <1>5

LEMMA LastOfThis ==
  ASSUME NEW s \in Seq(KeyEvents), NEW e \in KeyEvents, NEW m \in Modifiers,
         e.k \in Inp!Group[m]
  PROVE  /\ ~NoneOf(Append(s, e), m)
         /\ \A i \in 1 .. Len(Append(s, e)) : IsLast(Append(s, e), i, m) => Append(s, e)[i] = e
<1>1. PICK n \in Nat : n = Len(s)
  OBVIOUS
<1>2. PICK a \in Seq(KeyEvents) : a = Append(s, e)
  BY AppendProperties
<1>3. Len(a) = n + 1 /\ a[n + 1] = e
  BY <1>1, <1>2, AppendProperties
<1>4. ASSUME NEW i \in 1 .. Len(a), IsLast(a, i, m) PROVE i = n + 1
  BY <1>3, <1>4 DEF IsLast
<1> QED
  BY <1>2, <1>3, <1>4 DEF NoneOf

\* And the first event of a buffer is read.
LEMMA LastOfRest ==
  ASSUME NEW s \in Seq(KeyEvents), s # <<>>, NEW m \in Modifiers
  PROVE  /\ Head(s) = s[1] /\ Head(s) \in KeyEvents /\ Tail(s) \in Seq(KeyEvents)
         /\ \A i \in 1 .. Len(Tail(s)) : IsLast(Tail(s), i, m) =>
              i + 1 \in 1 .. Len(s) /\ IsLast(s, i + 1, m) /\ Tail(s)[i] = s[i + 1]
         /\ NoneOf(Tail(s), m) => \/ IsLast(s, 1, m)
                                  \/ NoneOf(s, m) /\ Head(s).k \notin Inp!Group[m]
<1>1. PICK n \in Nat : Len(s) = n + 1
  BY EmptySeq
<1>2. PICK t \in Seq(KeyEvents) : t = Tail(s)
  BY HeadTailProperties
<1>3. Len(t) = n /\ \A i \in 1 .. n : t[i] = s[i + 1]
  BY <1>1, <1>2, HeadTailProperties
<1>4. Head(s) = s[1] /\ Head(s) \in KeyEvents
  BY HeadTailProperties
<1>5. ASSUME NEW i \in 1 .. n, IsLast(t, i, m)
      PROVE  i + 1 \in 1 .. Len(s) /\ IsLast(s, i + 1, m) /\ t[i] = s[i + 1]
  <2>1. ASSUME NEW j \in 1 .. n + 1, j > i + 1 PROVE s[j].k \notin Inp!Group[m]
    <3>1. j - 1 \in 1 .. n /\ j - 1 > i /\ (j - 1) + 1 = j
      BY <2>1
    <3> QED
      BY <1>3, <1>5, <3>1 DEF IsLast
  <2> QED
    BY <1>1, <1>3, <1>5, <2>1 DEF IsLast
<1>6. ASSUME NoneOf(t, m)
      PROVE  IsLast(s, 1, m) \/ (NoneOf(s, m) /\ Head(s).k \notin Inp!Group[m])
  <2>1. ASSUME NEW j \in 1 .. n + 1, j > 1 PROVE s[j].k \notin Inp!Group[m]
    <3>1. j - 1 \in 1 .. n /\ (j - 1) + 1 = j
      BY <2>1
    <3> QED
      BY <1>3, <1>6, <3>1 DEF NoneOf
  <2>2. CASE s[1].k \in Inp!Group[m]
    <3>1. 1 \in 1 .. Len(s)
      BY <1>1
    <3>2. ASSUME NEW j \in 1 .. Len(s), j > 1 PROVE s[j].k \notin Inp!Group[m]
      <4>1. j \in 1 .. n + 1
        BY <1>1
      <4> QED
        BY <2>1, <3>2, <4>1
    <3> QED
      BY <2>2, <3>1, <3>2 DEF IsLast
  <2>3. CASE s[1].k \notin Inp!Group[m]
    <3>1. ASSUME NEW j \in 1 .. n + 1 PROVE s[j].k \notin Inp!Group[m]
      BY <2>1, <2>3, <3>1
    <3> QED
      BY <1>1, <1>4, <2>3, <3>1 DEF NoneOf
  <2> QED
    BY <2>2, <2>3
<1> QED
  BY <1>1, <1>2, <1>3, <1>4, <1>5, <1>6

LEMMA KeyBegins ==
  ASSUME Inp!InputAssumption, Inp!Init
  PROVE  KeyInv
<1>1. /\ in_wire = <<>> /\ in_down = {} /\ in_pckbd = [buf |-> <<>>, escaped |-> FALSE]
      /\ in_kb = [status |-> {}, key_char |-> [k \in KbTyped |-> KbNoKey], up |-> KbNoKey,
                  chr |-> KbNoKey]
      /\ in_unknown = {} /\ in_crossed = {} /\ in_said = [k \in KbTyped |-> KbNoKey]
  BY DEF Inp!Init
<1>2. PICK c \in [KbTyped -> Layers] : c = [k \in KbTyped |-> KbNoKey]
  BY DEF Layers
<1>3. KeyTypes
  <2>1. in_kb \in KbStates
    BY <1>1, <1>2 DEF KbStates, Layers
  <2>2. in_pckbd \in [buf : Seq(KeyEvents), escaped : BOOLEAN]
    BY <1>1
  <2> QED
    BY <1>1, <1>2, <2>1, <2>2 DEF KeyTypes
<1>4. WireIsKey /\ CharsKnown
  BY <1>1, <1>2 DEF WireIsKey, CharsKnown
<1>5. ASSUME NEW m \in Modifiers PROVE ModifierKnown(m)
  <2>1. Len(in_pckbd.buf) = 0 /\ m \notin in_kb.status
    BY <1>1
  <2> QED
    BY <1>1, <2>1 DEF ModifierKnown, IsLast, Tells
<1> QED
  BY <1>3, <1>4, <1>5 DEF KeyInv

\* A key is pressed, released or repeats: the change is on the way.
LEMMA TypeKeeps ==
  ASSUME Inp!InputAssumption, KeyInv, NEW k \in KbTyped, NEW press \in BOOLEAN,
         Inp!Type(k, press)
  PROVE  KeyInv'
<1>0. KeyTypes /\ WireIsKey /\ CharsKnown /\ \A m \in Modifiers : ModifierKnown(m)
  BY DEF KeyInv
<1>1. /\ in_wire = <<>> /\ in_wire' = Inp!Bytes(k, press)
      /\ in_down' = IF press THEN in_down \cup {k} ELSE in_down \ {k}
      /\ UNCHANGED <<in_pckbd, in_kb, in_unknown, in_crossed, in_said>>
  BY DEF Inp!Type
<1>2. ASSUME NEW l \in KbTyped, Coming(l) PROVE FALSE
  <2>1. PICK b : b = LastByte(l)
    OBVIOUS
  <2>2. in_wire = <<224, b>> \/ in_wire = <<b>>
    BY <1>0, <1>2, <2>1, Comes
  <2> QED
    BY <1>1, <2>2
<1>3. ~in_pckbd.escaped
  BY <1>0, <1>2 DEF WireIsKey
<1>4. Coming(k)' /\ (press <=> k \in in_down')
  <2>1. press <=> k \in in_down'
    BY <1>1
  <2>2. press = (k \in in_down')
    BY <2>1
  <2> QED
    BY <1>1, <1>3, <2>1, <2>2 DEF Coming
<1>5. KeyTypes' /\ WireIsKey' /\ CharsKnown'
  BY <1>0, <1>1, <1>4 DEF KeyTypes, WireIsKey, CharsKnown
<1>6. ASSUME NEW m \in Modifiers, NEW on, NEW gone, Tells(m, on, gone)
      PROVE  Tells(m, on, gone)'
  <2>1. CASE k \in Inp!Group[m]
    <3>1. CASE on
      <4>1. Inp!Group[m] \cap in_down # {}
        BY <1>2, <1>6, <3>1 DEF Tells
      <4> QED
        BY <1>1, <1>4, <2>1, <3>1, <4>1 DEF Tells
    <3>2. CASE ~on
      <4>1. Inp!Group[m] \cap in_down = {} \/ gone
        BY <1>2, <1>6, <3>2 DEF Tells
      <4> QED
        BY <1>1, <1>4, <2>1, <3>2, <4>1 DEF Tells
    <3> QED
      BY <3>1, <3>2
  <2>2. CASE k \notin Inp!Group[m]
    <3>1. Inp!Group[m] \cap in_down' = Inp!Group[m] \cap in_down
      BY <1>1, <2>2
    <3> QED
      BY <1>2, <1>6, <3>1 DEF Tells
  <2> QED
    BY <2>1, <2>2
<1>7. ASSUME NEW m \in Modifiers PROVE ModifierKnown(m)'
  BY <1>0, <1>1, <1>6 DEF ModifierKnown
<1> QED
  BY <1>5, <1>7 DEF KeyInv

\* The escape has interrupted.
LEMMA EscapeKeeps ==
  ASSUME Inp!InputAssumption, KeyInv, Inp!irq1_handler, Head(in_wire) = 224
  PROVE  KeyInv'
<1>0. KeyTypes /\ WireIsKey /\ CharsKnown /\ \A m \in Modifiers : ModifierKnown(m)
  BY DEF KeyInv
<1>1. /\ in_wire # <<>> /\ in_wire' = Tail(in_wire)
      /\ in_pckbd' = [in_pckbd EXCEPT !.escaped = TRUE]
      /\ UNCHANGED <<in_down, in_kb, in_unknown, in_crossed, in_said>>
  BY DEF Inp!irq1_handler
<1>2. PICK k \in KbTyped : Coming(k)
  BY <1>0, <1>1 DEF WireIsKey
<1>3. PICK b \in 0 .. 255 : b = LastByte(k) /\ b # 224
  BY Arrives
<1>4. in_wire = <<224, b>> /\ ~in_pckbd.escaped /\ k >= 128
  <2>1. \/ in_wire = <<224, b>> /\ ~in_pckbd.escaped /\ k >= 128
        \/ in_wire = <<b>> /\ (in_pckbd.escaped <=> k >= 128)
    BY <1>0, <1>2, <1>3, Comes
  <2> QED
    BY <1>3, <2>1
<1>5. in_wire' = <<b>>
  BY <1>1, <1>4
<1>6. in_pckbd'.escaped = TRUE /\ in_pckbd'.buf = in_pckbd.buf
      /\ in_pckbd' \in [buf : Seq(KeyEvents), escaped : BOOLEAN]
  BY <1>0, <1>1 DEF KeyTypes
<1>7. Coming(k)'
  BY <1>1, <1>3, <1>4, <1>5, <1>6 DEF Coming, LastByte
<1>8. KeyTypes' /\ WireIsKey' /\ CharsKnown'
  BY <1>0, <1>1, <1>6, <1>7 DEF KeyTypes, WireIsKey, CharsKnown
<1>9. ASSUME NEW m \in Modifiers, NEW on, NEW gone, Tells(m, on, gone)
      PROVE  Tells(m, on, gone)'
  <2>1. \A l \in KbTyped : Coming(l) => l = k
    BY <1>0, <1>2, OneComes
  <2> QED
    BY <1>1, <1>7, <1>9, <2>1 DEF Tells
<1>10. ASSUME NEW m \in Modifiers PROVE ModifierKnown(m)'
  BY <1>0, <1>1, <1>6, <1>9 DEF ModifierKnown
<1> QED
  BY <1>8, <1>10 DEF KeyInv

\* The last byte of a key has interrupted: its event is in the buffer, or lost.
LEMMA KeyArrives ==
  ASSUME Inp!InputAssumption, KeyInv, Inp!irq1_handler, Head(in_wire) # 224
  PROVE  KeyInv'
<1>0. KeyTypes /\ WireIsKey /\ CharsKnown /\ \A m \in Modifiers : ModifierKnown(m)
  BY DEF KeyInv
<1>1. in_wire # <<>> /\ in_wire' = Tail(in_wire) /\ UNCHANGED <<in_down, in_kb, in_crossed, in_said>>
  BY DEF Inp!irq1_handler
<1>2. PICK k \in KbTyped : Coming(k)
  BY <1>0, <1>1 DEF WireIsKey
<1>3. PICK b \in 0 .. 255 : b = LastByte(k) /\ b # 224
  BY Arrives
<1>4. in_wire = <<b>> /\ (in_pckbd.escaped <=> k >= 128)
  <2>1. \/ in_wire = <<224, b>> /\ ~in_pckbd.escaped /\ k >= 128
        \/ in_wire = <<b>> /\ (in_pckbd.escaped <=> k >= 128)
    BY <1>0, <1>2, <1>3, Comes
  <2> QED
    BY <2>1
<1>5. Inp!Scancode(b, in_pckbd.escaped) = k /\ (b < 128 <=> k \in in_down)
  <2>1. in_pckbd.escaped = (k >= 128)
    BY <1>0, <1>4 DEF KeyTypes
  <2> QED
    BY <1>3, <2>1, Arrives
<1>6. in_wire' = <<>> /\ Head(in_wire) = b
  BY <1>1, <1>4
<1>7. PICK s \in Seq(KeyEvents) : s = in_pckbd.buf
  BY <1>0 DEF KeyTypes
<1>8. PICK e \in KeyEvents : e = [k |-> k, press |-> b < 128]
  <2>1. CASE b < 128
    <3>1. (b < 128) = TRUE
      BY <2>1
    <3>2. [k |-> k, press |-> TRUE] \in KeyEvents
      BY DEF KeyEvents
    <3> QED
      BY <3>1, <3>2
  <2>2. CASE ~(b < 128)
    <3>1. (b < 128) = FALSE
      BY <2>2
    <3>2. [k |-> k, press |-> FALSE] \in KeyEvents
      BY DEF KeyEvents
    <3> QED
      BY <3>1, <3>2
  <2> QED
    BY <2>1, <2>2
<1>9. e.k = k /\ (e.press <=> k \in in_down)
  BY <1>5, <1>8
<1>10. /\ in_pckbd' = [buf |-> IF Len(s) < KbBufLen THEN Append(s, e) ELSE s, escaped |-> FALSE]
       /\ in_unknown' = IF Len(s) < KbBufLen THEN in_unknown \ {k} ELSE in_unknown \cup {k}
  BY <1>3, <1>5, <1>6, <1>7, <1>8 DEF Inp!irq1_handler
<1>11. Append(s, e) \in Seq(KeyEvents)
  BY AppendProperties
<1>12. KeyTypes' /\ WireIsKey' /\ CharsKnown'
  <2>1. in_pckbd' \in [buf : Seq(KeyEvents), escaped : BOOLEAN] /\ ~in_pckbd'.escaped
    BY <1>10, <1>11
  <2> QED
    BY <1>0, <1>1, <1>6, <2>1 DEF KeyTypes, WireIsKey, CharsKnown
\* What was told without it is told still.
<1>13. ASSUME NEW m \in Modifiers, NEW on, NEW gone, Tells(m, on, gone), k \notin Inp!Group[m]
       PROVE  Tells(m, on, gone)'
  <2>1. \A l \in KbTyped : Coming(l) => l = k
    BY <1>0, <1>2, OneComes
  <2> QED
    BY <1>1, <1>13, <2>1 DEF Tells
<1>14. ASSUME NEW m \in Modifiers, k \notin Inp!Group[m] PROVE ModifierKnown(m)'
  <2>1. Inp!Group[m] \cap in_unknown' = Inp!Group[m] \cap in_unknown
    BY <1>10, <1>14
  <2>2. CASE Len(s) < KbBufLen
    <3>1. in_pckbd'.buf = Append(s, e)
      BY <1>10, <2>2
    <3>2. /\ \A i \in 1 .. Len(Append(s, e)) : IsLast(Append(s, e), i, m) =>
               i \in 1 .. Len(s) /\ IsLast(s, i, m) /\ Append(s, e)[i] = s[i]
          /\ NoneOf(Append(s, e), m) => NoneOf(s, m)
      BY <1>9, <1>14, LastOfMore
    <3> QED
      <4>1. SUFFICES ASSUME Inp!Group[m] \cap in_unknown = {} PROVE ModifierKnown(m)'
        BY <2>1 DEF ModifierKnown
      <4>2. /\ \A i \in 1 .. Len(s) : IsLast(s, i, m) =>
                 Tells(m, s[i].press, Inp!Group[m] \cap KbTyped # {s[i].k})
            /\ NoneOf(s, m) => Tells(m, m \in in_kb.status, m \in in_crossed)
        BY <1>0, <1>7, <4>1 DEF ModifierKnown
      <4>3. ASSUME NEW i \in 1 .. Len(Append(s, e)), IsLast(Append(s, e), i, m)
            PROVE  Tells(m, Append(s, e)[i].press,
                         Inp!Group[m] \cap KbTyped # {Append(s, e)[i].k})'
        <5>1. i \in 1 .. Len(s) /\ IsLast(s, i, m) /\ Append(s, e)[i] = s[i]
          BY <3>2, <4>3
        <5>2. Tells(m, s[i].press, Inp!Group[m] \cap KbTyped # {s[i].k})
          BY <4>2, <5>1
        <5>3. Tells(m, s[i].press, Inp!Group[m] \cap KbTyped # {s[i].k})'
          BY <1>13, <1>14, <5>2
        <5> QED
          BY <5>1, <5>3
      <4>4. NoneOf(Append(s, e), m) => Tells(m, m \in in_kb.status, m \in in_crossed)'
        BY <1>1, <1>13, <1>14, <3>2, <4>2
      <4> QED
        BY <1>1, <3>1, <4>3, <4>4 DEF ModifierKnown
  <2>3. CASE ~(Len(s) < KbBufLen)
    <3>1. in_pckbd'.buf = s
      BY <1>10, <2>3
    <3> QED
      BY <1>0, <1>1, <1>7, <1>13, <1>14, <2>1, <3>1 DEF ModifierKnown
  <2> QED
    BY <2>2, <2>3
<1>15. ASSUME NEW m \in Modifiers, k \in Inp!Group[m] PROVE ModifierKnown(m)'
  <2>1. CASE Len(s) < KbBufLen
    <3>1. in_pckbd'.buf = Append(s, e)
      BY <1>10, <2>1
    <3>2. /\ ~NoneOf(Append(s, e), m)
          /\ \A i \in 1 .. Len(Append(s, e)) : IsLast(Append(s, e), i, m) => Append(s, e)[i] = e
      BY <1>9, <1>15, LastOfThis
    <3>3. Tells(m, e.press, Inp!Group[m] \cap KbTyped # {k})'
      <4>1. in_down \subseteq KbTyped
        BY <1>0 DEF KeyTypes
      <4> QED
        BY <1>1, <1>9, <1>15, <4>1 DEF Tells
    <3> QED
      BY <1>9, <3>1, <3>2, <3>3 DEF ModifierKnown
  <2>2. CASE ~(Len(s) < KbBufLen)
    BY <1>10, <1>15, <2>2 DEF ModifierKnown
  <2> QED
    BY <2>1, <2>2
<1>16. ASSUME NEW m \in Modifiers PROVE ModifierKnown(m)'
  BY <1>14, <1>15
<1> QED
  BY <1>12, <1>16 DEF KeyInv

\* The program reads an event.
LEMMA StatusRead ==
  ASSUME Inp!InputAssumption, KeyTypes, NEW e \in KeyEvents,
         IF e.press THEN Inp!keyboard_press(e.k) ELSE Inp!keyboard_release(e.k)
  PROVE  \A m \in Modifiers :
           m \in in_kb'.status <=> IF e.k \in Inp!Group[m] THEN e.press ELSE m \in in_kb.status
<1>1. e.k \in KbTyped /\ e.press \in BOOLEAN /\ in_kb \in KbStates
  BY DEF KeyEvents, KeyTypes
<1>2. Inp!Of(e.k) = {m \in Modifiers : e.k \in Inp!Group[m]}
  BY OfIs
<1>3. CASE e.press
  <2>1. in_kb'.status = IF RaltIsMod /\ e.k = Inp!CAPSLOCK THEN Inp!Toggled(in_kb.status)
                        ELSE in_kb.status \cup Inp!Of(e.k)
    BY <1>3 DEF Inp!keyboard_press
  <2>2. CASE RaltIsMod /\ e.k = Inp!CAPSLOCK
    BY <1>3, <2>1, <2>2, GroupsAre DEF Inp!Toggled
  <2>3. CASE ~(RaltIsMod /\ e.k = Inp!CAPSLOCK)
    BY <1>2, <1>3, <2>1, <2>3
  <2> QED
    BY <2>2, <2>3
<1>4. CASE ~e.press
  <2>1. in_kb'.status = in_kb.status \ Inp!Of(e.k)
    BY <1>1, <1>4 DEF Inp!keyboard_release, KbStates
  <2> QED
    BY <1>2, <1>4, <2>1
<1> QED
  BY <1>3, <1>4

\* A character that a key goes up as is the one it went down as.
LEMMA CharsRead ==
  ASSUME Inp!InputAssumption, KeyTypes, CharsKnown, NEW e \in KeyEvents,
         IF e.press THEN Inp!keyboard_press(e.k) ELSE Inp!keyboard_release(e.k)
  PROVE  in_kb' \in KbStates /\ in_said' \in [KbTyped -> Layers] /\ CharsKnown'
<1>1. /\ e.k \in KbTyped /\ e.press \in BOOLEAN /\ in_kb \in KbStates
      /\ in_said \in [KbTyped -> Layers] /\ KbNoKey \in Layers
  BY DEF KeyEvents, KeyTypes, Layers
<1>2. /\ in_kb.status \in SUBSET (Modifiers \cup {"caps"}) /\ in_kb.key_char \in [KbTyped -> Layers]
      /\ in_kb.up \in KbTyped \cup {KbNoKey} /\ in_kb.chr \in Layers
  BY <1>1 DEF KbStates
<1>3. Inp!Of(e.k) \subseteq Modifiers
  BY OfIs
<1>4. ASSUME e.press
      PROVE  in_kb' \in KbStates /\ in_said' \in [KbTyped -> Layers] /\ CharsKnown'
  <2>1. PICK st : st = IF RaltIsMod /\ e.k = Inp!CAPSLOCK THEN Inp!Toggled(in_kb.status)
                       ELSE in_kb.status \cup Inp!Of(e.k)
    OBVIOUS
  <2>2. st \in SUBSET (Modifiers \cup {"caps"})
    BY <1>2, <1>3, <2>1 DEF Inp!Toggled
  <2>3. PICK c \in Layers : c = IF Inp!HasChar(e.k) THEN Inp!key_chr(st) ELSE KbNoKey
    BY DEF Layers, Inp!key_chr
  <2>4. PICK f \in [KbTyped -> Layers] :
          f = IF Inp!HasChar(e.k) THEN [in_kb.key_char EXCEPT ![e.k] = c] ELSE in_kb.key_char
    BY <1>1, <1>2
  <2>5. PICK g \in [KbTyped -> Layers] :
          g = IF Inp!HasChar(e.k) THEN [in_said EXCEPT ![e.k] = c] ELSE in_said
    BY <1>1
  <2>6. in_kb' = [status |-> st, up |-> KbNoKey, chr |-> c, key_char |-> f] /\ in_said' = g
    BY <1>4, <2>1, <2>3, <2>4, <2>5 DEF Inp!keyboard_press
  <2>7. in_kb' \in KbStates
    BY <2>2, <2>6 DEF KbStates
  <2>8. ASSUME NEW l \in KbTyped, Inp!HasChar(l) PROVE f[l] = g[l]
    BY <1>1, <1>2, <2>4, <2>5, <2>8 DEF CharsKnown
  <2> QED
    BY <2>6, <2>7, <2>8 DEF CharsKnown
<1>5. ASSUME ~e.press
      PROVE  in_kb' \in KbStates /\ in_said' \in [KbTyped -> Layers] /\ CharsKnown'
  <2>1. PICK c \in Layers : c = IF Inp!HasChar(e.k) THEN in_kb.key_char[e.k] ELSE KbNoKey
    BY <1>1, <1>2
  <2>2. /\ in_kb' = [in_kb EXCEPT !.status = in_kb.status \ Inp!Of(e.k), !.up = e.k, !.chr = c]
        /\ in_said' = in_said
    BY <1>1, <1>5, <2>1 DEF Inp!keyboard_release, Inp!Released
  <2>3. in_kb' \in KbStates /\ in_kb'.up = e.k /\ in_kb'.chr = c /\ in_kb'.key_char = in_kb.key_char
    BY <1>1, <1>2, <2>2 DEF KbStates
  <2>4. CharsKnown'
    BY <1>1, <2>1, <2>2, <2>3 DEF CharsKnown
  <2> QED
    BY <1>1, <2>2, <2>3, <2>4
<1> QED
  BY <1>4, <1>5

LEMMA KeyReadKeeps ==
  ASSUME Inp!InputAssumption, KeyInv, Inp!pckbd_read
  PROVE  KeyInv'
<1>0. KeyTypes /\ WireIsKey /\ CharsKnown /\ \A m \in Modifiers : ModifierKnown(m)
  BY DEF KeyInv
<1>1. PICK s \in Seq(KeyEvents) : s = in_pckbd.buf /\ s # <<>>
  BY <1>0 DEF KeyTypes, Inp!pckbd_read
<1>2. PICK e \in KeyEvents : e = Head(s) /\ e = s[1]
  BY <1>1, HeadTailProperties
<1>3. PICK t \in Seq(KeyEvents) : t = Tail(s)
  BY <1>1, HeadTailProperties
<1>4. /\ in_pckbd' = [in_pckbd EXCEPT !.buf = t]
      /\ IF e.press THEN Inp!keyboard_press(e.k) ELSE Inp!keyboard_release(e.k)
      /\ in_crossed' = IF e.press THEN in_crossed \ Inp!Of(e.k)
                       ELSE in_crossed \cup {m \in Inp!Of(e.k) : Inp!Group[m] \cap KbTyped # {e.k}}
      /\ UNCHANGED <<in_wire, in_down, in_unknown>>
  BY <1>1, <1>2, <1>3 DEF Inp!pckbd_read
<1>5. in_pckbd' \in [buf : Seq(KeyEvents), escaped : BOOLEAN] /\ in_pckbd'.buf = t
      /\ in_pckbd'.escaped = in_pckbd.escaped
  BY <1>0, <1>4 DEF KeyTypes
<1>6. in_kb' \in KbStates /\ in_said' \in [KbTyped -> Layers] /\ CharsKnown'
  BY <1>0, <1>4, CharsRead
<1>7. KeyTypes' /\ WireIsKey'
  BY <1>0, <1>4, <1>5, <1>6 DEF KeyTypes, WireIsKey, Coming, LastByte
<1>8. ASSUME NEW m \in Modifiers, NEW on, NEW gone, Tells(m, on, gone)
      PROVE  Tells(m, on, gone)'
  BY <1>4, <1>5, <1>8 DEF Tells, Coming, LastByte
<1>9. ASSUME NEW m \in Modifiers, Inp!Group[m] \cap in_unknown = {} PROVE ModifierKnown(m)'
  <2>1. /\ \A i \in 1 .. Len(s) : IsLast(s, i, m) =>
             Tells(m, s[i].press, Inp!Group[m] \cap KbTyped # {s[i].k})
        /\ NoneOf(s, m) => Tells(m, m \in in_kb.status, m \in in_crossed)
    BY <1>0, <1>1, <1>9 DEF ModifierKnown
  <2>2. /\ \A i \in 1 .. Len(t) : IsLast(t, i, m) =>
             i + 1 \in 1 .. Len(s) /\ IsLast(s, i + 1, m) /\ t[i] = s[i + 1]
        /\ NoneOf(t, m) => \/ IsLast(s, 1, m)
                           \/ NoneOf(s, m) /\ e.k \notin Inp!Group[m]
    BY <1>1, <1>2, <1>3, LastOfRest
  <2>3. ASSUME NEW i \in 1 .. Len(t), IsLast(t, i, m)
        PROVE  Tells(m, t[i].press, Inp!Group[m] \cap KbTyped # {t[i].k})'
    <3>1. t[i] = s[i + 1] /\ Tells(m, s[i + 1].press, Inp!Group[m] \cap KbTyped # {s[i + 1].k})
      BY <2>1, <2>2, <2>3
    <3>2. Tells(m, s[i + 1].press, Inp!Group[m] \cap KbTyped # {s[i + 1].k})'
      BY <1>8, <3>1
    <3> QED
      BY <3>1, <3>2
  <2>4. m \in in_kb'.status <=> IF e.k \in Inp!Group[m] THEN e.press ELSE m \in in_kb.status
    BY <1>0, <1>4, StatusRead
  <2>5. Inp!Of(e.k) = {n \in Modifiers : e.k \in Inp!Group[n]}
    BY OfIs
  <2>6. ASSUME NoneOf(t, m) PROVE Tells(m, m \in in_kb.status, m \in in_crossed)'
    <3>1. CASE IsLast(s, 1, m)
      <4>1. e.k \in Inp!Group[m] /\ 1 \in 1 .. Len(s)
        BY <1>2, <3>1 DEF IsLast
      <4>2. Tells(m, e.press, Inp!Group[m] \cap KbTyped # {e.k})
        BY <1>2, <2>1, <3>1, <4>1
      <4>3. Tells(m, e.press, Inp!Group[m] \cap KbTyped # {e.k})'
        BY <1>8, <4>2
      <4>4. ~e.press /\ Inp!Group[m] \cap KbTyped # {e.k} => m \in in_crossed'
        BY <1>4, <2>5, <4>1
      <4> QED
        BY <2>4, <4>1, <4>3, <4>4 DEF Tells
    <3>2. CASE NoneOf(s, m) /\ e.k \notin Inp!Group[m]
      <4>1. Tells(m, m \in in_kb.status, m \in in_crossed)
        BY <2>1, <3>2
      <4>2. m \in in_kb'.status <=> m \in in_kb.status
        BY <2>4, <3>2
      <4>3. m \in in_crossed' <=> m \in in_crossed
        BY <1>4, <2>5, <3>2
      <4>4. (m \in in_kb'.status) = (m \in in_kb.status) /\ (m \in in_crossed') = (m \in in_crossed)
        BY <4>2, <4>3
      <4>5. Tells(m, m \in in_kb'.status, m \in in_crossed')
        BY <4>1, <4>4
      <4> QED
        BY <1>4, <1>5, <4>5 DEF Tells, Coming, LastByte
    <3> QED
      BY <2>2, <2>6, <3>1, <3>2
  <2> QED
    BY <1>5, <2>3, <2>6 DEF ModifierKnown
<1>10. ASSUME NEW m \in Modifiers PROVE ModifierKnown(m)'
  <2>1. CASE Inp!Group[m] \cap in_unknown = {}
    BY <1>9, <2>1
  <2>2. CASE Inp!Group[m] \cap in_unknown # {}
    BY <1>4, <2>2 DEF ModifierKnown
  <2> QED
    BY <2>1, <2>2
<1> QED
  BY <1>6, <1>7, <1>10 DEF KeyInv

LEMMA KeyboardIsExact ==
  ASSUME KeyInv
  PROVE  Inp!KeyboardExact
<1>0. KeyTypes /\ CharsKnown /\ \A m \in Modifiers : ModifierKnown(m)
  BY DEF KeyInv
<1>1. ASSUME in_wire = <<>>, in_pckbd.buf = <<>>, NEW m \in Modifiers,
             Inp!Group[m] \cap in_unknown = {}
      PROVE  IF m \in in_kb.status THEN Inp!Group[m] \cap in_down # {}
             ELSE Inp!Group[m] \cap in_down = {} \/ m \in in_crossed
  <2>1. ASSUME NEW k \in KbTyped, Coming(k) PROVE FALSE
    <3>1. \A x : <<224>> \o <<x>> # <<>> /\ <<>> \o <<x>> # <<>>
      BY Pairs
    <3> QED
      BY <1>1, <2>1, <3>1 DEF Coming, Inp!Bytes
  <2>2. NoneOf(in_pckbd.buf, m)
    BY <1>1 DEF NoneOf
  <2> QED
    BY <1>0, <1>1, <2>1, <2>2 DEF ModifierKnown, Tells
<1> QED
  BY <1>0, <1>1, GroupsAre DEF CharsKnown, Inp!KeyboardExact

-----------------------------------------------------------------------------
\* The mouse: the bytes that have interrupted and those that have not are one
\* packet, of the last movement that the program has not read.
HeadOf(b, x, y) ==
  [lbtn |-> b, xneg |-> x < 0, yneg |-> y < 0, over |-> Inp!Overflows(x) \/ Inp!Overflows(y)]
MouseEvents == [x : Int, y : Int, lbtn : BOOLEAN]

Movements == MouseMoves \X MouseMoves

MouseTypes ==
  /\ in_pcmouse.buf \in Seq(MouseEvents)
  /\ in_pcmouse = [byte |-> in_pcmouse.byte, buf |-> in_pcmouse.buf]
  /\ in_hand \in [lbtn : BOOLEAN, moved : Seq(Movements), known : BOOLEAN]

Sent(b, x, y) ==
  LET h == HeadOf(b, x, y)
      lx == Inp!Low(x)
      ly == Inp!Low(y)
  IN
  /\ \/ in_pcmouse.byte = <<>> /\ in_packet = <<h, lx, ly>>
     \/ in_pcmouse.byte = <<h>> /\ in_packet = <<lx, ly>>
     \/ in_pcmouse.byte = <<h, lx>> /\ in_packet = <<ly>>
  /\ Len(in_hand.moved) = Len(in_pcmouse.buf) + 1
  /\ in_hand.moved[Len(in_pcmouse.buf) + 1] = <<x, y>>
  /\ in_hand.lbtn = b
PacketIsMove ==
  \/ /\ in_packet = <<>> /\ in_pcmouse.byte = <<>>
     /\ Len(in_hand.moved) = Len(in_pcmouse.buf)
  \/ \E b \in BOOLEAN, x, y \in MouseMoves : Sent(b, x, y)

ReadAs(e, d) == (e.x = d[1] \/ Inp!Misread(d[1])) /\ (e.y = d[2] \/ Inp!Misread(d[2]))
EventsMatch == \A i \in 1 .. Len(in_pcmouse.buf) : ReadAs(in_pcmouse.buf[i], in_hand.moved[i])
ButtonKnown == in_packet = <<>> /\ ~in_dropped =>
  IF in_pcmouse.buf = <<>> THEN in_hand.known = in_hand.lbtn
  ELSE in_pcmouse.buf[Len(in_pcmouse.buf)].lbtn = in_hand.lbtn

MouseInv == MouseTypes /\ PacketIsMove /\ EventsMatch /\ ButtonKnown

\* A movement that does not overflow is read from its byte and its sign.
LEMMA LowIs ==
  ASSUME NEW r \in Nat \ {0}, NEW d \in Int, -r <= d, d < r
  PROVE  d % r = IF d < 0 THEN d + r ELSE d
<1>1. CASE d < 0
  BY <1>1, SMT
<1>2. CASE d >= 0
  BY <1>2, SMT
<1> QED
  BY <1>1, <1>2

LEMMA DeltaReads ==
  ASSUME Inp!InputAssumption, NEW d \in Int, ~Inp!Overflows(d)
  PROVE  /\ Inp!Delta(Inp!Low(d), d < 0) \in Int
         /\ Inp!Delta(Inp!Low(d), d < 0) = d \/ Inp!Misread(d)
<1>1. PICK r \in Nat \ {0} : r = Inp!Range
  BY DEF Inp!InputAssumption, Inp!Range
<1>2. -r <= d /\ d < r
  BY <1>1 DEF Inp!Overflows
<1>3. Inp!Low(d) = IF d < 0 THEN d + r ELSE d
  BY <1>1, <1>2, LowIs DEF Inp!Low
<1>4. PICK b \in Int : b = Inp!Low(d) /\ b = IF d < 0 THEN d + r ELSE d
  BY <1>1, <1>3
<1>5. PICK half \in Int : half = r \div 2 /\ 2 * half <= r /\ r <= 2 * half + 1
  BY <1>1
<1>6. PICK g \in Int : g = IF b >= half THEN b - r ELSE b
  <2>1. CASE b >= half
    BY <2>1
  <2>2. CASE ~(b >= half)
    BY <2>2
  <2> QED
    BY <2>1, <2>2
<1>7. Inp!Signed(b) = g
  BY <1>1, <1>5, <1>6 DEF Inp!Signed
<1>8. Inp!Delta(b, d < 0) = IF d < 0 /\ g >= 0 THEN g - r ELSE g
  BY <1>1, <1>7 DEF Inp!Delta
<1>9. Inp!Misread(d) <=> d >= half
  BY <1>1, <1>5 DEF Inp!Misread
<1> QED
  BY <1>1, <1>2, <1>4, <1>5, <1>6, <1>8, <1>9

LEMMA MouseBegins ==
  ASSUME Inp!Init
  PROVE  MouseInv
BY DEF Inp!Init, MouseInv, MouseTypes, PacketIsMove, EventsMatch, ButtonKnown

\* The mouse moves.
LEMMA MoveKeeps ==
  ASSUME Inp!InputAssumption, MouseInv, NEW b \in BOOLEAN, NEW x \in MouseMoves, NEW y \in MouseMoves,
         Inp!Move(b, x, y)
  PROVE  MouseInv'
<1>0. MouseTypes /\ PacketIsMove /\ EventsMatch
  BY DEF MouseInv
<1>1. /\ in_packet = <<>> /\ in_packet' = <<HeadOf(b, x, y), Inp!Low(x), Inp!Low(y)>>
      /\ in_hand' = [in_hand EXCEPT !.lbtn = b, !.moved = Append(in_hand.moved, <<x, y>>)]
      /\ in_pcmouse' = in_pcmouse
  BY <1>0 DEF Inp!Move, HeadOf, MouseTypes
<1>2. in_pcmouse.byte = <<>> /\ Len(in_hand.moved) = Len(in_pcmouse.buf)
  BY <1>0, <1>1 DEF PacketIsMove, Sent
<1>3. PICK s \in Seq(Movements) : s = in_hand.moved
  BY <1>0 DEF MouseTypes
<1>4. PICK n \in Nat : n = Len(s) /\ n = Len(in_pcmouse.buf)
  BY <1>2, <1>3
<1>5. PICK d \in Movements : d = <<x, y>>
  BY DEF Movements
<1>6. PICK t \in Seq(Movements) :
        t = Append(s, d) /\ Len(t) = n + 1 /\ (\A i \in 1 .. n : t[i] = s[i]) /\ t[n + 1] = d
  <2>1. PICK t \in Seq(Movements) : t = Append(s, d)
    BY AppendProperties
  <2>2. /\ Len(Append(s, d)) = Len(s) + 1 /\ Append(s, d)[Len(s) + 1] = d
        /\ \A i \in 1 .. Len(s) : Append(s, d)[i] = s[i]
    BY AppendProperties
  <2>3. n = Len(s)
    BY <1>4
  <2> QED
    BY <2>1, <2>2, <2>3
<1>7. /\ in_hand' \in [lbtn : BOOLEAN, moved : Seq(Movements), known : BOOLEAN]
      /\ in_hand'.moved = t /\ in_hand'.lbtn = b
  BY <1>0, <1>1, <1>3, <1>5, <1>6 DEF MouseTypes
<1>8. MouseTypes'
  BY <1>0, <1>1, <1>7 DEF MouseTypes
<1>9. PacketIsMove'
  <2>1. Sent(b, x, y)'
    BY <1>1, <1>2, <1>4, <1>5, <1>6, <1>7 DEF Sent, HeadOf, Inp!Low, Inp!Range, Inp!Overflows
  <2> QED
    BY <2>1 DEF PacketIsMove
<1>10. EventsMatch'
  BY <1>0, <1>1, <1>3, <1>4, <1>6, <1>7 DEF EventsMatch
<1>11. ButtonKnown'
  BY <1>1 DEF ButtonKnown
<1> QED
  BY <1>8, <1>9, <1>10, <1>11 DEF MouseInv

\* A byte has interrupted that is not the last one of its packet.
LEMMA MouseByteKeeps ==
  ASSUME Inp!InputAssumption, MouseInv, Inp!irq12_handler, NEW b \in BOOLEAN, NEW x \in MouseMoves,
         NEW y \in MouseMoves, Sent(b, x, y), in_packet # <<Inp!Low(y)>>
  PROVE  MouseInv'
<1>0. MouseTypes /\ PacketIsMove /\ EventsMatch
  BY DEF MouseInv
<1>1. PICK h, lx, ly : h = HeadOf(b, x, y) /\ lx = Inp!Low(x) /\ ly = Inp!Low(y)
  OBVIOUS
<1>2. \/ in_pcmouse.byte = <<>> /\ in_packet = <<h, lx, ly>>
      \/ in_pcmouse.byte = <<h>> /\ in_packet = <<lx, ly>>
  BY <1>1 DEF Sent
<1>3. PICK bytes : bytes = Append(in_pcmouse.byte, Head(in_packet))
  OBVIOUS
<1>4. /\ Len(bytes) < 3
      /\ \/ bytes = <<h>> /\ Tail(in_packet) = <<lx, ly>>
         \/ bytes = <<h, lx>> /\ Tail(in_packet) = <<ly>>
  <2>1. CASE in_pcmouse.byte = <<>> /\ in_packet = <<h, lx, ly>>
    <3>1. Head(<<h, lx, ly>>) = h /\ Tail(<<h, lx, ly>>) = <<lx, ly>> /\ Len(<<h>>) = 1
      OBVIOUS
    <3>2. Append(<<>>, h) = <<h>>
      BY Triples
    <3> QED
      BY <1>3, <2>1, <3>1, <3>2
  <2>2. CASE in_pcmouse.byte = <<h>> /\ in_packet = <<lx, ly>>
    <3>1. Head(<<lx, ly>>) = lx /\ Tail(<<lx, ly>>) = <<ly>> /\ Len(<<h, lx>>) = 2
      OBVIOUS
    <3>2. Append(<<h>>, lx) = <<h, lx>>
      BY Triples
    <3> QED
      BY <1>3, <2>2, <3>1, <3>2
  <2> QED
    BY <1>2, <2>1, <2>2
<1>5. /\ in_packet' = Tail(in_packet) /\ in_pcmouse' = [in_pcmouse EXCEPT !.byte = bytes]
      /\ UNCHANGED <<in_hand, in_dropped>>
  BY <1>3, <1>4 DEF Inp!irq12_handler
<1>6. in_pcmouse'.byte = bytes /\ in_pcmouse'.buf = in_pcmouse.buf
      /\ in_pcmouse' = [byte |-> bytes, buf |-> in_pcmouse.buf]
  BY <1>0, <1>5 DEF MouseTypes
<1>7. MouseTypes'
  BY <1>0, <1>5, <1>6 DEF MouseTypes
<1>8. PacketIsMove'
  <2>1. /\ Len(in_hand.moved) = Len(in_pcmouse.buf) + 1
        /\ in_hand.moved[Len(in_pcmouse.buf) + 1] = <<x, y>>
        /\ in_hand.lbtn = b
    BY DEF Sent
  <2>2. Sent(b, x, y)'
    BY <1>1, <1>3, <1>4, <1>5, <1>6, <2>1 DEF Sent, HeadOf, Inp!Low, Inp!Range, Inp!Overflows
  <2> QED
    BY <2>2 DEF PacketIsMove
<1>9. EventsMatch'
  BY <1>0, <1>5, <1>6 DEF EventsMatch
<1>10. ButtonKnown'
  <2>1. in_packet' # <<>>
    BY <1>3, <1>4, <1>5
  <2> QED
    BY <2>1 DEF ButtonKnown
<1> QED
  BY <1>7, <1>8, <1>9, <1>10 DEF MouseInv

\* The last byte has interrupted: the movement is in the buffer, or dropped.
LEMMA MouseEventKeeps ==
  ASSUME Inp!InputAssumption, MouseInv, Inp!irq12_handler, NEW b \in BOOLEAN, NEW x \in MouseMoves,
         NEW y \in MouseMoves, Sent(b, x, y), in_packet = <<Inp!Low(y)>>
  PROVE  MouseInv'
<1>0. MouseTypes /\ EventsMatch /\ x \in Int /\ y \in Int
  BY DEF MouseInv, Inp!InputAssumption
<1>1. PICK h, lx, ly : h = HeadOf(b, x, y) /\ lx = Inp!Low(x) /\ ly = Inp!Low(y)
  OBVIOUS
<1>2. in_pcmouse.byte = <<h, lx>> /\ in_packet = <<ly>>
  BY <1>1 DEF Sent
<1>3. PICK bytes : bytes = Append(in_pcmouse.byte, Head(in_packet)) /\ bytes = <<h, lx, ly>>
  <2>1. Head(<<ly>>) = ly
    OBVIOUS
  <2>2. Append(<<h, lx>>, ly) = <<h, lx, ly>>
    BY Triples
  <2> QED
    BY <1>2, <2>1, <2>2
<1>4. Tail(in_packet) = <<>>
  BY <1>2
<1>5. PICK s \in Seq(MouseEvents) : s = in_pcmouse.buf
  BY <1>0 DEF MouseTypes
<1>6. PICK mv \in Seq(Movements) : mv = in_hand.moved
  BY <1>0 DEF MouseTypes
<1>7. PICK n \in Nat : n = Len(s) /\ Len(mv) = n + 1 /\ mv[n + 1] = <<x, y>> /\ in_hand.lbtn = b
  <2>1. Len(s) \in Nat
    OBVIOUS
  <2> QED
    BY <1>5, <1>6, <2>1 DEF Sent
<1>8. PICK ev : ev = [x |-> Inp!Delta(lx, x < 0), y |-> Inp!Delta(ly, y < 0), lbtn |-> b]
  OBVIOUS
<1>9. PICK over, fails : /\ over = (Inp!Overflows(x) \/ Inp!Overflows(y))
                         /\ fails = (over \/ n >= MouseBufLen)
  OBVIOUS
<1>10. bytes[1] = h /\ bytes[2] = lx /\ bytes[3] = ly /\ Len(bytes) = 3
  <2>1. <<h, lx, ly>>[1] = h /\ <<h, lx, ly>>[2] = lx /\ <<h, lx, ly>>[3] = ly /\ Len(<<h, lx, ly>>) = 3
    OBVIOUS
  <2> QED
    BY <1>3, <2>1
<1>11. h.over = over /\ h.xneg = (x < 0) /\ h.yneg = (y < 0) /\ h.lbtn = b
  BY <1>1, <1>9 DEF HeadOf
<1>12. /\ in_packet' = <<>>
       /\ in_pcmouse' = [byte |-> <<>>, buf |-> IF fails THEN s ELSE Append(s, ev)]
       /\ in_hand' = [in_hand EXCEPT !.moved = IF fails THEN SubSeq(mv, 1, Len(mv) - 1) ELSE mv]
       /\ in_dropped' = fails
  <2>1. /\ fails = (h.over \/ Len(in_pcmouse.buf) >= MouseBufLen)
        /\ ev = [x |-> Inp!Delta(bytes[2], h.xneg), y |-> Inp!Delta(bytes[3], h.yneg), lbtn |-> h.lbtn]
    BY <1>5, <1>7, <1>8, <1>9, <1>10, <1>11
  <2>2. ~(Len(bytes) < 3)
    BY <1>10
  <2>3. /\ in_packet' = Tail(in_packet)
        /\ in_pcmouse' = [byte |-> <<>>, buf |-> IF fails THEN in_pcmouse.buf
                                                ELSE Append(in_pcmouse.buf, ev)]
        /\ in_hand' = [in_hand EXCEPT !.moved = IF fails THEN SubSeq(in_hand.moved, 1, Len(in_hand.moved) - 1)
                                                ELSE in_hand.moved]
        /\ in_dropped' = fails
    BY <1>0, <1>3, <1>10, <2>1, <2>2 DEF Inp!irq12_handler, MouseTypes
  <2> QED
    BY <1>4, <1>5, <1>6, <2>3
<1>13. CASE fails
  <2>1. PICK ne \in Seq(Movements) :
          ne = SubSeq(mv, 1, n) /\ Len(ne) = n /\ \A i \in 1 .. n : ne[i] = mv[i]
    <3>1. \A i \in 1 .. n : mv[i] \in Movements
      BY <1>7, ElementOfSeq
    <3>2. 1 \in Int /\ n \in Int
      OBVIOUS
    <3>3. /\ SubSeq(mv, 1, n) \in Seq(Movements)
          /\ Len(SubSeq(mv, 1, n)) = IF 1 <= n THEN n - 1 + 1 ELSE 0
          /\ \A i \in 1 .. n - 1 + 1 : SubSeq(mv, 1, n)[i] = mv[1 + i - 1]
      BY ONLY <3>1, <3>2, SubSeqProperties
    <3>4. n - 1 + 1 = n /\ (IF 1 <= n THEN n - 1 + 1 ELSE 0) = n /\ \A i \in 1 .. n : 1 + i - 1 = i
      OBVIOUS
    <3> QED
      BY <3>3, <3>4
  <2>2. in_pcmouse' = [byte |-> <<>>, buf |-> s] /\ in_hand' = [in_hand EXCEPT !.moved = ne]
    BY <1>7, <1>12, <1>13, <2>1
  <2>3. /\ in_hand' \in [lbtn : BOOLEAN, moved : Seq(Movements), known : BOOLEAN]
        /\ in_hand'.moved = ne
    BY <1>0, <2>1, <2>2 DEF MouseTypes
  <2>4. MouseTypes' /\ PacketIsMove' /\ ButtonKnown'
    <3>1. in_pcmouse'.byte = <<>> /\ in_pcmouse'.buf = s
      BY <2>2
    <3>2. MouseTypes'
      BY <2>2, <2>3, <3>1 DEF MouseTypes
    <3>3. Len(in_hand'.moved) = Len(in_pcmouse'.buf)
      BY <1>7, <2>1, <2>3, <3>1
    <3>4. in_dropped'
      BY <1>12, <1>13
    <3> QED
      BY <1>12, <3>1, <3>2, <3>3, <3>4 DEF PacketIsMove, ButtonKnown
  <2>5. EventsMatch'
    BY <1>0, <1>5, <1>6, <1>7, <2>1, <2>2, <2>3 DEF EventsMatch
  <2> QED
    BY <2>4, <2>5 DEF MouseInv
<1>14. CASE ~fails
  <2>1. ev \in MouseEvents /\ ReadAs(ev, <<x, y>>)
    <3>1. ~Inp!Overflows(x) /\ ~Inp!Overflows(y)
      BY <1>9, <1>14
    <3>2. PICK dx \in Int : dx = Inp!Delta(lx, x < 0) /\ (dx = x \/ Inp!Misread(x))
      BY <1>0, <1>1, <3>1, DeltaReads
    <3>3. PICK dy \in Int : dy = Inp!Delta(ly, y < 0) /\ (dy = y \/ Inp!Misread(y))
      BY <1>0, <1>1, <3>1, DeltaReads
    <3>4. ev = [x |-> dx, y |-> dy, lbtn |-> b]
      BY <1>8, <3>2, <3>3
    <3> QED
      BY <3>2, <3>3, <3>4 DEF MouseEvents, ReadAs
  <2>2. PICK t \in Seq(MouseEvents) :
          t = Append(s, ev) /\ Len(t) = n + 1 /\ (\A i \in 1 .. n : t[i] = s[i]) /\ t[n + 1] = ev
    <3>1. PICK t \in Seq(MouseEvents) : t = Append(s, ev)
      BY <2>1, AppendProperties
    <3>2. Len(t) = n + 1 /\ (\A i \in 1 .. n : t[i] = s[i]) /\ t[n + 1] = ev
      BY <1>7, <2>1, <3>1, AppendProperties
    <3> QED
      BY <3>1, <3>2
  <2>3. in_pcmouse' = [byte |-> <<>>, buf |-> t] /\ in_hand' = in_hand
    BY <1>0, <1>6, <1>12, <1>14, <2>2 DEF MouseTypes
  <2>4. MouseTypes' /\ PacketIsMove'
    <3>1. in_pcmouse'.byte = <<>> /\ in_pcmouse'.buf = t
      BY <2>3
    <3>2. MouseTypes'
      BY <1>0, <2>2, <2>3, <3>1 DEF MouseTypes
    <3>3. Len(in_hand'.moved) = Len(in_pcmouse'.buf)
      BY <1>6, <1>7, <2>2, <2>3, <3>1
    <3> QED
      BY <1>12, <3>1, <3>2, <3>3 DEF PacketIsMove
  <2>5. EventsMatch'
    <3>1. ASSUME NEW i \in 1 .. n + 1 PROVE ReadAs(t[i], mv[i])
      <4>1. CASE i = n + 1
        BY <1>7, <2>1, <2>2, <4>1
      <4>2. CASE i \in 1 .. n
        BY <1>0, <1>5, <1>6, <1>7, <2>2, <4>2 DEF EventsMatch
      <4> QED
        BY <3>1, <4>1, <4>2
    <3> QED
      BY <1>6, <2>2, <2>3, <3>1 DEF EventsMatch
  <2>6. ButtonKnown'
    <3>1. t # <<>> /\ ev.lbtn = in_hand.lbtn
      BY <1>7, <1>8, <2>2, AppendProperties
    <3> QED
      BY <2>2, <2>3, <3>1 DEF ButtonKnown
  <2> QED
    BY <2>4, <2>5, <2>6 DEF MouseInv
<1> QED
  BY <1>13, <1>14

\* The program reads an event of the mouse.
LEMMA MouseReadKeeps ==
  ASSUME Inp!InputAssumption, MouseInv, Inp!pcmouse_read
  PROVE  MouseInv'
<1>0. MouseTypes /\ PacketIsMove /\ EventsMatch /\ ButtonKnown
  BY DEF MouseInv
<1>1. PICK s \in Seq(MouseEvents) : s = in_pcmouse.buf /\ s # <<>>
  BY <1>0 DEF MouseTypes, Inp!pcmouse_read
<1>2. PICK n \in Nat : Len(s) = n + 1
  <2>1. Len(s) \in Nat \ {0}
    BY <1>1, EmptySeq
  <2>2. Len(s) - 1 \in Nat /\ Len(s) = (Len(s) - 1) + 1
    BY <2>1
  <2> QED
    BY <2>2
<1>3. PICK mv \in Seq(Movements) : mv = in_hand.moved
  BY <1>0 DEF MouseTypes
<1>4. Len(mv) = Len(s) \/ Len(mv) = Len(s) + 1
  BY <1>0, <1>1, <1>3 DEF PacketIsMove, Sent
<1>5. mv # <<>>
  BY <1>2, <1>4, EmptySeq
<1>6. PICK t \in Seq(MouseEvents) : t = Tail(s)
  BY <1>1, HeadTailProperties
<1>7. Len(t) = n /\ \A i \in 1 .. n : t[i] = s[i + 1]
  BY <1>1, <1>2, <1>6, HeadTailProperties
<1>8. PICK mt \in Seq(Movements) : mt = Tail(mv)
  BY <1>5, HeadTailProperties
<1>9. PICK l \in Nat : Len(mv) = l + 1
  <2>1. Len(mv) \in Nat \ {0}
    BY <1>5, EmptySeq
  <2>2. Len(mv) - 1 \in Nat /\ Len(mv) = (Len(mv) - 1) + 1
    BY <2>1
  <2> QED
    BY <2>2
<1>10. Len(mt) = l /\ \A i \in 1 .. l : mt[i] = mv[i + 1]
  BY <1>5, <1>8, <1>9, HeadTailProperties
<1>11. l = n \/ l = n + 1
  BY <1>2, <1>4, <1>9
<1>12. Head(s) = s[1] /\ Head(s) \in MouseEvents
  BY <1>1, HeadTailProperties
<1>13. /\ in_pcmouse' = [in_pcmouse EXCEPT !.buf = t]
       /\ in_hand' = [in_hand EXCEPT !.moved = mt, !.known = Head(s).lbtn]
       /\ UNCHANGED <<in_packet, in_dropped>>
  BY <1>1, <1>3, <1>6, <1>8 DEF Inp!pcmouse_read
<1>14. /\ in_pcmouse' = [byte |-> in_pcmouse.byte, buf |-> t]
       /\ in_hand' \in [lbtn : BOOLEAN, moved : Seq(Movements), known : BOOLEAN]
       /\ in_hand'.moved = mt /\ in_hand'.lbtn = in_hand.lbtn /\ in_hand'.known = Head(s).lbtn
  <2>1. Head(s).lbtn \in BOOLEAN
    BY <1>12 DEF MouseEvents
  <2> QED
    BY <1>0, <1>13, <2>1 DEF MouseTypes
<1>15. MouseTypes'
  BY <1>14 DEF MouseTypes
<1>16. PacketIsMove'
  <2>1. CASE in_packet = <<>> /\ in_pcmouse.byte = <<>> /\ Len(in_hand.moved) = Len(in_pcmouse.buf)
    BY <1>1, <1>2, <1>3, <1>7, <1>9, <1>10, <1>13, <1>14, <2>1 DEF PacketIsMove
  <2>2. CASE \E b \in BOOLEAN, x, y \in MouseMoves : Sent(b, x, y)
    <3>1. PICK b \in BOOLEAN, x \in MouseMoves, y \in MouseMoves : Sent(b, x, y)
      BY <2>2
    <3>2. Len(mv) = n + 2 /\ mv[n + 2] = <<x, y>> /\ in_hand.lbtn = b
      BY <1>1, <1>2, <1>3, <3>1 DEF Sent
    <3>3. Len(mt) = n + 1 /\ mt[n + 1] = <<x, y>>
      <4>1. l = n + 1
        BY <1>9, <3>2
      <4>2. mt[n + 1] = mv[(n + 1) + 1] /\ (n + 1) + 1 = n + 2
        BY <1>10, <4>1
      <4> QED
        BY <1>10, <3>2, <4>1, <4>2
    <3>4. Sent(b, x, y)'
      BY <1>7, <1>13, <1>14, <3>1, <3>2, <3>3
         DEF Sent, HeadOf, Inp!Low, Inp!Range, Inp!Overflows
    <3> QED
      BY <3>4 DEF PacketIsMove
  <2> QED
    BY <1>0, <2>1, <2>2 DEF PacketIsMove
<1>17. EventsMatch'
  <2>1. ASSUME NEW i \in 1 .. n PROVE ReadAs(t[i], mt[i])
    <3>1. i + 1 \in 1 .. n + 1 /\ i \in 1 .. l
      BY <1>11
    <3>2. ReadAs(s[i + 1], mv[i + 1])
      BY <1>0, <1>1, <1>2, <1>3, <3>1 DEF EventsMatch
    <3> QED
      BY <1>7, <1>10, <3>1, <3>2
  <2> QED
    BY <1>7, <1>14, <2>1 DEF EventsMatch
<1>18. ButtonKnown'
  <2>1. CASE in_packet = <<>> /\ ~in_dropped
    <3>1. s[n + 1].lbtn = in_hand.lbtn
      BY <1>0, <1>1, <1>2, <2>1 DEF ButtonKnown
    <3>2. CASE n = 0
      <4>1. t = <<>>
        BY <1>7, <3>2, EmptySeq
      <4> QED
        BY <1>12, <1>14, <3>1, <3>2, <4>1 DEF ButtonKnown
    <3>3. CASE n # 0
      <4>1. t # <<>> /\ t[n] = s[n + 1]
        BY <1>7, <3>3, EmptySeq
      <4> QED
        BY <1>7, <1>14, <3>1, <4>1 DEF ButtonKnown
    <3> QED
      BY <3>2, <3>3
  <2> QED
    BY <1>13, <2>1 DEF ButtonKnown
<1> QED
  BY <1>15, <1>16, <1>17, <1>18 DEF MouseInv

LEMMA MouseStep ==
  ASSUME Inp!InputAssumption, MouseInv, Inp!MouseNext
  PROVE  MouseInv'
<1>1. CASE \E b \in BOOLEAN, x, y \in MouseMoves : Inp!Move(b, x, y)
  BY <1>1, MoveKeeps
<1>2. CASE Inp!irq12_handler
  <2>1. in_packet # <<>>
    BY <1>2 DEF Inp!irq12_handler
  <2>2. PICK b \in BOOLEAN, x \in MouseMoves, y \in MouseMoves : Sent(b, x, y)
    BY <2>1 DEF MouseInv, PacketIsMove
  <2> QED
    BY <1>2, <2>2, MouseByteKeeps, MouseEventKeeps
<1>3. CASE Inp!pcmouse_read
  BY <1>3, MouseReadKeeps
<1> QED
  BY <1>1, <1>2, <1>3 DEF Inp!MouseNext

LEMMA KeyStep ==
  ASSUME Inp!InputAssumption, KeyInv, Inp!KbdNext
  PROVE  KeyInv'
<1>1. CASE \E k \in KbTyped, press \in BOOLEAN : Inp!Type(k, press)
  BY <1>1, TypeKeeps
<1>2. CASE Inp!irq1_handler
  BY <1>2, EscapeKeeps, KeyArrives
<1>3. CASE Inp!pckbd_read
  BY <1>3, KeyReadKeeps
<1> QED
  BY <1>1, <1>2, <1>3 DEF Inp!KbdNext

\* What one device does leaves the other one's state alone.
LEMMA KeysAlone ==
  ASSUME KeyInv, UNCHANGED Inp!kbd_vars
  PROVE  KeyInv'
BY DEF Inp!kbd_vars, KeyInv, KeyTypes, WireIsKey, CharsKnown, ModifierKnown, Tells, Coming, LastByte

LEMMA MouseAlone ==
  ASSUME MouseInv, UNCHANGED Inp!mouse_vars
  PROVE  MouseInv'
BY DEF Inp!mouse_vars, MouseInv, MouseTypes, PacketIsMove, Sent, EventsMatch, ButtonKnown

(***************************************************************************)
(* Whatever is typed and however slowly it is read: a program that has     *)
(* read everything knows which modifiers are on, up to keys whose last     *)
(* event was lost, and a key goes up as the character it went down as      *)
(* (irq1_handler() and pckbd_read() of pckbdmouse.c, keyboard.c).          *)
(***************************************************************************)
THEOREM KeysAreKnown ==
  ASSUME Inp!InputAssumption
  PROVE  Inp!Init /\ [][Inp!Next]_(Inp!vars) => []Inp!KeyboardExact
<1>1. Inp!Init => KeyInv
  BY KeyBegins
<1>2. KeyInv /\ [Inp!Next]_(Inp!vars) => KeyInv'
  <2>1. CASE Inp!KbdNext /\ KeyInv
    BY <2>1, KeyStep
  <2>2. CASE (Inp!MouseNext \/ UNCHANGED Inp!vars) /\ KeyInv
    <3>1. UNCHANGED Inp!kbd_vars
      BY <2>2 DEF Inp!vars, Inp!MouseNext, Inp!Move, Inp!irq12_handler, Inp!pcmouse_read
    <3> QED
      BY <2>2, <3>1, KeysAlone
  <2> QED
    BY <2>1, <2>2 DEF Inp!Next
<1>3. KeyInv => Inp!KeyboardExact
  BY KeyboardIsExact
<1> QED
  BY <1>1, <1>2, <1>3, PTL

(***************************************************************************)
(* And whatever the mouse does: its movements are read in their order and  *)
(* as they were made, up to those that the driver misreads, and a program  *)
(* that has read everything knows the button unless the last packet was    *)
(* dropped (irq12_handler() and pcmouse_read() of pckbdmouse.c).           *)
(***************************************************************************)
THEOREM MovesAreRead ==
  ASSUME Inp!InputAssumption
  PROVE  Inp!Init /\ [][Inp!Next]_(Inp!vars) => []Inp!MouseExact
<1>1. Inp!Init => MouseInv
  BY MouseBegins
<1>2. MouseInv /\ [Inp!Next]_(Inp!vars) => MouseInv'
  <2>1. CASE Inp!MouseNext /\ MouseInv
    BY <2>1, MouseStep
  <2>2. CASE (Inp!KbdNext \/ UNCHANGED Inp!vars) /\ MouseInv
    <3>1. UNCHANGED Inp!mouse_vars
      BY <2>2 DEF Inp!vars, Inp!KbdNext, Inp!Type, Inp!irq1_handler, Inp!pckbd_read
    <3> QED
      BY <2>2, <3>1, MouseAlone
  <2> QED
    BY <2>1, <2>2 DEF Inp!Next
<1>3. MouseInv => Inp!MouseExact
  <2>1. ASSUME MouseInv, in_packet = <<>>, in_pcmouse.buf = <<>>, ~in_dropped
        PROVE  in_hand.known = in_hand.lbtn
    BY <2>1 DEF MouseInv, ButtonKnown
  <2> QED
    BY <2>1 DEF MouseInv, EventsMatch, ReadAs, Inp!MouseExact
<1> QED
  BY <1>1, <1>2, <1>3, PTL

-----------------------------------------------------------------------------
\* The parts of module Devices stay apart.
LEMMA DevicesApart ==
  ASSUME NEW d, [DevicesNext]_<<which, device_vars>>
  PROVE  (which = d => which' = d) /\ (which # d => which' # d)
BY DEF DevicesNext

(***************************************************************************)
(* All of the devices (module Devices), whichever of them a behaviour      *)
(* exercises: drives, the BIOS, the screen, keyboard and mouse keep all    *)
(* that DevicesExact asks of pciide.c, v86.c, vesa.c and pckbdmouse.c, for *)
(* any number of readers, callers, processes and keys, and any modes,      *)
(* lines, movements and sizes of reads and buffers.                        *)
(***************************************************************************)
THEOREM DevicesAreExact == DevicesSpec => []DevicesExact
<1>1. DevicesSpec => [](which = "drive" => Disk!DriverExact)
  <2>1. DevicesInit /\ which = "drive" => Disk!Init
    BY DEF DevicesInit
  <2>2. which = "drive" /\ [DevicesNext]_<<which, device_vars>> => [Disk!Next]_(Disk!vars)
    BY DEF DevicesNext, device_vars, disk_vars, Disk!vars
  <2>3. which = "drive" /\ [DevicesNext]_<<which, device_vars>> => (which = "drive")'
    BY DevicesApart
  <2>4. ~ (which = "drive") /\ [DevicesNext]_<<which, device_vars>> => ~ (which = "drive")'
    BY DevicesApart
  <2>5. Disk!Init /\ [][Disk!Next]_(Disk!vars) => []Disk!DriverExact
    BY DrivesAnswer, DevicesAssumption
  <2> QED
    BY <2>1, <2>2, <2>3, <2>4, <2>5, PTL DEF DevicesSpec
<1>2. DevicesSpec => [](which = "bios" => Bios!V86Exact)
  <2>1. DevicesInit /\ which = "bios" => Bios!Init
    BY DEF DevicesInit
  <2>2. which = "bios" /\ [DevicesNext]_<<which, device_vars>> => [Bios!Next]_(Bios!vars)
    BY DEF DevicesNext, device_vars, bios_vars, Bios!vars
  <2>3. which = "bios" /\ [DevicesNext]_<<which, device_vars>> => (which = "bios")'
    BY DevicesApart
  <2>4. ~ (which = "bios") /\ [DevicesNext]_<<which, device_vars>> => ~ (which = "bios")'
    BY DevicesApart
  <2>5. Bios!Init /\ [][Bios!Next]_(Bios!vars) => []Bios!V86Exact
    BY BiosAnswers, DevicesAssumption
  <2> QED
    BY <2>1, <2>2, <2>3, <2>4, <2>5, PTL DEF DevicesSpec
<1>3. DevicesSpec => [](which = "screen" => Fb!FramebufferExact)
  <2>1. DevicesInit /\ which = "screen" => Fb!Init
    BY DEF DevicesInit
  <2>2. which = "screen" /\ [DevicesNext]_<<which, device_vars>> => [Fb!Next]_(Fb!vars)
    BY DEF DevicesNext, device_vars, screen_vars, Fb!vars
  <2>3. which = "screen" /\ [DevicesNext]_<<which, device_vars>> => (which = "screen")'
    BY DevicesApart
  <2>4. ~ (which = "screen") /\ [DevicesNext]_<<which, device_vars>> => ~ (which = "screen")'
    BY DevicesApart
  <2>5. Fb!Init /\ [][Fb!Next]_(Fb!vars) => []Fb!FramebufferExact
    BY FramebufferIsExact, DevicesAssumption
  <2> QED
    BY <2>1, <2>2, <2>3, <2>4, <2>5, PTL DEF DevicesSpec
<1>4. DevicesSpec => [](which = "keyboard" => Inp!KeyboardExact)
  <2>1. DevicesInit /\ which = "keyboard" => Inp!Init
    BY DEF DevicesInit
  <2>2. which = "keyboard" /\ [DevicesNext]_<<which, device_vars>> => [Inp!Next]_(Inp!vars)
    BY DEF DevicesNext, device_vars, input_vars, Inp!vars, Inp!kbd_vars, Inp!mouse_vars, Inp!Next
  <2>3. which = "keyboard" /\ [DevicesNext]_<<which, device_vars>> => (which = "keyboard")'
    BY DevicesApart
  <2>4. ~ (which = "keyboard") /\ [DevicesNext]_<<which, device_vars>> => ~ (which = "keyboard")'
    BY DevicesApart
  <2>5. Inp!Init /\ [][Inp!Next]_(Inp!vars) => []Inp!KeyboardExact
    BY KeysAreKnown, DevicesAssumption
  <2> QED
    BY <2>1, <2>2, <2>3, <2>4, <2>5, PTL DEF DevicesSpec
<1>5. DevicesSpec => [](which = "mouse" => Inp!MouseExact)
  <2>1. DevicesInit /\ which = "mouse" => Inp!Init
    BY DEF DevicesInit
  <2>2. which = "mouse" /\ [DevicesNext]_<<which, device_vars>> => [Inp!Next]_(Inp!vars)
    BY DEF DevicesNext, device_vars, input_vars, Inp!vars, Inp!kbd_vars, Inp!mouse_vars, Inp!Next
  <2>3. which = "mouse" /\ [DevicesNext]_<<which, device_vars>> => (which = "mouse")'
    BY DevicesApart
  <2>4. ~ (which = "mouse") /\ [DevicesNext]_<<which, device_vars>> => ~ (which = "mouse")'
    BY DevicesApart
  <2>5. Inp!Init /\ [][Inp!Next]_(Inp!vars) => []Inp!MouseExact
    BY MovesAreRead, DevicesAssumption
  <2> QED
    BY <2>1, <2>2, <2>3, <2>4, <2>5, PTL DEF DevicesSpec
<1> QED
  BY <1>1, <1>2, <1>3, <1>4, <1>5, PTL DEF DevicesExact
=============================================================================
