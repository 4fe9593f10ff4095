--------------------------------- MODULE Ide ---------------------------------
(***************************************************************************)
(* Reading from ATAPI drives, of src/src/kernel/dev/pciide.c: a thread     *)
(* sends a command packet and sleeps until the drive interrupts, once for  *)
(* each block and once at the end, by ide_prewait_irq() and                *)
(* ide_wait_irq(); drives may share the line of the PCI controller.        *)
(*                                                                         *)
(* Handlers run as soon as a drive raises its line, unless interrupts are  *)
(* off, which here is only so inside of ide_wait_irq(), one step.  There   *)
(* is one drive per channel: two would also share the channel's registers, *)
(* which no lock protects.  ATA drives are read and written by polling;    *)
(* what a reader of another drive sees of them is their interrupts.        *)
(***************************************************************************)
EXTENDS Integers, FiniteSets

CONSTANTS
  Readers, Drives,
  LineOf,        \* the interrupt of a drive's channel
  MaxBlocks,     \* bound: blocks of one read
  CountValues,   \* numsects is a uint8_t: 256
  None

\* None is no reader; the bounds are numbers.
IdeAssumption == None \notin Readers /\ MaxBlocks \in Nat /\ CountValues \in Nat \ {0}

Lines == {LineOf[d] : d \in Drives}

VARIABLES
  drive,      \* per drive, [st, left]: its status and the blocks still to send
  dev_lock,   \* d->lock
  on_irq,     \* on_irq14, on_irq15, on_pciirq
  wait_irq,   \* wait_irq14, wait_irq15, wait_pciirq
  rd,         \* per reader, [pc, d, len, sent, got]: blocks to read, whether the
              \* packet is sent, blocks read
  asleep,     \* readers in wait_on()
  must_exit,
  abandoned   \* history: lines whose mutex a read that failed has kept

vars == <<drive, dev_lock, on_irq, wait_irq, rd, asleep, must_exit, abandoned>>

\* numsects: len / d->block_size as a uint8_t.
numsects(r) == rd[r].len % CountValues
Line(r) == LineOf[rd[r].d]
At(r, pc) == rd[r].pc = pc /\ r \notin asleep
Goto(r, pc) == rd' = [rd EXCEPT ![r].pc = pc]

Idle == [pc |-> "idle", d |-> None, len |-> 0, sent |-> FALSE, got |-> 0]

Init ==
  /\ drive = [d \in Drives |-> [st |-> "idle", left |-> 0]]
  /\ dev_lock = [d \in Drives |-> None]
  /\ on_irq = [l \in Lines |-> None] /\ wait_irq = [l \in Lines |-> None]
  /\ rd = [r \in Readers |-> Idle]
  /\ asleep = {} /\ must_exit = {} /\ abandoned = {}

-----------------------------------------------------------------------------
(* The drives, and the handlers; the mutation leaves wait_irq as it is. *)

Forgotten_Not(l) == wait_irq
Forgotten(l) == [wait_irq EXCEPT ![l] = None]

\* irq14_handler(), irq15_handler(), pciirq_handler()
Interrupt(l) ==
  /\ wait_irq' = Forgotten(l)
  /\ asleep' = asleep \ {wait_irq[l]}

Turns(d, st) == drive' = [drive EXCEPT ![d].st = st]
OthersSame == UNCHANGED <<dev_lock, on_irq, rd, must_exit, abandoned>>

\* The drive is ready for the packet; some interrupt for this, too.
WantsPacket(d) ==
  /\ drive[d].st = "command"
  /\ \E st \in {"packet", "error"} : Turns(d, st)
  /\ Interrupt(LineOf[d]) \/ UNCHANGED <<wait_irq, asleep>>
  /\ OthersSame

\* A block is ready, or the transfer is over, or it fails.
Interrupts(d) ==
  /\ drive[d].st = "busy"
  /\ \E st \in {"error", IF drive[d].left > 0 THEN "data" ELSE "idle"} : Turns(d, st)
  /\ Interrupt(LineOf[d])
  /\ OthersSame

\* An ATA drive on the same line interrupts at the end of its own command.
OtherInterrupt(l) == Interrupt(l) /\ UNCHANGED drive /\ OthersSame

-----------------------------------------------------------------------------
(* A reader. *)

\* ide_vfs_read(), in a system call; the lock is taken when it is free.
ide_vfs_read(r) ==
  /\ At(r, "idle") /\ r \notin must_exit
  /\ \E d \in Drives, n \in 1 .. MaxBlocks :
       /\ dev_lock[d] = None
       /\ dev_lock' = [dev_lock EXCEPT ![d] = r]
       /\ rd' = [rd EXCEPT ![r] = [Idle EXCEPT !.pc = "command", !.d = d, !.len = n]]
  /\ UNCHANGED <<drive, on_irq, wait_irq, asleep, must_exit, abandoned>>

\* ide_atapi_read() up to ATA_CMD_PACKET.
Command(r) ==
  /\ At(r, "command")
  /\ Turns(rd[r].d, "command")
  /\ Goto(r, "poll_packet")
  /\ UNCHANGED <<dev_lock, on_irq, wait_irq, asleep, must_exit, abandoned>>

\* ide_polling(c, channel, true) waits, and then checks the status.
Ready(d) == drive[d].st \notin {"command", "busy"}
Asks(d) == drive[d].st \in {"packet", "data"}

\* return err, to ide_vfs_read(): its lock is given back, that of the line is
\* not if the read holds it.
Fails(r) ==
  /\ dev_lock' = [dev_lock EXCEPT ![rd[r].d] = None]
  /\ rd' = [rd EXCEPT ![r] = Idle]
  /\ abandoned' = IF on_irq[Line(r)] = r THEN abandoned \cup {Line(r)} ELSE abandoned

PollPacket(r) ==
  /\ At(r, "poll_packet") /\ Ready(rd[r].d)
  /\ IF Asks(rd[r].d) THEN Goto(r, "prewait") /\ UNCHANGED <<dev_lock, abandoned>>
     ELSE Fails(r)
  /\ UNCHANGED <<drive, on_irq, wait_irq, asleep, must_exit>>

\* ide_prewait_irq(): the mutex, and then who waits.
PrewaitLock(r) ==
  /\ At(r, "prewait") /\ on_irq[Line(r)] = None
  /\ on_irq' = [on_irq EXCEPT ![Line(r)] = r]
  /\ Goto(r, "set_wait")
  /\ UNCHANGED <<drive, dev_lock, wait_irq, asleep, must_exit, abandoned>>

PrewaitSet(r) ==
  /\ At(r, "set_wait")
  /\ wait_irq' = [wait_irq EXCEPT ![Line(r)] = r]
  /\ Goto(r, IF rd[r].sent THEN "poll_data" ELSE "send")
  /\ UNCHANGED <<drive, dev_lock, on_irq, asleep, must_exit, abandoned>>

\* outsw(bus, atapi_packet, 6)
SendPacket(r) ==
  /\ At(r, "send")
  /\ drive' = [drive EXCEPT ![rd[r].d] = [st |-> "busy", left |-> numsects(r)]]
  /\ rd' = [rd EXCEPT ![r].pc = "wait", ![r].sent = TRUE]
  /\ UNCHANGED <<dev_lock, on_irq, wait_irq, asleep, must_exit, abandoned>>

\* ide_wait_irq() sleeps if no handler has cleared wait_irq; the mutation goes
\* on to must_terminate without unlocking.
Unlocked_NotKilled(r) == on_irq' =
  IF r \in must_exit THEN on_irq ELSE [on_irq EXCEPT ![Line(r)] = None]
Unlocked(r) == on_irq' = [on_irq EXCEPT ![Line(r)] = None]
AfterWait(r) == IF rd[r].got < numsects(r) THEN "prewait" ELSE "finish"
WaitNot(r) ==
  /\ At(r, "wait") /\ wait_irq[Line(r)] = None
  /\ Unlocked(r)
  /\ Goto(r, AfterWait(r))
  /\ UNCHANGED <<drive, dev_lock, wait_irq, asleep, must_exit, abandoned>>
WaitSleep(r) ==
  /\ At(r, "wait") /\ wait_irq[Line(r)] # None
  /\ asleep' = asleep \cup {r}
  /\ Goto(r, "woken")
  /\ UNCHANGED <<drive, dev_lock, on_irq, wait_irq, must_exit, abandoned>>
Woken(r) ==
  /\ At(r, "woken")
  /\ Unlocked(r)
  /\ Goto(r, IF r \in must_exit THEN "terminate" ELSE AfterWait(r))
  /\ UNCHANGED <<drive, dev_lock, wait_irq, asleep, must_exit, abandoned>>

PollData(r) ==
  /\ At(r, "poll_data") /\ Ready(rd[r].d)
  /\ IF Asks(rd[r].d) THEN Goto(r, "insw") /\ UNCHANGED <<dev_lock, abandoned>>
     ELSE Fails(r)
  /\ UNCHANGED <<drive, on_irq, wait_irq, asleep, must_exit>>

\* insw(bus, ptr, words): a block, if the drive has one.
ReadBlock(r) ==
  /\ At(r, "insw")
  /\ LET d == rd[r].d IN
     IF drive[d].st = "data"
     THEN /\ drive' = [drive EXCEPT ![d] = [st |-> "busy", left |-> @.left - 1]]
          /\ rd' = [rd EXCEPT ![r].got = @ + 1, ![r].pc = "wait"]
     ELSE Goto(r, "wait") /\ UNCHANGED drive
  /\ UNCHANGED <<dev_lock, on_irq, wait_irq, asleep, must_exit, abandoned>>

\* (XI), and back to ide_vfs_read(), which reports len.
Finish(r) ==
  /\ At(r, "finish") /\ drive[rd[r].d].st \notin {"command", "packet", "busy", "data"}
  /\ dev_lock' = [dev_lock EXCEPT ![rd[r].d] = None]
  /\ Goto(r, "done")
  /\ UNCHANGED <<drive, on_irq, wait_irq, asleep, must_exit, abandoned>>

\* must_terminate, and the system call returns to where the thread exits.
Terminate(r) ==
  /\ At(r, "terminate")
  /\ dev_lock' = [dev_lock EXCEPT ![rd[r].d] = None]
  /\ rd' = [rd EXCEPT ![r] = Idle]
  /\ UNCHANGED <<drive, on_irq, wait_irq, asleep, must_exit, abandoned>>

Return(r) ==
  /\ At(r, "done")
  /\ rd' = [rd EXCEPT ![r] = Idle]
  /\ UNCHANGED <<drive, dev_lock, on_irq, wait_irq, asleep, must_exit, abandoned>>

\* kill_thread(), which wakes the thread as often as it goes to sleep
Kill(r) ==
  /\ r \notin must_exit \/ r \in asleep
  /\ must_exit' = must_exit \cup {r}
  /\ asleep' = asleep \ {r}
  /\ UNCHANGED <<drive, dev_lock, on_irq, wait_irq, rd, abandoned>>

\* A timer that an earlier select() has left behind resumes the thread.
Stray(r) ==
  /\ r \in asleep
  /\ asleep' = asleep \ {r}
  /\ UNCHANGED <<drive, dev_lock, on_irq, wait_irq, rd, must_exit, abandoned>>

ReaderStep(r) ==
  \/ ide_vfs_read(r) \/ Command(r) \/ PollPacket(r)
  \/ PrewaitLock(r) \/ PrewaitSet(r) \/ SendPacket(r)
  \/ WaitNot(r) \/ WaitSleep(r) \/ Woken(r)
  \/ PollData(r) \/ ReadBlock(r) \/ Finish(r) \/ Terminate(r) \/ Return(r)

Next ==
  \/ \E r \in Readers : ReaderStep(r) \/ Kill(r) \/ Stray(r)
  \/ \E d \in Drives : WantsPacket(d) \/ Interrupts(d)
  \/ \E l \in Lines : OtherInterrupt(l)

-----------------------------------------------------------------------------
(***************************************************************************)
(* A reader sleeps only for an interrupt that is still to come: its drive  *)
(* is busy, and it is the one the handler will resume.                     *)
(***************************************************************************)
IrqComes == \A r \in asleep :
  drive[rd[r].d].st = "busy" /\ wait_irq[Line(r)] = r

(***************************************************************************)
(* A read that reports success has all its blocks, however early a timer   *)
(* or the interrupts of others have resumed it.  The exception is the      *)
(* code's: the number of blocks is cut to a byte and the whole length      *)
(* reported.                                                               *)
(***************************************************************************)
ReadIsWhole == \A r \in Readers :
  rd[r].pc = "done" /\ rd[r].len < CountValues => rd[r].got = rd[r].len

(***************************************************************************)
(* The mutex of a line and the lock of a drive belong to a read under way. *)
(* A read that fails between prewait and wait keeps the mutex for ever.    *)
(***************************************************************************)
Inside == {"set_wait", "send", "wait", "woken", "poll_data", "insw"}
LocksReturned ==
  /\ \A l \in Lines \ abandoned : on_irq[l] # None =>
       LineOf[rd[on_irq[l]].d] = l /\ rd[on_irq[l]].pc \in Inside
  /\ \A d \in Drives : dev_lock[d] # None =>
       rd[dev_lock[d]].d = d /\ rd[dev_lock[d]].pc \notin {"idle", "done"}

DriverExact == IrqComes /\ ReadIsWhole /\ LocksReturned
=============================================================================
