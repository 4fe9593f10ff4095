------------------------------ MODULE Devices ------------------------------
(***************************************************************************)
(* The drivers: drives that interrupt, the BIOS, the framebuffer, and      *)
(* keyboard and mouse, each a part of its own.  pciide.c, v86.c, vesa.c    *)
(* and pckbdmouse.c share no state but the BIOS session, which module      *)
(* Framebuffer has in itself.                                              *)
(***************************************************************************)
EXTENDS Integers, Parts

CONSTANTS DriveReaders, Drives, LineOf, MaxBlocks, CountValues, NoReader
VARIABLES drive, dev_lock, on_irq, wait_irq, rd, irq_asleep, irq_must_exit, abandoned

Disk == INSTANCE Ide WITH
  Readers <- DriveReaders, None <- NoReader, asleep <- irq_asleep, must_exit <- irq_must_exit

CONSTANTS BiosCallers, NoCaller
VARIABLES v86_mutex, v86_pagedir, v86_thread, v86_caller_thread, v86_retval, v86_regs,
          v86_pc, v86_asleep, v86_must_exit, v86_in, v86_early, v86_kept, v86_spoilt

Bios == INSTANCE V86 WITH
  Callers <- BiosCallers, None <- NoCaller, pc <- v86_pc, asleep <- v86_asleep, must_exit <- v86_must_exit,
  in_v86 <- v86_in, early <- v86_early, kept <- v86_kept, spoilt <- v86_spoilt

CONSTANTS FbProcs, FbModes, FbSizeOf, FbPhysOf, FbRegionSize, FbOffsets, FbNone
VARIABLES fb_bios, fb_mutex, fb_mode, fb_size, fb_phys, fb_pages, fb_lock, fb_region,
          fb_entry, fb_th, fb_stale, fb_beyond, fb_crossed

Fb == INSTANCE Framebuffer WITH
  Procs <- FbProcs, Modes <- FbModes, SizeOf <- FbSizeOf, PhysOf <- FbPhysOf,
  RegionSize <- FbRegionSize, Offsets <- FbOffsets, None <- FbNone,
  bios <- fb_bios, v86_mutex <- fb_mutex, current_mode <- fb_mode, size <- fb_size,
  phys_offset <- fb_phys, pages <- fb_pages, lock <- fb_lock, region <- fb_region,
  entry <- fb_entry, th <- fb_th, stale <- fb_stale, beyond <- fb_beyond, crossed <- fb_crossed

CONSTANTS KbTyped, RaltIsMod, KbBufLen, MouseBufLen, MouseBits, MouseMoves, KbNoKey
VARIABLES in_wire, in_down, in_pckbd, in_kb, in_unknown, in_crossed, in_said,
          in_packet, in_pcmouse, in_hand, in_dropped

Inp == INSTANCE Input WITH
  Typed <- KbTyped, ralt_is_mod <- RaltIsMod, PCKBD_BUF_LEN <- KbBufLen,
  PCMOUSE_BUF_LEN <- MouseBufLen, ByteBits <- MouseBits, Moves <- MouseMoves, NoKey <- KbNoKey,
  wire <- in_wire, down <- in_down, pckbd <- in_pckbd, kb <- in_kb, unknown <- in_unknown,
  crossed <- in_crossed, said <- in_said, packet <- in_packet, pcmouse <- in_pcmouse,
  hand <- in_hand, dropped <- in_dropped

ASSUME DevicesAssumption ==
  /\ Disk!IdeAssumption /\ Bios!V86Assumption
  /\ Fb!FramebufferAssumption /\ Inp!InputAssumption

disk_vars == <<drive, dev_lock, on_irq, wait_irq, rd, irq_asleep, irq_must_exit, abandoned>>
bios_vars == <<v86_mutex, v86_pagedir, v86_thread, v86_caller_thread, v86_retval, v86_regs,
               v86_pc, v86_asleep, v86_must_exit, v86_in, v86_early, v86_kept, v86_spoilt>>
screen_vars == <<fb_bios, fb_mutex, fb_mode, fb_size, fb_phys, fb_pages, fb_lock, fb_region,
                 fb_entry, fb_th, fb_stale, fb_beyond, fb_crossed>>
input_vars == <<in_wire, in_down, in_pckbd, in_kb, in_unknown, in_crossed, in_said,
                in_packet, in_pcmouse, in_hand, in_dropped>>
device_vars == <<disk_vars, bios_vars, screen_vars, input_vars>>

-----------------------------------------------------------------------------
NoDisk == /\ drive = Null /\ dev_lock = Null /\ on_irq = Null /\ wait_irq = Null
          /\ rd = Null /\ irq_asleep = Null /\ irq_must_exit = Null /\ abandoned = Null
NoBios == /\ v86_mutex = Null /\ v86_pagedir = Null /\ v86_thread = Null
          /\ v86_caller_thread = Null /\ v86_retval = Null /\ v86_regs = Null /\ v86_pc = Null
          /\ v86_asleep = Null /\ v86_must_exit = Null /\ v86_in = Null /\ v86_early = Null
          /\ v86_kept = Null /\ v86_spoilt = Null
NoScreen == /\ fb_bios = Null /\ fb_mutex = Null /\ fb_mode = Null /\ fb_size = Null
            /\ fb_phys = Null /\ fb_pages = Null /\ fb_lock = Null /\ fb_region = Null
            /\ fb_entry = Null /\ fb_th = Null /\ fb_stale = Null /\ fb_beyond = Null
            /\ fb_crossed = Null
NoInput == /\ in_wire = Null /\ in_down = Null /\ in_pckbd = Null /\ in_kb = Null
           /\ in_unknown = Null /\ in_crossed = Null /\ in_said = Null /\ in_packet = Null
           /\ in_pcmouse = Null /\ in_hand = Null /\ in_dropped = Null
NoDevices == NoDisk /\ NoBios /\ NoScreen /\ NoInput

DevicesInit ==
  \/ which = "drive" /\ Disk!Init /\ NoBios /\ NoScreen /\ NoInput
  \/ which = "bios" /\ Bios!Init /\ NoDisk /\ NoScreen /\ NoInput
  \/ which = "screen" /\ Fb!Init /\ NoDisk /\ NoBios /\ NoInput
  \/ which \in {"keyboard", "mouse"} /\ Inp!Init /\ NoDisk /\ NoBios /\ NoScreen

\* Keyboard and mouse share no state either.
DevicesNext ==
  \/ which = "drive" /\ Disk!Next /\ UNCHANGED <<which, bios_vars, screen_vars, input_vars>>
  \/ which = "bios" /\ Bios!Next /\ UNCHANGED <<which, disk_vars, screen_vars, input_vars>>
  \/ which = "screen" /\ Fb!Next /\ UNCHANGED <<which, disk_vars, bios_vars, input_vars>>
  \/ /\ which = "keyboard" /\ Inp!KbdNext
     /\ UNCHANGED <<which, disk_vars, bios_vars, screen_vars>>
  \/ /\ which = "mouse" /\ Inp!MouseNext
     /\ UNCHANGED <<which, disk_vars, bios_vars, screen_vars>>

DevicesSpec == DevicesInit /\ [][DevicesNext]_<<which, device_vars>>

\* A reader of a drive sleeps only for an interrupt that will come to it, a read
\* that succeeds is whole, and the locks of drives and lines are given back; the
\* BIOS answers the caller that waits for it, and sessions exclude each other;
\* programs know the keys and the button as they are, once they have read them,
\* and those that map the framebuffer see the memory of the present mode.
DevicesExact ==
  /\ which = "drive" => Disk!DriverExact
  /\ which = "bios" => Bios!V86Exact
  /\ which = "screen" => Fb!FramebufferExact
  /\ which = "keyboard" => Inp!KeyboardExact
  /\ which = "mouse" => Inp!MouseExact
=============================================================================
