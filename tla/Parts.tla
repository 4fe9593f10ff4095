------------------------------- MODULE Parts -------------------------------
(***************************************************************************)
(* Parts of the kernel that share no state are put side by side, and a     *)
(* behaviour exercises one of them: which names it, and the variables of   *)
(* the others are Null.  Modules Devices, KernelSpace, Objects and Timers  *)
(* do so with the parts that theorems are about, for any constants, and    *)
(* MCKernel joins these and the remaining parts for the model checker.     *)
(***************************************************************************)
CONSTANT Null    \* no thread, no address, no value: the code's 0
VARIABLE which   \* the part that a behaviour exercises
=============================================================================
