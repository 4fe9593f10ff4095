------------------------------ MODULE MCMemory ------------------------------
(***************************************************************************)
(* The memory of processes, of two processes with a region of two pages    *)
(* and one of a single page each; and the kernel's half of the address     *)
(* space: regions, and two kernel tables for two threads that interrupt    *)
(* each other.  They share no state, and which names the one exercised;    *)
(* the frames of both are the same model values, so that they may be       *)
(* exchanged.                                                              *)
(***************************************************************************)
EXTENDS UserMemory, KernelSpace, TLC

CONSTANTS p1, p2, f1, f2, f3, t1, t2, d1, d2

MCSlots == [p \in Procs |-> IF p = p1 THEN {<<0, 2>>} ELSE {<<0, 1>>}]
Symmetric == Permutations(Frames)

MCInit ==
  /\ Init
  /\ \/ which = "user" /\ NoSpace
     \/ SpaceInit

MCNext ==
  \/ which = "user" /\ Next /\ UNCHANGED <<which, space_vars>>
  \/ SpaceNext /\ UNCHANGED vars

MCSpec == MCInit /\ [][MCNext]_<<which, vars, space_vars>>
=============================================================================
