----------------------------- MODULE MCProcesses -----------------------------
(***************************************************************************)
(* Trees of processes for module Processes: init with a child that has a   *)
(* child, and init with one child.                                         *)
(***************************************************************************)
EXTENDS Processes, TLC

CONSTANTS root, a, b

ChainParent == [p \in {a, b} |-> IF p = a THEN root ELSE a]

\* init does not wait in this tree (the wait of a parent is the one of a)
ChainCalls ==
  [p \in {root, a, b} |->
     CASE p = root -> {"new_proc", "exec", "kill", "poll_any"}
       [] p = a    -> {"exit", "exit_thread", "mmap", "new_proc", "exec", "kill", "wait_any"}
       [] p = b    -> {"exit", "exit_thread", "mmap", "new_thread"}]

OneParent == [p \in {a} |-> root]

\* Calls for a kill of a thread in a system call, and for a wait
StuckCalls == [p \in {root, a} |-> IF p = root THEN {"new_proc", "exec", "kill"}
                                   ELSE {"exit", "exit_thread", "mmap"}]
WaitCalls == [p \in {root, a} |-> IF p = root THEN {"new_proc", "exec", "wait"}
                                  ELSE {"exit"}]

\* The workers may be exchanged, and the slots that are free at first
Symmetry == Permutations(Workers) \cup Permutations(Slots \ {RootSlot})
=============================================================================
