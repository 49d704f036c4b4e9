------------------------------ MODULE MCPaging ------------------------------
(***************************************************************************)
(* Swapping and the page tables, for model checking.  The first state      *)
(* decides which of them a behaviour exercises; the other stays as it is   *)
(* at its beginning.  Swapping has two address spaces of two pages that    *)
(* compete for fewer frames and slots; tasks, frames and contents are      *)
(* interchangeable.                                                        *)
(***************************************************************************)
EXTENDS Swap, PageTable, TLC

VARIABLE part

vars == <<part, swapVars, tableVars>>

Symmetry == Permutations(Tasks) \cup Permutations(Frames) \cup Permutations(Values)

Init ==
  \/ part = "swap" /\ SwapInit /\ board = "x86" /\ TableInit
  \/ part = "tables" /\ SwapInit /\ TableInit

\* Nothing more is asked of the tables, or the kernel has halted.
TablesAtRest == (op = Idle \/ phase = "halted") /\ UNCHANGED tableVars

Next ==
  \/ part = "swap" /\ SwapNext /\ UNCHANGED <<part, tableVars>>
  \/ part = "tables" /\ (TableNext \/ TablesAtRest) /\ UNCHANGED <<part, swapVars>>

Spec == Init /\ [][Next]_vars
=============================================================================
