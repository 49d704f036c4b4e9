------------------------------ MODULE MCMemory ------------------------------
(***************************************************************************)
(* The page allocator and the lock of swapping, for model checking.  The   *)
(* first state decides which of them a behaviour exercises; the other      *)
(* stays as it is at its beginning.                                        *)
(***************************************************************************)
EXTENDS PageAllocator, Swap

VARIABLE part

vars == <<part, allocVars, swapVars>>

\* Eight pages, of which the kernel image has the first; boot maps of one
\* region, of two regions with a hole, and of two regions that touch.
MCPages == 0 .. 7
MCBootMaps == {<< <<1, 6>> >>, << <<1, 3>>, <<5, 3>> >>, << <<4, 3>>, <<1, 3>> >>}
MCSizes == 1 .. 3

AllocAside == boot = << <<1, 6>> >> /\ AllocInit

Init ==
  \/ part = "allocator" /\ AllocInit /\ SwapInit
  \/ part = "swap" /\ SwapInit /\ AllocAside

OfSwap(A) == part = "swap" /\ A /\ UNCHANGED <<part, allocVars>>

Next ==
  \/ part = "allocator" /\ AllocNext /\ UNCHANGED <<part, swapVars>>
  \/ OfSwap(SwapNext)

\* Disk requests complete or fail, and the task that waits for one runs again.
Spec == Init /\ [][Next]_vars /\ \A t \in Tasks : WF_vars(OfSwap(IoStep(t)))
=============================================================================
