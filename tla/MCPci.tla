------------------------------- MODULE MCPci -------------------------------
(***************************************************************************)
(* The two PCI devices with queues in memory, for model checking: the AHCI *)
(* disk and the virtio keyboard.  The first state decides which of them a  *)
(* behaviour exercises; the other stays as it is at its own beginning.     *)
(***************************************************************************)
EXTENDS Ahci, VirtioKbd, TLC

VARIABLE part

vars == <<part, ahciVars, kbdVars>>

\* A disk of three sectors and a bounce buffer of two.
MCSectors == 0 .. 2

MCCalls == {[write |-> w, first |-> 0, count |-> 3] : w \in BOOLEAN}
           \cup {[write |-> TRUE, first |-> 1, count |-> 1],
                 [write |-> FALSE, first |-> 2, count |-> 2]}

MCSymmetry == Permutations(Tasks)

Init ==
  \/ part = "disk" /\ AhciInit /\ KbdInit
  \/ part = "keyboard" /\ cr = FALSE /\ bsy = FALSE /\ AhciInit /\ KbdInit

\* A quarantined disk that was not published is at rest, and so is each device
\* when the bounds on detect, start and the keys pressed are reached.
NoMoreInits ==
  /\ inits = MaxInits \/ state = "Quarantined"
  /\ owner = None /\ ~published /\ UNCHANGED ahciVars
NoMoreKeys == pc = "idle" /\ UNCHANGED kbdVars

Next ==
  \/ part = "disk" /\ (AhciNext \/ NoMoreInits) /\ UNCHANGED <<part, kbdVars>>
  \/ part = "keyboard" /\ (KbdNext \/ NoMoreKeys) /\ UNCHANGED <<part, ahciVars>>

Spec == Init /\ [][Next]_vars
=============================================================================
