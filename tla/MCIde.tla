-------------------------------- MODULE MCIde --------------------------------
(* Two drives of two sectors each, used by two tasks.                        *)
EXTENDS Ide, TLC

CONSTANTS master, slave

MCSectors == 0 .. 1

MCCalls == {[dev |-> d, write |-> w, first |-> 0, count |-> 2] :
              d \in Drives, w \in BOOLEAN}
           \cup {[dev |-> master, write |-> TRUE, first |-> 1, count |-> 1]}

MCSymmetry == Permutations(Tasks)
=============================================================================
