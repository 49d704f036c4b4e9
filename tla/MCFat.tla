-------------------------------- MODULE MCFat --------------------------------
(***************************************************************************)
(* FAT32, for model checking: mounting a volume, walking a cluster chain,  *)
(* and the operations on directories.  The first state decides which of    *)
(* them a behaviour exercises; the others stay as they are at their own    *)
(* beginning.                                                              *)
(***************************************************************************)
EXTENDS ClusterChain, FatVolume, Fat

MCBlocks == {Span \div 2, Span - 1}
MCPartitions == {<<"gpt", 3>>, <<"fat32", 1>>}

VARIABLE part

vars == <<part, chainVars, volumeVars, fatVars>>

ChainAside == fat = [c \in Clusters |-> Eoc] /\ current = Bad /\ ChainInit
VolumeAside ==
  /\ disk = [blocks |-> Span - 1, table |-> <<"bad", 0>>,
             bs |-> [total |-> 0, reserved |-> 0, fats |-> 0, fatSize |-> 0,
                     perCluster |-> 0, root |-> 1, usable |-> FALSE]]
  /\ VolumeInit

Init ==
  \/ part = "chain" /\ VolumeAside /\ FatInit /\ ChainInit
  \/ part = "volume" /\ ChainAside /\ FatInit /\ VolumeInit
  \/ part = "directories" /\ ChainAside /\ VolumeAside /\ FatInit

Next ==
  \/ part = "chain" /\ ChainNext /\ UNCHANGED <<part, volumeVars, fatVars>>
  \/ part = "volume" /\ VolumeNext /\ UNCHANGED <<part, chainVars, fatVars>>
  \/ part = "directories" /\ FatNext /\ UNCHANGED <<part, chainVars, volumeVars>>

Spec == Init /\ [][Next]_vars
=============================================================================
