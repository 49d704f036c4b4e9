---------------------------- MODULE ClusterChain ----------------------------
(***************************************************************************)
(* FatInfo::ClusterChain (kernel/fs/fat.h, kernel/fs/fat/fat_core.cpp):    *)
(* the walk along a cluster chain every FAT operation is built on.  The    *)
(* FAT may hold anything: free links, links out of the volume and cycles.  *)
(* next() finds the cycles with Brent's algorithm, in constant space.      *)
(***************************************************************************)
EXTENDS Naturals, Sequences

CONSTANTS
  Count,     \* cluster_count_
  Eoc, Bad   \* an end-of-chain mark (>= FAT32_EOC_MIN), and any other value
             \* that is no cluster of the volume (free, reserved, too large)

ASSUME ClusterChainAssumption ==
  /\ Count \in Nat \ {0}
  /\ Eoc \notin Nat /\ Bad \notin Nat /\ Eoc # Bad

Clusters == 2 .. Count + 1

VARIABLES
  fat,         \* what read_entry returns
  current, checkpoint, power, distance,
  walk,        \* the clusters next() has returned; Len(walk) is visited_
  result       \* "walking", "finished", or the error next() returned

chainVars == <<fat, current, checkpoint, power, distance, walk, result>>

valid_cluster(c) == c \in Clusters

ChainInit ==
  /\ fat \in [Clusters -> Clusters \cup {Eoc, Bad}]
  /\ current \in Clusters \cup {Bad}      \* the start comes from an entry
  /\ checkpoint = current
  /\ power = 1 /\ distance = 0
  /\ walk = <<>> /\ result = "walking"

\* Mutant of Visit: the number of clusters of the volume is no limit.
VisitUnlimited(c) ==
  IF valid_cluster(c)
  THEN current' = c /\ walk' = Append(walk, c) /\ UNCHANGED result
  ELSE result' = "BadFs" /\ UNCHANGED <<current, walk>>

\* The end of next(): the cluster is counted and returned.
Visit(c) ==
  IF valid_cluster(c) /\ Len(walk) < Count
  THEN current' = c /\ walk' = Append(walk, c) /\ UNCHANGED result
  ELSE result' = "BadFs" /\ UNCHANGED <<current, walk>>

First ==
  /\ result = "walking" /\ walk = <<>>
  /\ Visit(current)
  /\ UNCHANGED <<fat, checkpoint, power, distance>>

End ==
  /\ result = "walking" /\ walk # <<>> /\ fat[current] = Eoc
  /\ result' = "finished"
  /\ UNCHANGED <<fat, current, checkpoint, power, distance, walk>>

BadLink ==
  /\ result = "walking" /\ walk # <<>> /\ fat[current] # Eoc
  /\ ~valid_cluster(fat[current]) \/ fat[current] = checkpoint
  /\ result' = "BadFs"
  /\ UNCHANGED <<fat, current, checkpoint, power, distance, walk>>

\* Every power_ steps the checkpoint moves to where the walk is.
Link ==
  LET c == fat[current] IN
  /\ result = "walking" /\ walk # <<>>
  /\ valid_cluster(c) /\ c # checkpoint
  /\ IF distance + 1 = power
     THEN checkpoint' = c /\ power' = power * 2 /\ distance' = 0
     ELSE distance' = distance + 1 /\ UNCHANGED <<checkpoint, power>>
  /\ Visit(c)
  /\ UNCHANGED fat

ChainNext == First \/ End \/ BadLink \/ Link

ChainSpec == ChainInit /\ [][ChainNext]_chainVars

\* The reference: the clusters met from walk[1] in n links are walk's first n+1.
Linked == \A i \in 1 .. Len(walk) - 1 : walk[i + 1] = fat[walk[i]]

Distinct == \A i, j \in 1 .. Len(walk) : walk[i] = walk[j] => i = j

\* The walk says "finished" only for a chain of different clusters of the
\* volume, every one linked to the next and the last one marked the end (so a
\* caller that frees, reads or lists it touches each cluster once); it says
\* BadFs only when the chain really has a link out of the volume or comes back
\* to itself; and before either answer it has returned at most cluster_count_
\* clusters, however the FAT is damaged (ClusterChain::next).
ChainExact ==
  LET last == walk[Len(walk)] IN
  /\ Linked
  /\ Len(walk) <= Count
  /\ result = "finished" => Distinct /\ fat[last] = Eoc
  /\ result = "BadFs" =>
       \/ walk = <<>> /\ ~valid_cluster(current)
       \/ walk # <<>> /\ fat[last] \notin Clusters \cup {Eoc}
       \/ walk # <<>> /\ \E i \in 1 .. Len(walk) : fat[last] = walk[i]
=============================================================================
