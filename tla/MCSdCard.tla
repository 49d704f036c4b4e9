------------------------------ MODULE MCSdCard ------------------------------
(***************************************************************************)
(* The probing of devices and the SD driver, for model checking.  The      *)
(* first state decides which of them a behaviour exercises; the other      *)
(* stays as it is at its own beginning.                                    *)
(***************************************************************************)
EXTENDS DeviceProbe, Sdhci, TLC

CONSTANTS a1, a2, s1, s2, s3, s4

VARIABLE part

vars == <<part, deviceProbeVars, sdhciVars>>

\* Six functions and a table for five: two AHCI controllers of two ports
\* among SD hosts, three of them in the table, for two slots; four places in
\* the registry.
MCPresent == <<a1, s1, s2, a2, s3, s4>>
MCKind == [f \in {a1, a2, s1, s2, s3, s4} |-> IF f \in {a1, a2} THEN Ahci ELSE Sd]
MCPorts == 1 .. 2

\* A card of four sectors, all with an SDSC address.  The CSDs are one of
\* version 1 that overflows, one that does not, one of version 2 and one of an
\* unknown version, which is taken for more sectors than the card has.
MCSectors == 0 .. 3
MCCsds == {[version |-> 0, size |-> 0, mult |-> 0, length |-> 0],
           [version |-> 0, size |-> 0, mult |-> 0, length |-> 1],
           [version |-> 1, size |-> 1, mult |-> 0, length |-> 0],
           [version |-> 2, size |-> 0, mult |-> 0, length |-> 0]}
MCCalls == {[write |-> w, first |-> f, count |-> 2] :
              w \in BOOLEAN, f \in {0, 3}}
           \cup {[write |-> TRUE, first |-> 0, count |-> 1],
                 [write |-> FALSE, first |-> 5, count |-> 0]}

MCSymmetry == Permutations(Tasks)

Init ==
  \/ part = "probe" /\ ProbeInit /\ power = FALSE /\ SdhciInit
  \/ part = "card" /\ SdhciInit /\ ProbeInit

\* The bound on the calls of init ends the life of a card nobody published.
NoMoreInits == inits = MaxInits /\ owner = None /\ ~published /\ UNCHANGED sdhciVars

Next ==
  \/ part = "probe" /\ ProbeNext /\ UNCHANGED <<part, sdhciVars>>
  \/ part = "card" /\ (SdhciNext \/ NoMoreInits) /\ UNCHANGED <<part, deviceProbeVars>>

Spec == Init /\ [][Next]_vars
=============================================================================
