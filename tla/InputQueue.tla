----------------------------- MODULE InputQueue -----------------------------
(***************************************************************************)
(* What the console input promises: a queue of at most Capacity characters *)
(* that loses a character only when it is full, and delivers each of the   *)
(* others once, in the order of arrival, to some reader.                   *)
(***************************************************************************)
EXTENDS Naturals, Sequences

CONSTANTS Readers, Chars, NoChar, Capacity

VARIABLES
    buffer,   \* the characters that have arrived and are not delivered yet
    got       \* for each reader the character it got last

Init == buffer = <<>> /\ got = [r \in Readers |-> NoChar]

Arrive(c) ==
    /\ buffer' = IF Len(buffer) < Capacity THEN Append(buffer, c) ELSE buffer
    /\ UNCHANGED got

Deliver(r) ==
    /\ buffer # <<>>
    /\ buffer' = Tail(buffer)
    /\ got' = [got EXCEPT ![r] = Head(buffer)]

Next == (\E c \in Chars : Arrive(c)) \/ (\E r \in Readers : Deliver(r))

Spec == Init /\ [][Next]_<<buffer, got>>
=============================================================================
