------------------------------ MODULE PagePool ------------------------------
(***************************************************************************)
(* What a page allocator promises: contiguous blocks of pages that nobody  *)
(* else has, which come back when they are freed.                          *)
(***************************************************************************)
EXTENDS Integers

CONSTANTS Pages, Sizes

VARIABLES
    free,   \* the free pages
    held    \* the blocks given out: records with fields base and count

Block(base, count) == base .. base + count - 1

Alloc(b) ==
    /\ Block(b.base, b.count) \subseteq free
    /\ free' = free \ Block(b.base, b.count)
    /\ held' = held \cup {b}

Free(b) ==
    /\ b \in held
    /\ free' = free \cup Block(b.base, b.count)
    /\ held' = held \ {b}

Init == free \subseteq Pages /\ held = {}

Next ==
    \/ \E base \in Pages, n \in Sizes, k \in BOOLEAN : Alloc([base |-> base, count |-> n, kmalloc |-> k])
    \/ \E b \in held : Free(b)

Spec == Init /\ [][Next]_<<free, held>>
=============================================================================
