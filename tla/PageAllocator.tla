--------------------------- MODULE PageAllocator ---------------------------
(***************************************************************************)
(* The first-fit page allocator (kernel/mm/pmm_firstfit.cpp) with kmalloc  *)
(* and kfree on top of it (kernel/mm/pmm.cpp).  alloc() and free() run     *)
(* with interrupts off: alloc() is one step, and nothing else happens      *)
(* between the turns of the loop of free().  A page is its index in the    *)
(* array of descriptors; a block that was given out stays with its caller  *)
(* until the caller frees it with the size it asked for.                   *)
(***************************************************************************)
EXTENDS Integers, Sequences, FiniteSets, Functions

CONSTANTS
    Pages,     \* the page descriptors
    BootMaps,  \* the boot memory maps: sequences of <<first page, number>>
    Sizes      \* bound: the sizes that callers ask for

Run(first, count) == first .. first + count - 1

\* The descriptors are an array; the regions of a map are ranges of whole
\* pages (normalize_available_range) that do not overlap; kmalloc() returns
\* early for a size of 0 and nobody asks alloc_pages() for it.
ASSUME PagesAssumption ==
    /\ Pages \subseteq Nat /\ IsFiniteSet(Pages)
    /\ Sizes \subseteq Nat \ {0}
    /\ \A map \in BootMaps :
        /\ map \in Seq(Pages \X (Nat \ {0}))
        /\ \A i \in 1 .. Len(map) : Run(map[i][1], map[i][2]) \subseteq Pages
        /\ \A i, j \in 1 .. Len(map) :
            i # j => Run(map[i][1], map[i][2]) \cap Run(map[j][1], map[j][2]) = {}

VARIABLES
    free_list,         \* free_area.free_list: the first pages of the runs, in order
    free_page_count,   \* free_area.free_page_count
    block_page_count,  \* Page::block_page_count
    reserved,          \* the pages with PageFlag::Reserved
    held,              \* the blocks that callers have
    boot, given,       \* the boot memory map, and how many of its regions are handed over
    le, base, count    \* the loop of free(): its place in the list (0 when no call
                       \* runs), the block, and the number of pages to count

listVars == <<free_list, free_page_count, block_page_count, reserved>>
loopVars == <<le, base, count>>
allocVars == <<listVars, held, boot, given, loopVars>>

FreeRun(p) == Run(p, block_page_count[p])
FreePages == UNION {FreeRun(p) : p \in Range(free_list)}
Region(i) == Run(boot[i][1], boot[i][2])
Managed == UNION {Region(i) : i \in 1 .. Len(boot)}

\* page_init(): all pages are reserved, then the regions are handed over.
AllocInit ==
    /\ boot \in BootMaps /\ given = 0
    /\ free_list = <<>> /\ free_page_count = 0
    /\ block_page_count = [p \in Pages |-> 0]
    /\ reserved = Pages
    /\ held = {}
    /\ le = 0 /\ base = 0 /\ count = 0

\* ListNode::unlink() of the i-th run.
Unlink(s, i) == [j \in 1 .. Len(s) - 1 |-> IF j < i THEN s[j] ELSE s[j + 1]]

\* init_memmap() on the next region of the map: one run, appended to the list
\* and marked at its first page.
InitMemmap ==
    /\ given < Len(boot) /\ given' = given + 1
    /\ LET first == boot[given + 1][1]
           pages == boot[given + 1][2]
       IN /\ free_list' = Append(free_list, first)
          /\ free_page_count' = free_page_count + pages
          /\ block_page_count' = [block_page_count EXCEPT ![first] = pages]
          /\ reserved' = (reserved \ Run(first, pages)) \cup {first}
    /\ UNCHANGED <<held, boot, loopVars>>

\* No call runs: alloc() and free() have interrupts off to their end.
Quiet == given = Len(boot) /\ le = 0

\* Whether the run that starts at p is large enough.
Fits(p, n) == block_page_count[p] >= n

\* Mutant of MarkTaken: the page that starts the rest of the run is not marked.
MarkTakenOnly(page, n) == reserved \ {page}

\* The marks after alloc(): a free run is marked at its first page.
MarkTaken(page, n) ==
    (IF block_page_count[page] > n THEN reserved \cup {page + n} ELSE reserved) \ {page}

\* Mutant of SizesTaken: kmalloc() does not remember the size.
SizesTakenForgotten(page, n, k) ==
    IF block_page_count[page] > n
    THEN [block_page_count EXCEPT ![page + n] = block_page_count[page] - n]
    ELSE block_page_count

\* The sizes after alloc(): the rest of the run gets its own; the block keeps
\* the size of the old run, unless kmalloc() sets it (k).
SizesTaken(page, n, k) ==
    LET size == block_page_count[page]
        kept == [block_page_count EXCEPT ![page] = IF k THEN n ELSE size]
    IN IF size > n THEN [kept EXCEPT ![page + n] = size - n] ELSE kept

\* alloc(): the first run in the list that fits; what is left of it takes its
\* place in the list.
Alloc(n, k) ==
    Quiet /\ \E i \in 1 .. Len(free_list) :
        LET page == free_list[i]
        IN /\ n <= free_page_count
           /\ Fits(page, n)
           /\ \A j \in 1 .. i - 1 : ~Fits(free_list[j], n)
           /\ free_list' = IF block_page_count[page] > n THEN [free_list EXCEPT ![i] = page + n]
                           ELSE Unlink(free_list, i)
           /\ block_page_count' = SizesTaken(page, n, k)
           /\ reserved' = MarkTaken(page, n)
           /\ free_page_count' = free_page_count - n
           /\ held' = held \cup {[base |-> page, count |-> n, kmalloc |-> k]}
           /\ UNCHANGED <<boot, given, loopVars>>

\* pmm::alloc_pages() and kmalloc(); a call that finds nothing changes nothing.
AllocPages(n) == Alloc(n, FALSE)
Kmalloc(n) == Alloc(n, TRUE)

\* free(): the pages are cleared and the block gets its size and its mark ...
Free(b, n) ==
    /\ Quiet
    /\ block_page_count' = [block_page_count EXCEPT ![b.base] = n]
    /\ reserved' = (reserved \ Run(b.base, n)) \cup {b.base}
    /\ le' = 1 /\ base' = b.base /\ count' = n
    /\ held' = held \ {b}
    /\ UNCHANGED <<free_list, free_page_count, boot, given>>

\* The run at p joins the end of the block ...
MergeBehind(p) ==
    /\ base + block_page_count[base] = p
    /\ block_page_count' = [block_page_count EXCEPT ![base] = @ + block_page_count[p]]
    /\ reserved' = reserved \ {p}
    /\ free_list' = Unlink(free_list, le)
    /\ UNCHANGED <<le, base>>

\* ... or the block joins the end of the run.
MergeBefore(p) ==
    /\ base + block_page_count[base] # p /\ p + block_page_count[p] = base
    /\ block_page_count' = [block_page_count EXCEPT ![p] = @ + block_page_count[base]]
    /\ reserved' = reserved \ {base}
    /\ free_list' = Unlink(free_list, le)
    /\ base' = p /\ UNCHANGED le

\* Mutant of Kept: the last run of the list is passed over.
KeptUnseen(p) ==
    /\ \/ le = Len(free_list)
       \/ base + block_page_count[base] # p /\ p + block_page_count[p] # base
    /\ le' = le + 1 /\ UNCHANGED <<free_list, block_page_count, reserved, base>>

Kept(p) ==
    /\ base + block_page_count[base] # p /\ p + block_page_count[p] # base
    /\ le' = le + 1 /\ UNCHANGED <<free_list, block_page_count, reserved, base>>

\* One turn of the loop of free().
FreeTurn ==
    /\ le \in 1 .. Len(free_list)
    /\ LET p == free_list[le] IN MergeBehind(p) \/ MergeBefore(p) \/ Kept(p)
    /\ UNCHANGED <<free_page_count, held, boot, given, count>>

\* ... what results goes to the end of the list.
FreeEnd ==
    /\ le = Len(free_list) + 1
    /\ free_list' = Append(free_list, base)
    /\ free_page_count' = free_page_count + count
    /\ le' = 0 /\ base' = 0 /\ count' = 0
    /\ UNCHANGED <<block_page_count, reserved, held, boot, given>>

\* pmm::free_pages() with the size the caller knows.
FreePagesOf(b) == ~b.kmalloc /\ Free(b, b.count)

\* kfree() with the size that kmalloc() remembered.
Kfree(b) ==
    /\ b.kmalloc
    /\ Free(b, IF block_page_count[b.base] > 0 THEN block_page_count[b.base] ELSE 1)

AllocNext ==
    \/ InitMemmap \/ FreeTurn \/ FreeEnd
    \/ \E n \in Sizes : AllocPages(n) \/ Kmalloc(n)
    \/ \E b \in held : FreePagesOf(b) \/ Kfree(b)

AllocSpec == AllocInit /\ [][AllocNext]_allocVars

----------------------------------------------------------------------------
\* The bookkeeping agrees with the list after any sequence of calls: the runs
\* are disjoint, free_page_count (which alloc() compares with) is the number
\* of their pages, and of the pages of the boot map exactly the first of each
\* run is marked reserved (unmap_mmio_page() tells page tables by that mark).
BookkeepingExact ==
    /\ \A i, j \in 1 .. Len(free_list) :
        i # j => FreeRun(free_list[i]) \cap FreeRun(free_list[j]) = {}
    /\ free_page_count = Cardinality(FreePages)
    /\ reserved \cap Managed = Range(free_list)

\* Free runs that touch are merged, except where two regions of the boot map
\* meet (init_memmap() does not merge, one pass of free() does).
Coalesced ==
    \A p, q \in Range(free_list) :
        p + block_page_count[p] = q => \E i \in 1 .. Len(boot) : boot[i][1] = q

\* After any sequence of alloc() and free() the free list is exact and as
\* merged as the boot map allows.
FreeListExact == Quiet => BookkeepingExact /\ Coalesced

\* The pages nobody has: in the list, in the block that is being freed, or in
\* the regions to come.
Unowned ==
    FreePages \cup (IF le = 0 THEN {} ELSE FreeRun(base))
              \cup UNION {Region(i) : i \in given + 1 .. Len(boot)}

Pool == INSTANCE PagePool WITH free <- Unowned

\* alloc_pages(), kmalloc(), free_pages() and kfree() are steps of the abstract
\* allocator: a caller gets pages that nobody has, and exactly those come back.
ImplementsPool == Pool!Spec
=============================================================================
