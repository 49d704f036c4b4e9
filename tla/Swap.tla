-------------------------------- MODULE Swap --------------------------------
(***************************************************************************)
(* Swapping (kernel/mm/swap.cpp, swap_fifo.cpp) between the user page      *)
(* tables, the page frames and the slots of the swap device.  Every user   *)
(* task has an address space of its own, so tasks stand for both.          *)
(* swap::in() and swap::out() run under io_lock_ and sleep in disk I/O     *)
(* that may fail; page tables of dead tasks are torn down entry by entry,  *)
(* without that lock.                                                      *)
(***************************************************************************)
EXTENDS Integers, Sequences

CONSTANTS
    Tasks,       \* the user tasks and their address spaces
    NumPages,    \* bound: pages of an address space
    Frames,      \* bound: the page frames for user pages
    NumSlots,    \* bound: slot_limit_ - 1
    Values,      \* bound: contents of a page
    Perms,       \* sets of rights out of "write" and "execute"
    MaxOut,      \* bound: page_count of swap::out()
    None

ASSUME SizesAssumption == NumPages \in Nat /\ NumSlots \in Nat \ {0} /\ MaxOut \in Nat
ASSUME NoneAssumption == None \notin Tasks \cup Frames \cup Values
\* A page's rights beyond reading.
PageRights == SUBSET {"write", "execute"}

ASSUME PermsAssumption == Perms \subseteq PageRights

VARIABLES
    leaf,         \* the leaf entries: empty, resident page or swap entry
    mem,         \* contents of the frames
    free,        \* the frames that the page allocator has
    ref_count,   \* Page::ref_count
    disk,        \* contents of the slots
    occupied,    \* the slots whose bit is set in slots_
    next_slot,   \* next_slot_
    swap_list,   \* MemoryDesc::swap_list, oldest page first
    io_lock,     \* who holds io_lock_
    io,          \* the page, its address, its slot and the budget of the call under io_lock_
    pc,          \* where each task is
    value,       \* history: what the task last stored in each page
    granted,     \* history: the rights each page was mapped with
    swappable    \* history: the pages that were given to map_swappable()

frameVars == <<mem, free, ref_count>>
slotVars == <<occupied, next_slot>>
lockVars == <<io_lock, io>>
history == <<value, granted, swappable>>
swapVars == <<leaf, frameVars, disk, slotVars, swap_list, lockVars, pc, history>>

Vas == 1 .. NumPages
Slots == 1 .. NumSlots
Empty == [kind |-> "empty"]
Resident(f, perm) == [kind |-> "page", frame |-> f, perm |-> perm]
\* A swap entry: slot index, ENTRY_WRITE and ENTRY_EXECUTE.
Swapped(s, perm) == [kind |-> "swap", slot |-> s, perm |-> perm]
Entries == {Empty} \cup {Resident(f, p) : f \in Frames, p \in Perms}
                   \cup {Swapped(s, p) : s \in Slots, p \in Perms}

\* State::allocated_slot(): the entry names a slot that is given out.
allocated_slot(entry) == entry.slot \in occupied

\* release_entry(): the bit of the slot is cleared, whoever held it.
release_entry(slot) == occupied' = occupied \ {slot}

\* What is in a frame or slot that nobody filled, or after a failed transfer:
\* no page has this content.
Garbage == None
Contents == Values \cup {Garbage}

Elems(s) == {s[i] : i \in 1 .. Len(s)}
Distinct(s) == \A i, j \in 1 .. Len(s) : s[i] = s[j] => i = j
NoIo == [frame |-> None, va |-> 0, slot |-> 0, left |-> 0]

\* swapfs_init() found a swap device and no address space uses it yet.
SwapInit ==
    /\ leaf = [t \in Tasks |-> [va \in Vas |-> Empty]]
    /\ free = Frames
    /\ ref_count = [f \in Frames |-> 0]
    /\ occupied = {}
    /\ next_slot = 1
    /\ swap_list = [t \in Tasks |-> <<>>]
    /\ io_lock = None
    /\ io = NoIo
    /\ pc = [t \in Tasks |-> "user"]
    /\ mem = [f \in Frames |-> Garbage]
    /\ disk = [s \in Slots |-> Garbage]
    /\ value = [t \in Tasks |-> [va \in Vas |-> Garbage]]
    /\ granted = [t \in Tasks |-> [va \in Vas |-> {}]]
    /\ swappable = [t \in Tasks |-> {}]

\* map_swappable(): the page becomes the newest of the queue.
Enqueue(t, f) == swap_list' = [swap_list EXCEPT ![t] = Append(@, f)]

\* swap_out_victim(): the oldest page of the queue.
Victim(t) == Head(swap_list[t])

\* ListNode::unlink() of a page's node, which is in the list at most once.
Unlinked(s, f) ==
    IF f \in Elems(s)
    THEN LET at == CHOOSE i \in 1 .. Len(s) : s[i] = f
         IN [i \in 1 .. Len(s) - 1 |-> IF i < at THEN s[i] ELSE s[i + 1]]
    ELSE s

Goto(t, l) == pc' = [pc EXCEPT ![t] = l]

----------------------------------------------------------------------------
(* What the owner of an address space does outside swap::in() and out().   *)

\* alloc_and_map_page() of a page with content v; it is in no queue.
MapPage(t, va, perm, v) ==
    /\ pc[t] = "user"
    /\ leaf[t][va] = Empty
    /\ \E f \in free :
        /\ free' = free \ {f}
        /\ mem' = [mem EXCEPT ![f] = v]
        /\ ref_count' = [ref_count EXCEPT ![f] = @ + 1]
        /\ leaf' = [leaf EXCEPT ![t][va] = Resident(f, perm)]
    /\ value' = [value EXCEPT ![t][va] = v]
    /\ granted' = [granted EXCEPT ![t][va] = perm]
    /\ UNCHANGED <<disk, slotVars, swap_list, lockVars, pc, swappable>>

\* map_swappable() of a resident page whose node is in no list.  The kernel calls
\* it in swap::in() only, the tests also after page_insert(); until some page
\* is given to it, nothing is ever swapped out.
MapSwappable(t, va) ==
    /\ pc[t] = "user"
    /\ leaf[t][va].kind = "page"
    /\ leaf[t][va].frame \notin Elems(swap_list[t])
    /\ Enqueue(t, leaf[t][va].frame)
    /\ swappable' = [swappable EXCEPT ![t] = @ \cup {va}]
    /\ UNCHANGED <<leaf, frameVars, disk, slotVars, lockVars, pc, value, granted>>

\* User code stores to a resident page.
Store(t, va, v) ==
    /\ pc[t] = "user"
    /\ leaf[t][va].kind = "page"
    /\ "write" \in leaf[t][va].perm
    /\ mem' = [mem EXCEPT ![leaf[t][va].frame] = v]
    /\ value' = [value EXCEPT ![t][va] = v]
    /\ UNCHANGED <<leaf, free, ref_count, disk, slotVars, swap_list, lockVars, pc, granted, swappable>>

Exit(t) ==
    /\ pc[t] = "user"
    /\ Goto(t, "zombie")
    /\ UNCHANGED <<leaf, frameVars, disk, slotVars, swap_list, lockVars, history>>

----------------------------------------------------------------------------
(* swap::in()                                                              *)

Unlock == io_lock' = None /\ io' = NoIo

\* User code touches a page that is out.  pg_fault() checks the rights in the
\* entry; swap::in() takes io_lock_ (until it gets it nothing of the task
\* changes, so that the wait is no step of its own), reads the entry and
\* allocates a frame.  A fault that is not handled ends the task.
PageFault(t, va, access) ==
    /\ pc[t] = "user"
    /\ leaf[t][va].kind = "swap"
    /\ IF access \subseteq leaf[t][va].perm
       THEN /\ io_lock = None
            /\ allocated_slot(leaf[t][va])
            /\ \E f \in free :
                /\ free' = free \ {f}
                /\ io' = [frame |-> f, va |-> va, slot |-> leaf[t][va].slot, left |-> 0]
            /\ io_lock' = t
            /\ Goto(t, "reading")
       ELSE Goto(t, "zombie") /\ UNCHANGED <<free, lockVars>>
    /\ UNCHANGED <<leaf, mem, ref_count, disk, slotVars, swap_list, history>>

\* swap::in() finds no frame, or an entry that is not of this device.
InFails(t, va) ==
    /\ pc[t] = "user"
    /\ leaf[t][va].kind = "swap"
    /\ io_lock = None
    /\ free = {} \/ ~allocated_slot(leaf[t][va])
    /\ Goto(t, "zombie")
    /\ UNCHANGED <<leaf, frameVars, disk, slotVars, swap_list, lockVars, history>>

\* swapfs_read() fills the frame.
InRead(t) ==
    /\ pc[t] = "reading"
    /\ mem' = [mem EXCEPT ![io.frame] = disk[io.slot]]
    /\ Goto(t, "read")
    /\ UNCHANGED <<leaf, free, ref_count, disk, slotVars, swap_list, lockVars, history>>

\* Mutant of InReadFails: the error return leaves the lock held.
InReadFailsLocked(t) ==
    /\ pc[t] = "reading"
    /\ mem' = [mem EXCEPT ![io.frame] = Garbage]
    /\ free' = free \cup {io.frame}
    /\ Goto(t, "zombie")
    /\ UNCHANGED <<leaf, ref_count, disk, slotVars, swap_list, lockVars, history>>

\* Mutant of InReadFails: the frame is lost.
InReadFailsLeak(t) ==
    /\ pc[t] = "reading"
    /\ mem' = [mem EXCEPT ![io.frame] = Garbage]
    /\ Unlock
    /\ Goto(t, "zombie")
    /\ UNCHANGED <<leaf, free, ref_count, disk, slotVars, swap_list, history>>

\* swapfs_read() fails: the frame is freed and the task ends.
InReadFails(t) ==
    /\ pc[t] = "reading"
    /\ mem' = [mem EXCEPT ![io.frame] = Garbage]
    /\ free' = free \cup {io.frame}
    /\ Unlock
    /\ Goto(t, "zombie")
    /\ UNCHANGED <<leaf, ref_count, disk, slotVars, swap_list, history>>

\* Mutant of InMap: the page is not queued for replacement.
InMapUnqueued(t) ==
    /\ pc[t] = "read"
    /\ leaf' = [leaf EXCEPT ![t][io.va] = Resident(io.frame, leaf[t][io.va].perm)]
    /\ ref_count' = [ref_count EXCEPT ![io.frame] = @ + 1]
    /\ release_entry(io.slot)
    /\ Unlock
    /\ Goto(t, "user")
    /\ UNCHANGED <<mem, free, disk, next_slot, swap_list, history>>

\* With interrupts off: the page is queued, mapped with the rights of the entry,
\* and the slot released; an entry that changed meanwhile is left alone.
InMap(t) ==
    /\ pc[t] = "read"
    /\ LET entry == leaf[t][io.va]
       IN IF entry.kind = "swap" /\ entry.slot = io.slot
          THEN /\ Enqueue(t, io.frame)
               /\ leaf' = [leaf EXCEPT ![t][io.va] = Resident(io.frame, entry.perm)]
               /\ ref_count' = [ref_count EXCEPT ![io.frame] = @ + 1]
               /\ release_entry(io.slot)
               /\ Goto(t, "user")
               /\ UNCHANGED free
          ELSE /\ free' = free \cup {io.frame}
               /\ Goto(t, "zombie")
               /\ UNCHANGED <<swap_list, leaf, ref_count, occupied>>
    /\ Unlock
    /\ UNCHANGED <<mem, disk, next_slot, history>>

----------------------------------------------------------------------------
(* swap::out()                                                             *)

\* swap::out() of up to count pages of the caller's own address space.
OutBegin(t, count) ==
    /\ pc[t] = "user"
    /\ io_lock = None
    /\ io_lock' = t
    /\ io' = [NoIo EXCEPT !.left = count]
    /\ Goto(t, "picking")
    /\ UNCHANGED <<leaf, frameVars, disk, slotVars, swap_list, history>>

\* The loop ends: the budget is used up or swap_list is empty.
OutEnd(t) ==
    /\ pc[t] = "picking"
    /\ io.left = 0 \/ swap_list[t] = <<>>
    /\ Unlock
    /\ Goto(t, "user")
    /\ UNCHANGED <<leaf, frameVars, disk, slotVars, swap_list, history>>

\* The slots from next_slot on, in the order reserve_slot() tries them.
Distance(s) == (s - next_slot) % NumSlots

\* reserve_slot(): the first vacant slot from next_slot_ on, round the end.
Reserves(s) ==
    /\ s \notin occupied
    /\ \A r \in Slots \ occupied : Distance(s) <= Distance(r)

\* Where reserve_slot() goes on after slot s.
NextSlot(s) == IF s = NumSlots THEN 1 ELSE s + 1

\* find_va_for_page()
MappedAt(t, f, va) == leaf[t][va].kind = "page" /\ leaf[t][va].frame = f

\* The oldest page is taken off the list and a slot reserved for it.
OutPick(t) ==
    /\ pc[t] = "picking"
    /\ io.left > 0
    /\ swap_list[t] # <<>>
    /\ LET victim == Victim(t)
       IN \E va \in Vas, s \in Slots :
            /\ MappedAt(t, victim, va)
            /\ ref_count[victim] = 1
            /\ Reserves(s)
            /\ occupied' = occupied \cup {s}
            /\ next_slot' = NextSlot(s)
            /\ io' = [io EXCEPT !.frame = victim, !.va = va, !.slot = s]
    /\ swap_list' = [swap_list EXCEPT ![t] = Tail(@)]
    /\ Goto(t, "writing")
    /\ UNCHANGED <<leaf, frameVars, disk, io_lock, history>>

\* No slot is free, or the page is not one that can go: it is put back in front
\* and the loop ends.  A slot that was reserved is released again; only
\* next_slot_ has moved.
OutPickFails(t) ==
    /\ pc[t] = "picking"
    /\ io.left > 0
    /\ swap_list[t] # <<>>
    /\ LET victim == Victim(t)
           fit == ref_count[victim] = 1 /\ \E va \in Vas : MappedAt(t, victim, va)
       IN IF \E s \in Slots : Reserves(s)
          THEN /\ ~fit
               /\ \E s \in Slots : Reserves(s) /\ next_slot' = NextSlot(s)
          ELSE UNCHANGED next_slot
    /\ Unlock
    /\ Goto(t, "user")
    /\ UNCHANGED <<leaf, frameVars, disk, occupied, swap_list, history>>

\* swapfs_write() puts the page in its slot.
OutWrite(t) ==
    /\ pc[t] = "writing"
    /\ disk' = [disk EXCEPT ![io.slot] = mem[io.frame]]
    /\ Goto(t, "written")
    /\ UNCHANGED <<leaf, frameVars, slotVars, swap_list, lockVars, history>>

\* Mutant of OutWriteFails: the error is taken for success.
OutWriteFailsUnnoticed(t) ==
    /\ pc[t] = "writing"
    /\ disk' = [disk EXCEPT ![io.slot] = Garbage]
    /\ Goto(t, "written")
    /\ UNCHANGED <<leaf, frameVars, slotVars, swap_list, lockVars, history>>

\* Mutant of OutWriteFails: the slot is not released.
OutWriteFailsKeepsSlot(t) ==
    /\ pc[t] = "writing"
    /\ disk' = [disk EXCEPT ![io.slot] = Garbage]
    /\ swap_list' = [swap_list EXCEPT ![t] = <<io.frame>> \o @]
    /\ Unlock
    /\ Goto(t, "user")
    /\ UNCHANGED <<leaf, frameVars, slotVars, history>>

\* swapfs_write() fails, leaving anything in the slot: the page stays, in front of
\* the list, and the slot is released.
OutWriteFails(t) ==
    /\ pc[t] = "writing"
    /\ disk' = [disk EXCEPT ![io.slot] = Garbage]
    /\ release_entry(io.slot)
    /\ swap_list' = [swap_list EXCEPT ![t] = <<io.frame>> \o @]
    /\ Unlock
    /\ Goto(t, "user")
    /\ UNCHANGED <<leaf, frameVars, next_slot, history>>

\* With interrupts off: the entry replaces the mapping and the frame is freed; a
\* mapping that changed meanwhile is left alone.
OutCommit(t) ==
    /\ pc[t] = "written"
    /\ IF MappedAt(t, io.frame, io.va) /\ ref_count[io.frame] = 1
       THEN /\ leaf' = [leaf EXCEPT ![t][io.va] = Swapped(io.slot, @.perm)]
            /\ ref_count' = [ref_count EXCEPT ![io.frame] = @ - 1]
            /\ free' = free \cup {io.frame}
            /\ io' = [NoIo EXCEPT !.left = io.left - 1]
            /\ Goto(t, "picking")
            /\ UNCHANGED <<occupied, swap_list, io_lock>>
       ELSE /\ release_entry(io.slot)
            /\ swap_list' = [swap_list EXCEPT ![t] = <<io.frame>> \o @]
            /\ Unlock
            /\ Goto(t, "user")
            /\ UNCHANGED <<leaf, ref_count, free>>
    /\ UNCHANGED <<mem, disk, next_slot, history>>

----------------------------------------------------------------------------
(* The end of an address space, and the next one.                          *)

\* The history of a page ends with its entry.
Forget(t, va) ==
    /\ value' = [value EXCEPT ![t][va] = Garbage]
    /\ granted' = [granted EXCEPT ![t][va] = {}]
    /\ swappable' = [swappable EXCEPT ![t] = @ \ {va}]

\* free_user_pt_subtree() on the next entry: the last reference to a frame
\* unlinks it from the queue and frees it, a swap entry releases its slot.
TearDown(t) ==
    /\ pc[t] = "zombie"
    /\ \E va \in Vas :
        /\ leaf[t][va] # Empty
        /\ \A u \in 1 .. va - 1 : leaf[t][u] = Empty
        /\ leaf' = [leaf EXCEPT ![t][va] = Empty]
        /\ Forget(t, va)
        /\ IF leaf[t][va].kind = "swap"
           THEN /\ release_entry(leaf[t][va].slot)
                /\ UNCHANGED <<free, ref_count, swap_list>>
           ELSE LET f == leaf[t][va].frame
                    left == IF ref_count[f] > 0 THEN ref_count[f] - 1 ELSE 0
                IN /\ ref_count' = [ref_count EXCEPT ![f] = left]
                   /\ IF left = 0
                      THEN /\ swap_list' = [swap_list EXCEPT ![t] = Unlinked(@, f)]
                           /\ free' = free \cup {f}
                      ELSE UNCHANGED <<swap_list, free>>
                   /\ UNCHANGED occupied
    /\ UNCHANGED <<mem, disk, next_slot, lockVars, pc>>

\* The tables are gone; exec() makes a new address space.
Renew(t) ==
    /\ pc[t] = "zombie"
    /\ \A va \in Vas : leaf[t][va] = Empty
    /\ Goto(t, "user")
    /\ swap_list' = [swap_list EXCEPT ![t] = <<>>]
    /\ UNCHANGED <<leaf, frameVars, disk, slotVars, lockVars, history>>

----------------------------------------------------------------------------
UserStep(t) ==
    \/ \E va \in Vas, v \in Values : Store(t, va, v) \/ \E perm \in Perms : MapPage(t, va, perm, v)
    \/ \E va \in Vas, access \in {{}, {"write"}, {"execute"}} : PageFault(t, va, access)
    \/ \E va \in Vas : MapSwappable(t, va) \/ InFails(t, va)
    \/ \E count \in 1 .. MaxOut : OutBegin(t, count)
    \/ Exit(t)

\* The steps of a call that holds io_lock_.
IoStep(t) ==
    \/ InRead(t) \/ InReadFails(t) \/ InMap(t)
    \/ OutEnd(t) \/ OutPick(t) \/ OutPickFails(t) \/ OutWrite(t) \/ OutWriteFails(t) \/ OutCommit(t)

SwapNext == \E t \in Tasks : UserStep(t) \/ IoStep(t) \/ TearDown(t) \/ Renew(t)

SwapSpec == SwapInit /\ [][SwapNext]_swapVars

\* Disk requests complete or fail, and the task that waits for one runs again.
SwapFairSpec == SwapSpec /\ \A t \in Tasks : WF_swapVars(IoStep(t))

----------------------------------------------------------------------------
InFlightOut == io_lock # None /\ pc[io_lock] \in {"writing", "written"}
InFlightIn == io_lock # None /\ pc[io_lock] \in {"reading", "read"}

\* Swapping is invisible: whatever the task last stored in a page is in its
\* frame, or in its slot when the page is out, through failed transfers and the
\* calls of other tasks, and the page keeps the rights it was mapped with
\* (swap::in, swap::out, release_entry).
PageIntact ==
    \A t \in Tasks, va \in Vas :
        /\ leaf[t][va].kind = "page" => mem[leaf[t][va].frame] = value[t][va]
        /\ leaf[t][va].kind = "swap" => disk[leaf[t][va].slot] = value[t][va]
        /\ leaf[t][va] # Empty => leaf[t][va].perm = granted[t][va]

\* A slot is marked occupied exactly while one entry refers to it or a page is
\* being written to it: none leaks and none is given out twice
\* (State::reserve_slot, release_entry).
SlotsExact ==
    LET out == {p \in Tasks \X Vas : leaf[p[1]][p[2]].kind = "swap"}
        slot(p) == leaf[p[1]][p[2]].slot
    IN /\ \A p, q \in out : slot(p) = slot(q) => p = q
       /\ InFlightOut => \A p \in out : slot(p) # io.slot
       /\ occupied = {slot(p) : p \in out} \cup (IF InFlightOut THEN {io.slot} ELSE {})

\* A frame is free, mapped at one place with one reference, or being filled by
\* swap::in(), and never two of these (Page::ref_count).
FramesExact ==
    LET in == {p \in Tasks \X Vas : leaf[p[1]][p[2]].kind = "page"}
        frame(p) == leaf[p[1]][p[2]].frame
        filling == IF InFlightIn THEN {io.frame} ELSE {}
    IN /\ \A p, q \in in : frame(p) = frame(q) => p = q
       /\ free = Frames \ ({frame(p) : p \in in} \cup filling)
       /\ \A p \in in : frame(p) \notin filling
       /\ \A f \in Frames : ref_count[f] = IF \E p \in in : frame(p) = f THEN 1 ELSE 0

\* A resident page that map_swappable() was given is in the replacement queue of
\* its address space once, unless it is the page being written out, and nothing
\* else is.  It stays so when it went out and came in again, and after failures:
\* no page becomes unevictable, and the node of a page, which also links free
\* runs, is never in two lists (map_swappable, swap_list).
QueueExact ==
    \A t \in Tasks :
        LET victim == IF io_lock = t /\ InFlightOut THEN {io.frame} ELSE {}
            pages == {va \in swappable[t] : leaf[t][va].kind = "page"}
        IN /\ Elems(swap_list[t]) = {leaf[t][va].frame : va \in pages} \ victim
           /\ Distinct(swap_list[t])

\* Frames, slots and replacement queues are exact together, after any failure
\* and any order of calls and teardowns (swap::in, swap::out, release_entry).
SwapExact == SlotsExact /\ FramesExact /\ QueueExact

\* swap::in() and swap::out() always give io_lock_ back, whatever fails.
LockReleased == io_lock # None ~> io_lock = None
=============================================================================
