---------------------------- MODULE MemoryProofs ----------------------------
(***************************************************************************)
(* Proofs about modules Swap and PageAllocator.  For any tasks, pages,     *)
(* frames and slots, no page is lost or mixed up in swapping, and frames,  *)
(* slots and queues stay exact.  For any boot map and sizes, the free list *)
(* of the page allocator is exact and merged, and the allocator implements *)
(* the abstract one of module PagePool.                                    *)
(***************************************************************************)
EXTENDS Swap, PageAllocator, FiniteSetTheorems, TLAPS

(***************************************************************************)
(* Swapping                                                                *)
(***************************************************************************)

IoPlaces == {"reading", "read", "picking", "writing", "written"}

SwapTypeOK ==
  /\ leaf \in [Tasks -> [Vas -> Entries]]
  /\ mem \in [Frames -> Contents]
  /\ free \in SUBSET Frames
  /\ ref_count \in [Frames -> Nat]
  /\ disk \in [Slots -> Contents]
  /\ occupied \in SUBSET Slots
  /\ next_slot \in Slots
  /\ swap_list \in [Tasks -> Seq(Frames)]
  /\ io_lock \in Tasks \cup {None}
  /\ io \in [frame : Frames \cup {None}, va : Nat, slot : Nat, left : Nat]
  /\ pc \in [Tasks -> {"user", "zombie"} \cup IoPlaces]
  /\ value \in [Tasks -> [Vas -> Contents]]
  /\ granted \in [Tasks -> [Vas -> PageRights]]
  /\ swappable \in [Tasks -> SUBSET Vas]

\* Whoever is in swap::in() or out() holds io_lock_, and nobody else does.
LockHeld == \A t \in Tasks : pc[t] \in IoPlaces <=> io_lock = t

SwappedAt(t, s, va) == leaf[t][va].kind = "swap" /\ leaf[t][va].slot = s

\* The slot being written, the frame being filled, and the page of a task
\* that is being written.
OutSlots == IF InFlightOut THEN {io.slot} ELSE {}
Filling == IF InFlightIn THEN {io.frame} ELSE {}
Leaving(t) == IF io_lock = t /\ InFlightOut THEN {io.frame} ELSE {}

SlotsOK ==
  /\ \A t, u \in Tasks, a, b \in Vas, s \in Slots :
       SwappedAt(t, s, a) /\ SwappedAt(u, s, b) => t = u /\ a = b
  /\ \A t \in Tasks, a \in Vas, s \in Slots : SwappedAt(t, s, a) => s \in occupied \ OutSlots
  /\ \A s \in occupied : s \in OutSlots \/ \E t \in Tasks, a \in Vas : SwappedAt(t, s, a)
  /\ OutSlots \subseteq occupied

FramesOK ==
  /\ \A t, u \in Tasks, a, b \in Vas, f \in Frames :
       MappedAt(t, f, a) /\ MappedAt(u, f, b) => t = u /\ a = b
  /\ \A t \in Tasks, a \in Vas, f \in Frames :
       MappedAt(t, f, a) => f \notin free \cup Filling /\ ref_count[f] = 1
  /\ \A f \in Frames : \/ f \in free \cup Filling /\ ref_count[f] = 0
                       \/ \E t \in Tasks, a \in Vas : MappedAt(t, f, a)
  /\ free \cap Filling = {}

\* A page that map_swappable() was given.
Queued(t, f, va) == MappedAt(t, f, va) /\ va \in swappable[t]

QueuesOK ==
  \A t \in Tasks :
    /\ Distinct(swap_list[t])
    /\ \A f \in Frames : f \in Elems(swap_list[t]) <=>
                           (\E a \in Vas : Queued(t, f, a)) /\ f \notin Leaving(t)

\* What is out, or on its way out, came from the queue and goes back to it.
SwappableOK ==
  \A t \in Tasks, a \in Vas :
    /\ leaf[t][a] = Empty => a \notin swappable[t]
    /\ \A s \in Slots : SwappedAt(t, s, a) => a \in swappable[t]
    /\ \A f \in Frames : f \in Leaving(t) /\ MappedAt(t, f, a) => a \in swappable[t]

\* The call under io_lock_ still finds the entry it set out from.
CallOK ==
  /\ InFlightIn => /\ io.frame \in Frames /\ io.va \in Vas /\ io.slot \in Slots
                   /\ SwappedAt(io_lock, io.slot, io.va)
  /\ InFlightOut => /\ io.frame \in Frames /\ io.va \in Vas /\ io.slot \in Slots
                    /\ MappedAt(io_lock, io.frame, io.va) /\ io.left > 0
  /\ io_lock # None /\ pc[io_lock] \in {"read", "written"} => mem[io.frame] = disk[io.slot]

ContentsOK ==
  \A t \in Tasks, a \in Vas :
    /\ \A f \in Frames : MappedAt(t, f, a) => mem[f] = value[t][a]
    /\ \A s \in Slots : SwappedAt(t, s, a) => disk[s] = value[t][a]
    /\ leaf[t][a] # Empty => leaf[t][a].perm = granted[t][a]

SwapIInv == SwapTypeOK /\ LockHeld /\ SlotsOK /\ FramesOK /\ QueuesOK /\ SwappableOK /\ CallOK
              /\ ContentsOK
(***************************************************************************)
(* The replacement queue                                                   *)
(***************************************************************************)

\* map_swappable() of a page that is not queued.
LEMMA AppendDistinct ==
  ASSUME NEW s \in Seq(Frames), NEW f \in Frames, Distinct(s), f \notin Elems(s)
  PROVE  /\ Append(s, f) \in Seq(Frames) /\ Distinct(Append(s, f))
         /\ Elems(Append(s, f)) = Elems(s) \cup {f}
<1> DEFINE r == Append(s, f)
<1>1. /\ r \in Seq(Frames) /\ Len(s) \in Nat /\ Len(r) = Len(s) + 1 /\ r[Len(s) + 1] = f
      /\ \A i \in 1 .. Len(s) : r[i] = s[i]
  OBVIOUS
<1> HIDE DEF r
<1>2. \A i \in 1 .. Len(r) : i \in 1 .. Len(s) \/ i = Len(s) + 1
  BY <1>1
<1>3. Elems(r) = Elems(s) \cup {f}
  BY <1>1, <1>2 DEF Elems
<1>4. Distinct(r)
  BY <1>1, <1>2, Zenon DEF Elems, Distinct
<1> QED BY <1>1, <1>3, <1>4, Zenon DEF r

\* A victim that is put back, or was never taken off: it becomes the oldest page.
LEMMA FrontDistinct ==
  ASSUME NEW s \in Seq(Frames), NEW f \in Frames, Distinct(s), f \notin Elems(s)
  PROVE  /\ <<f>> \o s \in Seq(Frames) /\ Distinct(<<f>> \o s)
         /\ Elems(<<f>> \o s) = Elems(s) \cup {f}
<1> DEFINE r == <<f>> \o s
<1>1. /\ r \in Seq(Frames) /\ Len(s) \in Nat /\ Len(r) = Len(s) + 1 /\ r[1] = f
      /\ \A i \in 1 .. Len(r) : i # 1 => r[i] = s[i - 1]
  <2>1. <<f>> \in Seq(Frames) /\ Len(<<f>>) = 1 /\ <<f>>[1] = f
    OBVIOUS
  <2> QED BY <2>1
<1> HIDE DEF r
<1>2. \A i \in 1 .. Len(r) : i = 1 \/ (i - 1 \in 1 .. Len(s) /\ r[i] = s[i - 1])
  BY <1>1
<1>3. \A i \in 1 .. Len(s) : i + 1 \in 1 .. Len(r) /\ r[i + 1] = s[i]
  <2> TAKE i \in 1 .. Len(s)
  <2>1. i + 1 \in 1 .. Len(r) /\ i + 1 # 1 /\ (i + 1) - 1 = i
    BY <1>1
  <2> QED BY <1>1, <2>1, Zenon
<1>4. 1 \in 1 .. Len(r)
  BY <1>1
<1>5. Elems(r) = Elems(s) \cup {f}
  <2>1. ASSUME NEW x \in Elems(r) PROVE x \in Elems(s) \cup {f}
    BY <1>1, <1>2, <2>1 DEF Elems
  <2>2. ASSUME NEW x \in Elems(s) PROVE x \in Elems(r)
    BY <1>3, <2>2, Zenon DEF Elems
  <2>3. f \in Elems(r)
    BY <1>1, <1>4, Zenon DEF Elems
  <2> QED BY <2>1, <2>2, <2>3, Zenon
<1>6. Distinct(r)
  <2> SUFFICES ASSUME NEW i \in 1 .. Len(r), NEW j \in 1 .. Len(r), r[i] = r[j] PROVE i = j
    BY Zenon DEF Distinct
  <2>1. i = 1 <=> j = 1
    BY <1>1, <1>2, Zenon DEF Elems
  <2>2. CASE i # 1
    <3>1. i - 1 \in 1 .. Len(s) /\ j - 1 \in 1 .. Len(s) /\ s[i - 1] = s[j - 1]
      BY <1>2, <2>1, <2>2, Zenon
    <3>2. i - 1 = j - 1
      BY <3>1, Zenon DEF Distinct
    <3> QED BY <1>1, <3>2
  <2> QED BY <2>1, <2>2, Zenon
<1> QED BY <1>1, <1>5, <1>6, Zenon DEF r

\* swap_out_victim() takes the oldest page off.
LEMMA TailDistinct ==
  ASSUME NEW s \in Seq(Frames), Distinct(s), s # <<>>
  PROVE  /\ Tail(s) \in Seq(Frames) /\ Distinct(Tail(s)) /\ Head(s) \in Elems(s)
         /\ Elems(Tail(s)) = Elems(s) \ {Head(s)}
<1> DEFINE r == Tail(s)
<1>1. /\ r \in Seq(Frames) /\ Len(s) \in Nat /\ Len(s) > 0 /\ Len(r) = Len(s) - 1 /\ Head(s) = s[1]
      /\ \A i \in 1 .. Len(r) : r[i] = s[i + 1]
  OBVIOUS
<1> HIDE DEF r
<1>2. 1 \in 1 .. Len(s) /\ \A i \in 1 .. Len(r) : i + 1 \in 1 .. Len(s) /\ i + 1 # 1
  BY <1>1
<1>3. \A i \in 1 .. Len(s) : i # 1 => i - 1 \in 1 .. Len(r) /\ r[i - 1] = s[i]
  <2> SUFFICES ASSUME NEW i \in 1 .. Len(s), i # 1 PROVE i - 1 \in 1 .. Len(r) /\ r[i - 1] = s[i]
    BY Zenon
  <2>1. i - 1 \in 1 .. Len(r) /\ (i - 1) + 1 = i
    BY <1>1
  <2> QED BY <1>1, <2>1, Zenon
<1>4. Elems(r) = Elems(s) \ {Head(s)}
  <2>1. ASSUME NEW x \in Elems(r) PROVE x \in Elems(s) /\ x # Head(s)
    <3>1. PICK i \in 1 .. Len(r) : x = r[i]
      BY Zenon DEF Elems
    <3> QED BY <1>1, <1>2, <3>1, Zenon DEF Elems, Distinct
  <2>2. ASSUME NEW x \in Elems(s), x # Head(s) PROVE x \in Elems(r)
    BY <1>1, <1>3, <2>2 DEF Elems
  <2> QED BY <2>1, <2>2, Zenon
<1>5. Distinct(r)
  <2> SUFFICES ASSUME NEW i \in 1 .. Len(r), NEW j \in 1 .. Len(r), r[i] = r[j] PROVE i = j
    BY Zenon DEF Distinct
  <2>1. i + 1 = j + 1
    BY <1>1, <1>2, Zenon DEF Distinct
  <2> QED BY <1>1, <2>1
<1>6. Head(s) \in Elems(s)
  BY <1>1, <1>2, Zenon DEF Elems
<1> QED BY <1>1, <1>4, <1>5, <1>6, Zenon DEF r

\* unlink() takes one page out and keeps the order of the others.
LEMMA UnlinkedDistinct ==
  ASSUME NEW s \in Seq(Frames), NEW f \in Frames, Distinct(s)
  PROVE  /\ Unlinked(s, f) \in Seq(Frames) /\ Distinct(Unlinked(s, f))
         /\ Elems(Unlinked(s, f)) = Elems(s) \ {f}
<1>1. CASE f \notin Elems(s)
  BY <1>1, Zenon DEF Unlinked
<1>2. CASE f \in Elems(s)
  <2> DEFINE at == CHOOSE i \in 1 .. Len(s) : s[i] = f
             r == [i \in 1 .. Len(s) - 1 |-> IF i < at THEN s[i] ELSE s[i + 1]]
  <2>1. at \in 1 .. Len(s) /\ s[at] = f
    BY <1>2, Zenon DEF Elems
  <2>2. Unlinked(s, f) = r
    BY <1>2, Zenon DEF Unlinked
  <2> HIDE DEF at
  <2>3. Len(s) \in Nat /\ Len(s) - 1 \in Nat /\ \A i \in 1 .. Len(s) : s[i] \in Frames
    BY <2>1
  <2>4. r \in Seq(Frames) /\ Len(r) = Len(s) - 1
    <3>1. ASSUME NEW i \in 1 .. Len(s) - 1 PROVE (IF i < at THEN s[i] ELSE s[i + 1]) \in Frames
      <4>1. i \in 1 .. Len(s) /\ i + 1 \in 1 .. Len(s)
        BY <2>3
      <4> QED BY <2>3, <4>1, Zenon
    <3>2. r \in [1 .. Len(s) - 1 -> Frames]
      BY <3>1, Zenon
    <3> QED BY <2>3, <3>2
  <2>5. \A i \in 1 .. Len(r) : r[i] = IF i < at THEN s[i] ELSE s[i + 1]
    BY <2>4, Zenon
  <2> HIDE DEF r
  <2> DEFINE from(i) == IF i < at THEN i ELSE i + 1
             to(i) == IF i < at THEN i ELSE i - 1
  <2>6. \A i \in 1 .. Len(r) : from(i) \in 1 .. Len(s) /\ from(i) # at /\ r[i] = s[from(i)]
    BY <2>1, <2>3, <2>4, <2>5
  <2>7. \A i \in 1 .. Len(s) : i # at => to(i) \in 1 .. Len(r) /\ r[to(i)] = s[i]
    <3> SUFFICES ASSUME NEW i \in 1 .. Len(s), i # at PROVE to(i) \in 1 .. Len(r) /\ r[to(i)] = s[i]
      BY Zenon
    <3>1. to(i) \in 1 .. Len(r) /\ (to(i) < at <=> i < at) /\ (i < at \/ to(i) + 1 = i)
      BY <2>1, <2>3, <2>4
    <3> QED BY <2>5, <3>1, Zenon
  <2>8. Elems(r) = Elems(s) \ {f}
    <3> HIDE DEF from, to
    <3>1. ASSUME NEW x \in Elems(r) PROVE x \in Elems(s) /\ x # f
      <4>1. PICK i \in 1 .. Len(r) : x = r[i]
        BY Zenon DEF Elems
      <4> QED BY <2>1, <2>6, <4>1, Zenon DEF Elems, Distinct
    <3>2. ASSUME NEW x \in Elems(s), x # f PROVE x \in Elems(r)
      <4>1. PICK i \in 1 .. Len(s) : x = s[i]
        BY Zenon DEF Elems
      <4> QED BY <2>1, <2>7, <3>2, <4>1, Zenon DEF Elems
    <3> QED BY <3>1, <3>2, Zenon
  <2>9. Distinct(r)
    <3> SUFFICES ASSUME NEW i \in 1 .. Len(r), NEW j \in 1 .. Len(r), r[i] = r[j] PROVE i = j
      BY Zenon DEF Distinct
    <3>1. from(i) = from(j)
      <4> HIDE DEF from
      <4> QED BY <2>6, Zenon DEF Distinct
    <3> QED BY <2>1, <2>3, <2>4, <3>1
  <2> QED BY <2>2, <2>4, <2>8, <2>9, Zenon
<1> QED BY <1>1, <1>2, Zenon

(***************************************************************************)
(* Entries, and who is under io_lock_                                      *)
(***************************************************************************)

LEMMA EntryForms ==
  /\ Empty \in Entries /\ Empty.kind = "empty"
  /\ \A f \in Frames, p \in Perms :
       Resident(f, p) \in Entries /\ Resident(f, p).kind = "page"
       /\ Resident(f, p).frame = f /\ Resident(f, p).perm = p
  /\ \A s \in Slots, p \in Perms :
       Swapped(s, p) \in Entries /\ Swapped(s, p).kind = "swap"
       /\ Swapped(s, p).slot = s /\ Swapped(s, p).perm = p
<1>1. Empty \in Entries
  BY DEF Entries
<1>2. ASSUME NEW f \in Frames, NEW p \in Perms PROVE Resident(f, p) \in Entries
  BY DEF Entries
<1>3. ASSUME NEW s \in Slots, NEW p \in Perms PROVE Swapped(s, p) \in Entries
  BY DEF Entries
<1>4. Empty.kind = "empty"
  BY Zenon DEF Empty
<1>5. \A f, p : Resident(f, p).kind = "page" /\ Resident(f, p).frame = f /\ Resident(f, p).perm = p
  BY Zenon DEF Resident
<1>6. \A s, p : Swapped(s, p).kind = "swap" /\ Swapped(s, p).slot = s /\ Swapped(s, p).perm = p
  BY Zenon DEF Swapped
<1> QED BY <1>1, <1>2, <1>3, <1>4, <1>5, <1>6

LEMMA EntryFields ==
  ASSUME NEW e \in Entries
  PROVE  \/ e.kind = "page" /\ e.frame \in Frames /\ e.perm \in Perms /\ e # Empty
         \/ e.kind = "swap" /\ e.slot \in Slots /\ e.perm \in Perms /\ e # Empty
         \/ e = Empty /\ e.kind = "empty"
BY DEF Entries, Empty, Resident, Swapped

LEMMA LeafAt ==
  ASSUME SwapTypeOK, NEW t \in Tasks, NEW va \in Vas, NEW e \in Entries,
         leaf' = [leaf EXCEPT ![t][va] = e]
  PROVE  /\ leaf' \in [Tasks -> [Vas -> Entries]]
         /\ \A u \in Tasks, b \in Vas : leaf'[u][b] = IF u = t /\ b = va THEN e ELSE leaf[u][b]
BY Zenon DEF SwapTypeOK

LEMMA HistoryAt ==
  ASSUME SwapTypeOK, NEW t \in Tasks, NEW va \in Vas, NEW v \in Contents,
         value' = [value EXCEPT ![t][va] = v]
  PROVE  /\ value' \in [Tasks -> [Vas -> Contents]]
         /\ \A u \in Tasks, b \in Vas : value'[u][b] = IF u = t /\ b = va THEN v ELSE value[u][b]
BY Zenon DEF SwapTypeOK

LEMMA GrantedAt ==
  ASSUME SwapTypeOK, NEW t \in Tasks, NEW va \in Vas, NEW p \in PageRights,
         granted' = [granted EXCEPT ![t][va] = p]
  PROVE  /\ granted' \in [Tasks -> [Vas -> PageRights]]
         /\ \A u \in Tasks, b \in Vas : granted'[u][b] = IF u = t /\ b = va THEN p ELSE granted[u][b]
BY Zenon DEF SwapTypeOK

\* The caller of swap::in() or out() is the one the lock names.
LEMMA Holder ==
  ASSUME SwapTypeOK, LockHeld, NEW t \in Tasks, pc[t] \in IoPlaces
  PROVE  /\ io_lock = t /\ io_lock # None
         /\ InFlightIn <=> pc[t] \in {"reading", "read"}
         /\ InFlightOut <=> pc[t] \in {"writing", "written"}
         /\ OutSlots = IF pc[t] \in {"writing", "written"} THEN {io.slot} ELSE {}
         /\ Filling = IF pc[t] \in {"reading", "read"} THEN {io.frame} ELSE {}
         /\ \A u \in Tasks : Leaving(u) = IF u = t THEN (IF pc[t] \in {"writing", "written"} THEN {io.frame} ELSE {}) ELSE {}
<1>1. io_lock = t /\ t # None
  BY NoneAssumption, Zenon DEF LockHeld
<1> QED BY <1>1, Zenon DEF InFlightIn, InFlightOut, OutSlots, Filling, Leaving

\* The same after a step.
LEMMA HolderNext ==
  ASSUME NEW t \in Tasks, NEW l, io_lock' = t, pc'[t] = l
  PROVE  /\ io_lock' # None
         /\ InFlightIn' <=> l \in {"reading", "read"}
         /\ InFlightOut' <=> l \in {"writing", "written"}
         /\ OutSlots' = IF l \in {"writing", "written"} THEN {io'.slot} ELSE {}
         /\ Filling' = IF l \in {"reading", "read"} THEN {io'.frame} ELSE {}
         /\ \A u \in Tasks : Leaving(u)' = IF u = t THEN (IF l \in {"writing", "written"} THEN {io'.frame} ELSE {}) ELSE {}
<1>1. t # None
  BY NoneAssumption, Zenon
<1> QED BY <1>1, Zenon DEF InFlightIn, InFlightOut, OutSlots, Filling, Leaving

LEMMA NobodyUnderLock ==
  ASSUME io_lock = None
  PROVE  /\ ~InFlightIn /\ ~InFlightOut /\ OutSlots = {} /\ Filling = {}
         /\ \A u \in Tasks : Leaving(u) = {}
BY Zenon DEF InFlightIn, InFlightOut, OutSlots, Filling, Leaving

LEMMA NobodyUnderLockNext ==
  ASSUME io_lock' = None
  PROVE  /\ ~InFlightIn' /\ ~InFlightOut' /\ OutSlots' = {} /\ Filling' = {}
         /\ \A u \in Tasks : Leaving(u)' = {}
BY Zenon DEF InFlightIn, InFlightOut, OutSlots, Filling, Leaving

\* A task outside swap::in() and out() does not disturb the call under the lock.
LEMMA OthersKeepLock ==
  ASSUME SwapTypeOK, LockHeld, NEW t \in Tasks, pc[t] \notin IoPlaces, UNCHANGED lockVars,
         pc' = pc \/ \E l \in {"user", "zombie"} : Goto(t, l)
  PROVE  /\ pc' \in [Tasks -> {"user", "zombie"} \cup IoPlaces]
         /\ LockHeld' /\ io_lock # t /\ io' = io /\ io_lock' = io_lock
         /\ InFlightIn' = InFlightIn /\ InFlightOut' = InFlightOut
         /\ OutSlots' = OutSlots /\ Filling' = Filling
         /\ \A u \in Tasks : Leaving(u)' = Leaving(u)
         /\ io_lock # None => pc'[io_lock] = pc[io_lock]
<1>1. io_lock' = io_lock /\ io' = io /\ io_lock # t
  BY Zenon DEF lockVars, LockHeld
<1>2. /\ pc' \in [Tasks -> {"user", "zombie"} \cup IoPlaces]
      /\ \A u \in Tasks : u # t => pc'[u] = pc[u]
      /\ pc'[t] \notin IoPlaces
  BY Zenon DEF SwapTypeOK, Goto, IoPlaces
<1>3. LockHeld'
  BY <1>1, <1>2, Zenon DEF LockHeld
<1>4. io_lock # None => pc'[io_lock] = pc[io_lock]
  BY <1>1, <1>2, Zenon DEF SwapTypeOK
<1>5. InFlightIn' = InFlightIn /\ InFlightOut' = InFlightOut
  BY <1>1, <1>4, Zenon DEF InFlightIn, InFlightOut
<1> QED BY <1>1, <1>2, <1>3, <1>4, <1>5, Zenon DEF OutSlots, Filling, Leaving

(***************************************************************************)
(* Steps outside swap::in() and out()                                      *)
(***************************************************************************)

\* What the call under the lock rests on is not touched by the others.
LEMMA CallKept ==
  ASSUME CallOK, io' = io, io_lock' = io_lock,
         io_lock # None => pc'[io_lock] = pc[io_lock],
         \A b \in Vas : io_lock # None => leaf'[io_lock][b] = leaf[io_lock][b],
         InFlightIn \/ InFlightOut => mem'[io.frame] = mem[io.frame] /\ disk'[io.slot] = disk[io.slot]
  PROVE  CallOK'
<1>1. InFlightIn' = InFlightIn /\ InFlightOut' = InFlightOut
  BY Zenon DEF InFlightIn, InFlightOut
<1>2. InFlightIn => /\ io.frame \in Frames /\ io.va \in Vas /\ io.slot \in Slots
                    /\ SwappedAt(io_lock, io.slot, io.va)'
  BY Zenon DEF CallOK, SwappedAt, InFlightIn
<1>3. InFlightOut => /\ io.frame \in Frames /\ io.va \in Vas /\ io.slot \in Slots
                     /\ MappedAt(io_lock, io.frame, io.va)' /\ io.left > 0
  BY Zenon DEF CallOK, MappedAt, InFlightOut
<1>4. io_lock # None /\ pc[io_lock] \in {"read", "written"} => mem'[io.frame] = disk'[io.slot]
  BY Zenon DEF CallOK, InFlightIn, InFlightOut
<1> QED BY <1>1, <1>2, <1>3, <1>4, Zenon DEF CallOK

\* alloc_and_map_page() takes a frame nobody has, for a page in no queue.
LEMMA MapPageInv ==
  ASSUME SwapIInv, NEW t \in Tasks, NEW va \in Vas, NEW perm \in Perms, NEW v \in Values,
         MapPage(t, va, perm, v)
  PROVE  SwapIInv'
<1> USE DEF SwapIInv
<1>1. PICK f \in free :
        /\ free' = free \ {f}
        /\ mem' = [mem EXCEPT ![f] = v]
        /\ ref_count' = [ref_count EXCEPT ![f] = @ + 1]
        /\ leaf' = [leaf EXCEPT ![t][va] = Resident(f, perm)]
  BY Zenon DEF MapPage
<1>2. f \in Frames /\ perm \in PageRights /\ v \in Contents
  BY PermsAssumption, Zenon DEF SwapTypeOK, Contents
<1>3. /\ leaf[t][va] = Empty /\ pc' = pc /\ UNCHANGED lockVars /\ pc[t] \notin IoPlaces
      /\ disk' = disk /\ occupied' = occupied /\ next_slot' = next_slot
      /\ swap_list' = swap_list /\ swappable' = swappable
  BY Zenon DEF MapPage, slotVars, IoPlaces
<1>4. /\ LockHeld' /\ io_lock # t /\ io' = io /\ io_lock' = io_lock
      /\ InFlightIn' = InFlightIn /\ InFlightOut' = InFlightOut
      /\ OutSlots' = OutSlots /\ Filling' = Filling
      /\ \A u \in Tasks : Leaving(u)' = Leaving(u)
      /\ io_lock # None => pc'[io_lock] = pc[io_lock]
  BY <1>3, OthersKeepLock, Zenon
<1>5. /\ leaf' \in [Tasks -> [Vas -> Entries]]
      /\ \A u \in Tasks, b \in Vas :
           leaf'[u][b] = IF u = t /\ b = va THEN Resident(f, perm) ELSE leaf[u][b]
  <2>1. Resident(f, perm) \in Entries
    BY <1>2, EntryForms, Zenon
  <2> QED BY <1>1, <2>1, LeafAt, Zenon
<1>6. /\ value' \in [Tasks -> [Vas -> Contents]]
      /\ \A u \in Tasks, b \in Vas : value'[u][b] = IF u = t /\ b = va THEN v ELSE value[u][b]
  BY <1>2, HistoryAt, Zenon DEF MapPage
<1>7. /\ granted' \in [Tasks -> [Vas -> PageRights]]
      /\ \A u \in Tasks, b \in Vas : granted'[u][b] = IF u = t /\ b = va THEN perm ELSE granted[u][b]
  BY <1>2, GrantedAt, Zenon DEF MapPage
<1>8. /\ Resident(f, perm).kind = "page" /\ Resident(f, perm).frame = f /\ Resident(f, perm).perm = perm
      /\ leaf[t][va].kind = "empty"
  BY <1>2, <1>3, EntryForms
<1>9. \A u \in Tasks, b \in Vas, g \in Frames :
        MappedAt(u, g, b)' <=> MappedAt(u, g, b) \/ (u = t /\ b = va /\ g = f)
  BY <1>5, <1>8, Zenon DEF MappedAt
<1>10. \A u \in Tasks, b \in Vas, s \in Slots : SwappedAt(u, s, b)' <=> SwappedAt(u, s, b)
  BY <1>5, <1>8, Zenon DEF SwappedAt
<1>11. /\ f \notin Filling /\ ref_count[f] = 0
       /\ \A u \in Tasks, b \in Vas : ~MappedAt(u, f, b)
  BY <1>2, Zenon DEF FramesOK
<1>12. SwapTypeOK'
  BY <1>1, <1>2, <1>3, <1>4, <1>5, <1>6, <1>7 DEF SwapTypeOK
<1>13. SlotsOK'
  BY <1>3, <1>4, <1>10, <1>12 DEF SlotsOK, SwapTypeOK
<1>14. FramesOK'
  <2>1. \A g \in Frames : ref_count'[g] = IF g = f THEN 1 ELSE ref_count[g]
    BY <1>1, <1>2, <1>11 DEF SwapTypeOK
  <2> QED BY <1>1, <1>4, <1>9, <1>11, <2>1 DEF FramesOK
<1>15. QueuesOK' /\ SwappableOK'
  <2>1. va \notin swappable[t]
    BY <1>3, Zenon DEF SwappableOK
  <2>2. \A u \in Tasks, b \in Vas, g \in Frames : Queued(u, g, b)' <=> Queued(u, g, b)
    BY <1>3, <1>9, <2>1, Zenon DEF Queued
  <2>3. Leaving(t) = {}
    BY <1>4, Zenon DEF Leaving
  <2>4. Resident(f, perm) # Empty
    BY <1>2, <1>3, <1>8, Zenon
  <2>5. QueuesOK'
    BY <1>3, <1>4, <2>2, Zenon DEF QueuesOK
  <2>6. SwappableOK'
    <3>1. ASSUME NEW u \in Tasks, NEW a \in Vas, leaf'[u][a] = Empty PROVE a \notin swappable'[u]
      BY <3>1, <1>3, <1>5, <2>4, Zenon DEF SwappableOK
    <3>2. ASSUME NEW u \in Tasks, NEW a \in Vas, NEW r \in Slots, SwappedAt(u, r, a)' PROVE a \in swappable'[u]
      BY <3>2, <1>3, <1>10, Zenon DEF SwappableOK
    <3>3. ASSUME NEW u \in Tasks, NEW a \in Vas, NEW g \in Frames, g \in Leaving(u)', MappedAt(u, g, a)'
         PROVE  a \in swappable'[u]
      <4>1. g \in Leaving(u)
        BY <1>4, <3>3, Zenon
      <4>2. MappedAt(u, g, a)
        BY <1>9, <2>3, <3>3, <4>1, Zenon
      <4> QED BY <1>3, <4>1, <4>2, Zenon DEF SwappableOK
    <3> QED BY <3>1, <3>2, <3>3, Zenon DEF SwappableOK
  <2> QED BY <2>5, <2>6, Zenon
<1>16. CallOK'
  <2>1. \A g \in Frames : mem'[g] = IF g = f THEN v ELSE mem[g]
    BY <1>1, <1>2, Zenon DEF SwapTypeOK
  <2>2. InFlightIn \/ InFlightOut => io.frame \in Frames /\ io.frame # f
    BY <1>11 DEF CallOK, Filling, InFlightIn, InFlightOut, SwapTypeOK
  <2>3. \A b \in Vas : io_lock # None => leaf'[io_lock][b] = leaf[io_lock][b]
    BY <1>4, <1>5, Zenon DEF SwapTypeOK
  <2> QED BY <1>3, <1>4, <2>1, <2>2, <2>3, CallKept, Zenon
<1>17. ContentsOK'
  <2>1. \A g \in Frames : mem'[g] = IF g = f THEN v ELSE mem[g]
    BY <1>1, <1>2, Zenon DEF SwapTypeOK
  <2>2. \A s \in Slots : ~SwappedAt(t, s, va)
    BY <1>8, Zenon DEF SwappedAt
  <2>3. \A g \in Frames : ~MappedAt(t, g, va)
    BY <1>8, Zenon DEF MappedAt
  <2>4. ASSUME NEW u \in Tasks, NEW b \in Vas, NEW g \in Frames, MappedAt(u, g, b)'
        PROVE  mem'[g] = value'[u][b]
    BY <1>6, <1>9, <1>11, <2>1, <2>3, <2>4 DEF ContentsOK
  <2>5. ASSUME NEW u \in Tasks, NEW b \in Vas, NEW s \in Slots, SwappedAt(u, s, b)'
        PROVE  disk'[s] = value'[u][b]
    BY <1>3, <1>6, <1>10, <2>2, <2>5 DEF ContentsOK
  <2>6. ASSUME NEW u \in Tasks, NEW b \in Vas, leaf'[u][b] # Empty
        PROVE  leaf'[u][b].perm = granted'[u][b]
    BY <1>5, <1>7, <1>8, <2>6 DEF ContentsOK
  <2> QED BY <2>4, <2>5, <2>6, Zenon DEF ContentsOK
<1> QED BY <1>4, <1>12, <1>13, <1>14, <1>15, <1>16, <1>17, Zenon

LEMMA SameLeaf ==
  ASSUME leaf' = leaf
  PROVE  /\ \A u \in Tasks, b \in Vas, g \in Frames : MappedAt(u, g, b)' <=> MappedAt(u, g, b)
         /\ \A u \in Tasks, b \in Vas, s \in Slots : SwappedAt(u, s, b)' <=> SwappedAt(u, s, b)
BY Zenon DEF MappedAt, SwappedAt

\* What a step that changes no entry leaves of the invariant.
LEMMA SlotsKept ==
  ASSUME SlotsOK, leaf' = leaf, occupied' \in SUBSET Slots, OutSlots' \subseteq occupied',
         occupied' \ OutSlots' = occupied \ OutSlots
  PROVE  SlotsOK'
<1>1. PICK o, x, p, y : o = occupied /\ x = OutSlots /\ p = occupied' /\ y = OutSlots'
  BY Zenon
<1>2. p \in SUBSET Slots /\ y \subseteq p /\ p \ y = o \ x
  BY <1>1, Zenon
<1>3. \A t \in Tasks, a \in Vas, s \in Slots : SwappedAt(t, s, a)' => s \in p \ y
  BY <1>1, <1>2, SameLeaf, Zenon DEF SlotsOK
<1>4. ASSUME NEW t \in Tasks, NEW u \in Tasks, NEW a \in Vas, NEW b \in Vas, NEW s \in Slots,
             SwappedAt(t, s, a)', SwappedAt(u, s, b)'
      PROVE  t = u /\ a = b
  <2>1. SwappedAt(t, s, a) /\ SwappedAt(u, s, b)
    BY <1>4, SameLeaf, Zenon
  <2> QED BY <2>1, Zenon DEF SlotsOK
<1>5. ASSUME NEW s \in p, s \notin y PROVE \E t \in Tasks, a \in Vas : SwappedAt(t, s, a)'
  <2>1. s \in o /\ s \notin x /\ s \in Slots
    BY <1>2, <1>5, Zenon
  <2>2. PICK t \in Tasks, a \in Vas : SwappedAt(t, s, a)
    BY <1>1, <2>1, Zenon DEF SlotsOK
  <2> QED BY <2>1, <2>2, SameLeaf, Zenon
<1> QED BY <1>1, <1>2, <1>3, <1>4, <1>5, Zenon DEF SlotsOK

LEMMA FramesKept ==
  ASSUME FramesOK, leaf' = leaf, ref_count' = ref_count, (free \cup Filling)' = free \cup Filling,
         (free \cap Filling)' = {}
  PROVE  FramesOK'
<1>1. PICK r, x, y : r = ref_count /\ x = free \cup Filling /\ y = (free \cup Filling)'
  BY Zenon
<1>2. x = y /\ r = ref_count'
  BY <1>1, Zenon
<1>3. ASSUME NEW t \in Tasks, NEW u \in Tasks, NEW a \in Vas, NEW b \in Vas, NEW f \in Frames,
             MappedAt(t, f, a)', MappedAt(u, f, b)'
      PROVE  t = u /\ a = b
  <2>1. MappedAt(t, f, a) /\ MappedAt(u, f, b)
    BY <1>3, SameLeaf, Zenon
  <2> QED BY <2>1, Zenon DEF FramesOK
<1>4. \A t \in Tasks, a \in Vas, f \in Frames : MappedAt(t, f, a) => f \notin x /\ r[f] = 1
  BY <1>1, Zenon DEF FramesOK
<1>5. \A t \in Tasks, a \in Vas, f \in Frames : MappedAt(t, f, a)' => f \notin x /\ r[f] = 1
  BY <1>4, SameLeaf, Zenon
<1>6. \A f \in Frames : (f \in x /\ r[f] = 0) \/ \E t \in Tasks, a \in Vas : MappedAt(t, f, a)
  BY <1>1, Zenon DEF FramesOK
<1>7. \A f \in Frames : (f \in x /\ r[f] = 0) \/ \E t \in Tasks, a \in Vas : MappedAt(t, f, a)'
  BY <1>6, SameLeaf, Zenon
<1> QED BY <1>1, <1>2, <1>3, <1>5, <1>7, Zenon DEF FramesOK

LEMMA SlotsSame ==
  ASSUME SlotsOK, SwapTypeOK, leaf' = leaf, occupied' = occupied, OutSlots' = OutSlots
  PROVE  SlotsOK'
<1>1. OutSlots \subseteq occupied /\ occupied \in SUBSET Slots
  BY Zenon DEF SlotsOK, SwapTypeOK
<1> QED BY <1>1, SlotsKept, Zenon

LEMMA FramesSame ==
  ASSUME FramesOK, leaf' = leaf, ref_count' = ref_count, free' = free, Filling' = Filling
  PROVE  FramesOK'
<1>1. free \cap Filling = {}
  BY Zenon DEF FramesOK
<1> QED BY <1>1, FramesKept, Zenon

LEMMA QueuesKept ==
  ASSUME QueuesOK, SwappableOK, leaf' = leaf, swap_list' = swap_list, swappable' = swappable,
         \A t \in Tasks : Leaving(t)' = Leaving(t)
  PROVE  QueuesOK' /\ SwappableOK'
<1>1. \A u \in Tasks, b \in Vas, g \in Frames : Queued(u, g, b)' <=> Queued(u, g, b)
  BY SameLeaf, Zenon DEF Queued
<1>2. QueuesOK'
  BY <1>1, Zenon DEF QueuesOK
<1>3. SwappableOK'
  BY SameLeaf, Zenon DEF SwappableOK
<1> QED BY <1>2, <1>3, Zenon

LEMMA ContentsKept ==
  ASSUME ContentsOK, leaf' = leaf, value' = value, granted' = granted,
         \A t \in Tasks, a \in Vas, f \in Frames : MappedAt(t, f, a) => mem'[f] = mem[f],
         \A t \in Tasks, a \in Vas, s \in Slots : SwappedAt(t, s, a) => disk'[s] = disk[s]
  PROVE  ContentsOK'
<1>1. \A t \in Tasks, a \in Vas, f \in Frames : MappedAt(t, f, a)' => mem'[f] = value'[t][a]
  BY SameLeaf, Zenon DEF ContentsOK
<1>2. \A t \in Tasks, a \in Vas, s \in Slots : SwappedAt(t, s, a)' => disk'[s] = value'[t][a]
  BY SameLeaf, Zenon DEF ContentsOK
<1>3. \A t \in Tasks, a \in Vas : leaf'[t][a] # Empty => leaf'[t][a].perm = granted'[t][a]
  BY Zenon DEF ContentsOK
<1> QED BY <1>1, <1>2, <1>3, Zenon DEF ContentsOK

\* A task that ends, or gets a new address space, with nothing else changed.
LEMMA PlaceInv ==
  ASSUME SwapIInv, NEW t \in Tasks, pc[t] \notin IoPlaces, NEW l \in {"user", "zombie"}, Goto(t, l),
         UNCHANGED <<leaf, frameVars, disk, slotVars, swap_list, lockVars, history>>
  PROVE  SwapIInv'
<1> USE DEF SwapIInv
<1>1. /\ pc' \in [Tasks -> {"user", "zombie"} \cup IoPlaces]
      /\ LockHeld' /\ io' = io /\ io_lock' = io_lock
      /\ OutSlots' = OutSlots /\ Filling' = Filling
      /\ \A u \in Tasks : Leaving(u)' = Leaving(u)
      /\ io_lock # None => pc'[io_lock] = pc[io_lock]
  BY OthersKeepLock, Zenon
<1>2. /\ leaf' = leaf /\ mem' = mem /\ free' = free /\ ref_count' = ref_count /\ disk' = disk
      /\ occupied' = occupied /\ next_slot' = next_slot /\ swap_list' = swap_list
      /\ value' = value /\ granted' = granted /\ swappable' = swappable
  BY Zenon DEF frameVars, slotVars, history
<1>3. SwapTypeOK'
  BY <1>1, <1>2, Zenon DEF SwapTypeOK
<1>4. SlotsOK'
  BY <1>1, <1>2, SlotsSame, Zenon
<1>5. FramesOK'
  BY <1>1, <1>2, FramesSame, Zenon
<1>6. QueuesOK' /\ SwappableOK'
  BY <1>1, <1>2, QueuesKept, Zenon
<1>7. CallOK'
  BY <1>1, <1>2, CallKept, Zenon
<1>8. ContentsOK'
  BY <1>2, ContentsKept, Zenon
<1> QED BY <1>1, <1>3, <1>4, <1>5, <1>6, <1>7, <1>8, Zenon

LEMMA ExitInv == ASSUME SwapIInv, NEW t \in Tasks, Exit(t) PROVE SwapIInv'
BY PlaceInv, Zenon DEF Exit, IoPlaces

LEMMA InFailsInv == ASSUME SwapIInv, NEW t \in Tasks, NEW va \in Vas, InFails(t, va) PROVE SwapIInv'
BY PlaceInv, Zenon DEF InFails, IoPlaces

\* A store reaches the frame of one page only.
LEMMA StoreInv ==
  ASSUME SwapIInv, NEW t \in Tasks, NEW va \in Vas, NEW v \in Values, Store(t, va, v)
  PROVE  SwapIInv'
<1> USE DEF SwapIInv
<1> DEFINE f == leaf[t][va].frame
<1>1. MappedAt(t, f, va) /\ f \in Frames /\ v \in Contents
  <2>1. leaf[t][va] \in Entries
    BY DEF SwapTypeOK
  <2> QED BY <2>1, EntryFields, Zenon DEF Store, MappedAt, Contents
<1> HIDE DEF f
<1>2. /\ leaf' = leaf /\ mem' = [mem EXCEPT ![f] = v] /\ free' = free /\ ref_count' = ref_count
      /\ disk' = disk /\ occupied' = occupied /\ next_slot' = next_slot /\ swap_list' = swap_list
      /\ value' = [value EXCEPT ![t][va] = v] /\ granted' = granted /\ swappable' = swappable
      /\ pc' = pc /\ UNCHANGED lockVars /\ pc[t] \notin IoPlaces
  BY Zenon DEF Store, slotVars, f, IoPlaces
<1>3. /\ LockHeld' /\ io_lock # t /\ io' = io /\ io_lock' = io_lock
      /\ OutSlots' = OutSlots /\ Filling' = Filling
      /\ \A u \in Tasks : Leaving(u)' = Leaving(u)
      /\ io_lock # None => pc'[io_lock] = pc[io_lock]
  BY <1>2, OthersKeepLock, Zenon
<1>4. /\ value' \in [Tasks -> [Vas -> Contents]]
      /\ \A u \in Tasks, b \in Vas : value'[u][b] = IF u = t /\ b = va THEN v ELSE value[u][b]
  BY <1>1, <1>2, HistoryAt, Zenon
<1>5. mem' \in [Frames -> Contents] /\ \A g \in Frames : mem'[g] = IF g = f THEN v ELSE mem[g]
  BY <1>1, <1>2, Zenon DEF SwapTypeOK
<1>6. SwapTypeOK'
  BY <1>2, <1>3, <1>4, <1>5, Zenon DEF SwapTypeOK
<1>7. SlotsOK'
  BY <1>2, <1>3, SlotsSame, Zenon
<1>8. FramesOK'
  BY <1>2, <1>3, FramesSame, Zenon
<1>9. QueuesOK' /\ SwappableOK'
  BY <1>2, <1>3, QueuesKept, Zenon
<1>10. CallOK'
  <2>1. InFlightIn => io.frame \in Frames /\ io.frame # f
    BY <1>1 DEF CallOK, FramesOK, Filling
  <2>2. InFlightOut => io.frame \in Frames /\ io.frame # f
    <3> SUFFICES ASSUME InFlightOut PROVE io.frame \in Frames /\ io.frame # f
      BY Zenon
    <3>1. io_lock \in Tasks /\ io.va \in Vas /\ io.frame \in Frames /\ MappedAt(io_lock, io.frame, io.va)
      BY Zenon DEF CallOK, InFlightOut, SwapTypeOK
    <3> QED BY <1>1, <1>3, <3>1 DEF FramesOK
  <2> QED BY <1>2, <1>3, <1>5, <2>1, <2>2, CallKept, Zenon
<1>11. ContentsOK'
  <2>1. ASSUME NEW u \in Tasks, NEW b \in Vas, NEW g \in Frames, MappedAt(u, g, b)
        PROVE  mem'[g] = value'[u][b]
    <3>1. g = f <=> u = t /\ b = va
      BY <1>1, <2>1 DEF FramesOK, MappedAt, f
    <3> QED BY <1>4, <1>5, <2>1, <3>1 DEF ContentsOK
  <2>2. ASSUME NEW u \in Tasks, NEW b \in Vas, NEW s \in Slots, SwappedAt(u, s, b)
        PROVE  disk'[s] = value'[u][b]
    <3>1. ~(u = t /\ b = va)
      BY <1>1, <2>2, Zenon DEF SwappedAt, MappedAt
    <3> QED BY <1>2, <1>4, <2>2, <3>1 DEF ContentsOK
  <2>3. \A u \in Tasks, b \in Vas : leaf'[u][b] # Empty => leaf'[u][b].perm = granted'[u][b]
    BY <1>2, Zenon DEF ContentsOK
  <2> QED BY <1>2, <2>1, <2>2, <2>3, SameLeaf DEF ContentsOK
<1> QED BY <1>3, <1>6, <1>7, <1>8, <1>9, <1>10, <1>11, Zenon

\* map_swappable() queues a resident page of the caller.
LEMMA MapSwappableInv ==
  ASSUME SwapIInv, NEW t \in Tasks, NEW va \in Vas, MapSwappable(t, va)
  PROVE  SwapIInv'
<1> USE DEF SwapIInv
<1> DEFINE f == leaf[t][va].frame
<1>1. MappedAt(t, f, va) /\ f \in Frames /\ leaf[t][va] # Empty
  <2>1. leaf[t][va] \in Entries
    BY DEF SwapTypeOK
  <2> QED BY <2>1, EntryFields, Zenon DEF MapSwappable, MappedAt
<1>2. \A g \in Frames : MappedAt(t, g, va) => g = f
  BY Zenon DEF MappedAt
<1>3. f \notin Elems(swap_list[t]) /\ swap_list' = [swap_list EXCEPT ![t] = Append(@, f)]
  BY Zenon DEF MapSwappable, Enqueue
<1> HIDE DEF f
<1>4. /\ leaf' = leaf /\ mem' = mem /\ free' = free /\ ref_count' = ref_count
      /\ disk' = disk /\ occupied' = occupied /\ next_slot' = next_slot
      /\ value' = value /\ granted' = granted
      /\ swappable' = [swappable EXCEPT ![t] = @ \cup {va}]
      /\ pc' = pc /\ UNCHANGED lockVars /\ pc[t] \notin IoPlaces
  BY Zenon DEF MapSwappable, frameVars, slotVars, IoPlaces
<1>5. /\ LockHeld' /\ io_lock # t /\ io' = io /\ io_lock' = io_lock
      /\ OutSlots' = OutSlots /\ Filling' = Filling
      /\ \A u \in Tasks : Leaving(u)' = Leaving(u)
      /\ io_lock # None => pc'[io_lock] = pc[io_lock]
  BY <1>4, OthersKeepLock, Zenon
<1>6. /\ swappable' \in [Tasks -> SUBSET Vas]
      /\ \A u \in Tasks, b \in Vas : b \in swappable'[u] <=> b \in swappable[u] \/ (u = t /\ b = va)
  BY <1>4 DEF SwapTypeOK
<1>7. swap_list[t] \in Seq(Frames) /\ Distinct(swap_list[t])
  BY Zenon DEF SwapTypeOK, QueuesOK
<1>8. /\ Append(swap_list[t], f) \in Seq(Frames) /\ Distinct(Append(swap_list[t], f))
      /\ Elems(Append(swap_list[t], f)) = Elems(swap_list[t]) \cup {f}
  BY <1>1, <1>3, <1>7, AppendDistinct, Zenon
<1>9. SwapTypeOK'
  BY <1>3, <1>4, <1>5, <1>6, <1>8, Zenon DEF SwapTypeOK
<1>10. SlotsOK'
  BY <1>4, <1>5, SlotsSame, Zenon
<1>11. FramesOK'
  BY <1>4, <1>5, FramesSame, Zenon
<1>12. QueuesOK' /\ SwappableOK'
  <2>1. \A u \in Tasks : swap_list'[u] = IF u = t THEN Append(swap_list[t], f) ELSE swap_list[u]
    BY <1>3, Zenon DEF SwapTypeOK
  <2>2. \A u \in Tasks, b \in Vas, g \in Frames :
          Queued(u, g, b)' <=> Queued(u, g, b) \/ (u = t /\ b = va /\ g = f)
    BY <1>1, <1>2, <1>4, <1>6, SameLeaf, Zenon DEF Queued
  <2>3. Leaving(t) = {}
    BY <1>5, Zenon DEF Leaving
  <2>4. ASSUME NEW u \in Tasks
        PROVE  /\ Distinct(swap_list'[u])
               /\ \A g \in Frames : g \in Elems(swap_list'[u]) <=>
                                      (\E a \in Vas : Queued(u, g, a)') /\ g \notin Leaving(u)
    <3>1. CASE u = t
      <4>1. \A g \in Frames : g \in Elems(swap_list[t]) <=> \E a \in Vas : Queued(t, g, a)
        BY <2>3, Zenon DEF QueuesOK
      <4> QED BY <1>1, <1>8, <2>1, <2>2, <2>3, <3>1, <4>1, Zenon
    <3>2. CASE u # t
      BY <2>1, <2>2, <3>2, Zenon DEF QueuesOK
    <3> QED BY <3>1, <3>2, Zenon
  <2>5. QueuesOK'
    BY <1>5, <2>4, Zenon DEF QueuesOK
  <2>6. SwappableOK'
    <3>1. ASSUME NEW u \in Tasks, NEW a \in Vas, leaf'[u][a] = Empty PROVE a \notin swappable'[u]
      BY <3>1, <1>1, <1>4, <1>6, Zenon DEF SwappableOK
    <3>2. ASSUME NEW u \in Tasks, NEW a \in Vas, NEW r \in Slots, SwappedAt(u, r, a)' PROVE a \in swappable'[u]
      BY <3>2, <1>4, <1>6, SameLeaf, Zenon DEF SwappableOK
    <3>3. ASSUME NEW u \in Tasks, NEW a \in Vas, NEW g \in Frames, g \in Leaving(u)', MappedAt(u, g, a)'
         PROVE  a \in swappable'[u]
      <4>1. g \in Leaving(u) /\ MappedAt(u, g, a)
        BY <1>4, <1>5, <3>3, SameLeaf, Zenon
      <4>2. a \in swappable[u]
        BY <4>1, Zenon DEF SwappableOK
      <4> QED BY <1>6, <4>2, Zenon
    <3> QED BY <3>1, <3>2, <3>3, Zenon DEF SwappableOK
  <2> QED BY <2>5, <2>6, Zenon
<1>13. CallOK'
  BY <1>4, <1>5, CallKept, Zenon
<1>14. ContentsOK'
  BY <1>4, ContentsKept, Zenon
<1> QED BY <1>5, <1>9, <1>10, <1>11, <1>12, <1>13, <1>14, Zenon

\* The queue of an empty address space is empty before exec() resets it.
LEMMA RenewInv == ASSUME SwapIInv, NEW t \in Tasks, Renew(t) PROVE SwapIInv'
<1> USE DEF SwapIInv
<1>1. swap_list[t] \in Seq(Frames) /\ swap_list \in [Tasks -> Seq(Frames)]
  BY Zenon DEF SwapTypeOK
<1>2. \A f \in Frames : f \notin Elems(swap_list[t])
  <2>1. \A a \in Vas, f \in Frames : ~MappedAt(t, f, a)
    BY EntryForms, Zenon DEF Renew, MappedAt
  <2> QED BY <2>1, Zenon DEF QueuesOK, Queued
<1>3. swap_list[t] = <<>>
  <2> SUFFICES ASSUME swap_list[t] # <<>> PROVE FALSE
    BY Zenon
  <2>1. Head(swap_list[t]) \in Elems(swap_list[t]) /\ Distinct(swap_list[t])
    BY <1>1, TailDistinct, Zenon DEF QueuesOK
  <2>2. Head(swap_list[t]) \in Frames
    BY <1>1
  <2> QED BY <1>2, <2>1, <2>2, Zenon
<1>4. swap_list' = swap_list
  BY <1>1, <1>3, Zenon DEF Renew
<1> QED BY <1>4, PlaceInv, Zenon DEF Renew, IoPlaces

\* free_user_pt_subtree() gives back what one entry held, and nothing else.
LEMMA TearDownInv == ASSUME SwapIInv, NEW t \in Tasks, TearDown(t) PROVE SwapIInv'
<1> USE DEF SwapIInv
<1>1. PICK va \in Vas :
        /\ leaf[t][va] # Empty
        /\ leaf' = [leaf EXCEPT ![t][va] = Empty]
        /\ value' = [value EXCEPT ![t][va] = Garbage]
        /\ granted' = [granted EXCEPT ![t][va] = {}]
        /\ swappable' = [swappable EXCEPT ![t] = @ \ {va}]
        /\ IF leaf[t][va].kind = "swap"
           THEN occupied' = occupied \ {leaf[t][va].slot} /\ UNCHANGED <<free, ref_count, swap_list>>
           ELSE LET f == leaf[t][va].frame
                    left == IF ref_count[f] > 0 THEN ref_count[f] - 1 ELSE 0
                IN /\ ref_count' = [ref_count EXCEPT ![f] = left]
                   /\ IF left = 0
                      THEN /\ swap_list' = [swap_list EXCEPT ![t] = Unlinked(@, f)]
                           /\ free' = free \cup {f}
                      ELSE UNCHANGED <<swap_list, free>>
                   /\ UNCHANGED occupied
  BY Zenon DEF TearDown, Forget, release_entry
<1>2. /\ mem' = mem /\ disk' = disk /\ next_slot' = next_slot /\ pc' = pc /\ UNCHANGED lockVars
      /\ pc[t] \notin IoPlaces
  BY Zenon DEF TearDown, IoPlaces
<1>3. /\ LockHeld' /\ io_lock # t /\ io' = io /\ io_lock' = io_lock
      /\ OutSlots' = OutSlots /\ Filling' = Filling
      /\ \A u \in Tasks : Leaving(u)' = Leaving(u)
      /\ io_lock # None => pc'[io_lock] = pc[io_lock]
  BY <1>2, OthersKeepLock, Zenon
<1>4. /\ leaf' \in [Tasks -> [Vas -> Entries]]
      /\ \A u \in Tasks, b \in Vas : leaf'[u][b] = IF u = t /\ b = va THEN Empty ELSE leaf[u][b]
  <2>1. Empty \in Entries /\ leaf' = [leaf EXCEPT ![t][va] = Empty]
    BY <1>1, EntryForms, Zenon
  <2> QED BY <2>1, LeafAt, Zenon
<1>5. /\ value' \in [Tasks -> [Vas -> Contents]]
      /\ \A u \in Tasks, b \in Vas : value'[u][b] = IF u = t /\ b = va THEN Garbage ELSE value[u][b]
  BY <1>1, HistoryAt, Zenon DEF Contents
<1>6. /\ granted' \in [Tasks -> [Vas -> PageRights]]
      /\ \A u \in Tasks, b \in Vas : granted'[u][b] = IF u = t /\ b = va THEN {} ELSE granted[u][b]
  <2>1. {} \in PageRights /\ granted' = [granted EXCEPT ![t][va] = {}]
    BY <1>1, Zenon DEF PageRights
  <2> QED BY <2>1, GrantedAt, Zenon
<1>7. \A u \in Tasks, b \in Vas, g \in Frames :
        MappedAt(u, g, b)' <=> MappedAt(u, g, b) /\ ~(u = t /\ b = va)
  BY <1>4, EntryForms DEF MappedAt
<1>8. /\ swappable' \in [Tasks -> SUBSET Vas]
       /\ \A u \in Tasks, b \in Vas : b \in swappable'[u] <=> b \in swappable[u] /\ ~(u = t /\ b = va)
  BY <1>1 DEF SwapTypeOK
<1>9. \A u \in Tasks, b \in Vas, g \in Frames :
         Queued(u, g, b)' <=> Queued(u, g, b) /\ ~(u = t /\ b = va)
  BY <1>7, <1>8, Zenon DEF Queued
<1>10. \A u \in Tasks, b \in Vas, s \in Slots :
        SwappedAt(u, s, b)' <=> SwappedAt(u, s, b) /\ ~(u = t /\ b = va)
  BY <1>4, EntryForms DEF SwappedAt
<1>11. SwappableOK'
  <2>1. ASSUME NEW u \in Tasks, NEW a \in Vas, leaf'[u][a] = Empty PROVE a \notin swappable'[u]
    BY <2>1, <1>4, <1>8, Zenon DEF SwappableOK
  <2>2. ASSUME NEW u \in Tasks, NEW a \in Vas, NEW r \in Slots, SwappedAt(u, r, a)' PROVE a \in swappable'[u]
    BY <2>2, <1>10, <1>8, Zenon DEF SwappableOK
  <2>3. ASSUME NEW u \in Tasks, NEW a \in Vas, NEW g \in Frames, g \in Leaving(u)', MappedAt(u, g, a)'
       PROVE  a \in swappable'[u]
    BY <2>3, <1>3, <1>7, <1>8, Zenon DEF SwappableOK
  <2> QED BY <2>1, <2>2, <2>3, Zenon DEF SwappableOK
<1>12. CallOK'
  <2>1. \A b \in Vas : io_lock # None => leaf'[io_lock][b] = leaf[io_lock][b]
    BY <1>3, <1>4, Zenon DEF SwapTypeOK
  <2> QED BY <1>2, <1>3, <2>1, CallKept, Zenon
<1>13. ContentsOK'
  <2>1. ASSUME NEW u \in Tasks, NEW b \in Vas, NEW g \in Frames, MappedAt(u, g, b)'
        PROVE  mem'[g] = value'[u][b]
    BY <1>2, <1>5, <1>7, <2>1 DEF ContentsOK
  <2>2. ASSUME NEW u \in Tasks, NEW b \in Vas, NEW s \in Slots, SwappedAt(u, s, b)'
        PROVE  disk'[s] = value'[u][b]
    BY <1>2, <1>5, <1>10, <2>2 DEF ContentsOK
  <2>3. ASSUME NEW u \in Tasks, NEW b \in Vas, leaf'[u][b] # Empty
        PROVE  leaf'[u][b].perm = granted'[u][b]
    BY <1>4, <1>6, <2>3 DEF ContentsOK
  <2> QED BY <2>1, <2>2, <2>3, Zenon DEF ContentsOK
<1>14. leaf[t][va] \in Entries
  BY DEF SwapTypeOK
<1>15. CASE leaf[t][va].kind = "swap"
  <2> DEFINE s == leaf[t][va].slot
  <2>1. s \in Slots /\ SwappedAt(t, s, va) /\ occupied' = occupied \ {s}
        /\ free' = free /\ ref_count' = ref_count /\ swap_list' = swap_list
    BY <1>1, <1>14, <1>15, EntryFields, Zenon DEF SwappedAt
  <2>2. \A g \in Frames : ~MappedAt(t, g, va)
    BY <1>15, Zenon DEF MappedAt
  <2>3. \A r \in Slots : SwappedAt(t, r, va) => r = s
    BY Zenon DEF SwappedAt
  <2> HIDE DEF s
  <2>4. SwapTypeOK'
    BY <1>2, <1>3, <1>4, <1>5, <1>6, <1>8, <2>1, Zenon DEF SwapTypeOK
  <2>5. SlotsOK'
    <3>1. s \notin OutSlots
      BY <2>1, Zenon DEF SlotsOK
    <3>2. \A u \in Tasks, b \in Vas : SwappedAt(u, s, b) => u = t /\ b = va
      BY <2>1, Zenon DEF SlotsOK
    <3> QED BY <1>3, <1>10, <2>1, <2>3, <3>1, <3>2 DEF SlotsOK, SwapTypeOK
  <2>6. FramesOK'
    BY <1>3, <1>7, <2>1, <2>2, SMTT(30) DEF FramesOK
  <2>7. QueuesOK'
    <3>1. \A u \in Tasks, b \in Vas, g \in Frames : Queued(u, g, b)' <=> Queued(u, g, b)
      BY <1>9, <2>2, Zenon DEF Queued
    <3> QED BY <1>3, <2>1, <3>1, Zenon DEF QueuesOK
  <2> QED BY <1>3, <1>12, <1>13, <1>11, <2>4, <2>5, <2>6, <2>7, Zenon
<1>16. CASE leaf[t][va].kind # "swap"
  <2> DEFINE f == leaf[t][va].frame
  <2>1. f \in Frames /\ MappedAt(t, f, va)
    BY <1>1, <1>14, <1>16, EntryFields, Zenon DEF MappedAt
  <2>2. ref_count[f] = 1 /\ f \notin free \cup Filling
    BY <2>1, Zenon DEF FramesOK
  <2>3. /\ ref_count' = [ref_count EXCEPT ![f] = 0]
        /\ swap_list' = [swap_list EXCEPT ![t] = Unlinked(@, f)]
        /\ free' = free \cup {f} /\ occupied' = occupied
    BY <1>1, <1>16, <2>2
  <2>4. \A s \in Slots : ~SwappedAt(t, s, va)
    BY <1>16, Zenon DEF SwappedAt
  <2>5. \A g \in Frames : MappedAt(t, g, va) => g = f
    BY Zenon DEF MappedAt
  <2> HIDE DEF f
  <2>6. swap_list[t] \in Seq(Frames) /\ Distinct(swap_list[t])
    BY Zenon DEF SwapTypeOK, QueuesOK
  <2>7. /\ Unlinked(swap_list[t], f) \in Seq(Frames) /\ Distinct(Unlinked(swap_list[t], f))
        /\ Elems(Unlinked(swap_list[t], f)) = Elems(swap_list[t]) \ {f}
    BY <2>1, <2>6, UnlinkedDistinct, Zenon
  <2>8. SwapTypeOK'
    BY <1>2, <1>3, <1>4, <1>5, <1>6, <1>8, <2>1, <2>3, <2>7, Zenon DEF SwapTypeOK
  <2>9. SlotsOK'
    BY <1>3, <1>10, <2>3, <2>4 DEF SlotsOK, SwapTypeOK
  <2>10. \A u \in Tasks, b \in Vas : MappedAt(u, f, b) => u = t /\ b = va
    BY <2>1, Zenon DEF FramesOK
  <2>11. FramesOK'
    <3>1. \A g \in Frames : ref_count'[g] = IF g = f THEN 0 ELSE ref_count[g]
      BY <2>1, <2>3, Zenon DEF SwapTypeOK
    <3> QED BY <1>3, <1>7, <2>2, <2>3, <2>5, <2>10, <3>1 DEF FramesOK
  <2>12. QueuesOK'
    <3>1. \A u \in Tasks : swap_list'[u] = IF u = t THEN Unlinked(swap_list[t], f) ELSE swap_list[u]
      BY <2>3, Zenon DEF SwapTypeOK
    <3>2. \A u \in Tasks, b \in Vas, g \in Frames : Queued(u, g, b)' <=> Queued(u, g, b) /\ ~(u = t /\ g = f)
      BY <1>9, <2>5, <2>10, Zenon DEF Queued
    <3>3. ASSUME NEW g \in Frames
          PROVE  g \in Elems(swap_list[t]) \ {f} <=> (\E a \in Vas : Queued(t, g, a)') /\ g \notin Leaving(t)
      BY <3>2, Zenon DEF QueuesOK
    <3>4. ASSUME NEW u \in Tasks, u # t, NEW g \in Frames
          PROVE  g \in Elems(swap_list[u]) <=> (\E a \in Vas : Queued(u, g, a)') /\ g \notin Leaving(u)
      BY <3>2, <3>4, Zenon DEF QueuesOK
    <3> QED BY <1>3, <2>7, <3>1, <3>3, <3>4 DEF QueuesOK
  <2> QED BY <1>3, <1>12, <1>13, <1>11, <2>8, <2>9, <2>11, <2>12, Zenon
<1> QED BY <1>15, <1>16, Zenon

(***************************************************************************)
(* swap::in()                                                              *)
(***************************************************************************)

\* io_lock_ is taken, kept or given back by one task.
LEMMA LockMoves ==
  ASSUME SwapTypeOK, LockHeld, NEW t \in Tasks, NEW l \in {"user", "zombie"} \cup IoPlaces, Goto(t, l),
         io_lock \in {None, t}, io_lock' = IF l \in IoPlaces THEN t ELSE None
  PROVE  /\ pc' \in [Tasks -> {"user", "zombie"} \cup IoPlaces] /\ pc'[t] = l
         /\ LockHeld' /\ io_lock' \in Tasks \cup {None}
<1>1. /\ pc' \in [Tasks -> {"user", "zombie"} \cup IoPlaces] /\ pc'[t] = l
      /\ \A u \in Tasks : u # t => pc'[u] = pc[u]
  BY Zenon DEF SwapTypeOK, Goto
<1>2. \A u \in Tasks : u # None
  BY NoneAssumption, Zenon
<1>3. LockHeld'
  BY <1>1, <1>2, Zenon DEF LockHeld
<1> QED BY <1>1, <1>3, Zenon

LEMMA NoIoFields ==
  /\ NoIo \in [frame : Frames \cup {None}, va : Nat, slot : Nat, left : Nat]
  /\ \A n \in Nat : [NoIo EXCEPT !.left = n] \in [frame : Frames \cup {None}, va : Nat, slot : Nat, left : Nat]
BY Zenon DEF NoIo

\* pg_fault() of a page that is out, up to the read.
LEMMA PageFaultInv ==
  ASSUME SwapIInv, NEW t \in Tasks, NEW va \in Vas, NEW access, PageFault(t, va, access)
  PROVE  SwapIInv'
<1> USE DEF SwapIInv
<1>1. CASE ~(access \subseteq leaf[t][va].perm)
  BY <1>1, PlaceInv, Zenon DEF PageFault, IoPlaces, frameVars
<1>2. CASE access \subseteq leaf[t][va].perm
  <2>1. PICK f \in free :
          /\ free' = free \ {f}
          /\ io' = [frame |-> f, va |-> va, slot |-> leaf[t][va].slot, left |-> 0]
    BY <1>2, Zenon DEF PageFault
  <2>2. /\ leaf' = leaf /\ mem' = mem /\ ref_count' = ref_count /\ disk' = disk
        /\ occupied' = occupied /\ next_slot' = next_slot /\ swap_list' = swap_list
        /\ value' = value /\ granted' = granted /\ swappable' = swappable
        /\ io_lock = None /\ io_lock' = t /\ Goto(t, "reading") /\ leaf[t][va].kind = "swap"
    BY <1>2, Zenon DEF PageFault, slotVars, history
  <2>3. leaf[t][va].slot \in Slots /\ f \in Frames
    <3>1. leaf[t][va] \in Entries
      BY DEF SwapTypeOK
    <3> QED BY <2>2, <3>1, EntryFields, Zenon DEF SwapTypeOK
  <2>4. io'.frame = f /\ io'.va = va /\ io'.slot = leaf[t][va].slot
    BY <2>1, Zenon
  <2>5. io' \in [frame : Frames \cup {None}, va : Nat, slot : Nat, left : Nat]
    BY <2>1, <2>3 DEF Vas, Slots
  <2>6. /\ pc' \in [Tasks -> {"user", "zombie"} \cup IoPlaces] /\ pc'[t] = "reading" /\ LockHeld'
    BY <2>2, LockMoves, Zenon DEF IoPlaces
  <2>7. /\ InFlightIn' /\ ~InFlightOut' /\ OutSlots' = {} /\ Filling' = {f} /\ io_lock' # None
        /\ \A u \in Tasks : Leaving(u)' = {}
    BY <2>2, <2>4, <2>6, HolderNext, Zenon
  <2>8. OutSlots = {} /\ Filling = {} /\ \A u \in Tasks : Leaving(u) = {}
    BY <2>2, NobodyUnderLock, Zenon
  <2>9. SwapTypeOK'
    BY <2>1, <2>2, <2>5, <2>6, Zenon DEF SwapTypeOK
  <2>10. SlotsOK'
    BY <2>2, <2>7, <2>8, SlotsSame, Zenon
  <2>11. FramesOK'
    BY <2>1, <2>2, <2>3, <2>7, <2>8, FramesKept, Zenon
  <2>12. QueuesOK' /\ SwappableOK'
    BY <2>2, <2>7, <2>8, QueuesKept, Zenon
  <2>13. CallOK'
    BY <2>2, <2>3, <2>4, <2>6, <2>7, Zenon DEF CallOK, SwappedAt
  <2>14. ContentsOK'
    BY <2>2, ContentsKept, Zenon
  <2> QED BY <2>6, <2>9, <2>10, <2>11, <2>12, <2>13, <2>14, Zenon
<1> QED BY <1>1, <1>2, Zenon

\* What swapfs_read() leaves in the frame that nobody else can see.
LEMMA FillInv ==
  ASSUME SwapIInv, NEW t \in Tasks, pc[t] = "reading", NEW v \in Contents,
         mem' = [mem EXCEPT ![io.frame] = v]
  PROVE  /\ mem' \in [Frames -> Contents] /\ mem'[io.frame] = v
         /\ \A u \in Tasks, b \in Vas, g \in Frames : MappedAt(u, g, b) => mem'[g] = mem[g]
         /\ io_lock = t /\ io.frame \in Frames /\ io.va \in Vas /\ io.slot \in Slots
         /\ SwappedAt(t, io.slot, io.va)
         /\ OutSlots = {} /\ Filling = {io.frame} /\ \A u \in Tasks : Leaving(u) = {}
<1> USE DEF SwapIInv
<1>1. /\ io_lock = t /\ InFlightIn /\ OutSlots = {} /\ Filling = {io.frame}
      /\ \A u \in Tasks : Leaving(u) = {}
  BY Holder, Zenon DEF IoPlaces
<1>2. io.frame \in Frames /\ io.va \in Vas /\ io.slot \in Slots /\ SwappedAt(t, io.slot, io.va)
  BY <1>1, Zenon DEF CallOK
<1>3. \A u \in Tasks, b \in Vas, g \in Frames : MappedAt(u, g, b) => g # io.frame
  BY <1>1, <1>2 DEF FramesOK
<1> QED BY <1>1, <1>2, <1>3, Zenon DEF SwapTypeOK

LEMMA InReadInv == ASSUME SwapIInv, NEW t \in Tasks, InRead(t) PROVE SwapIInv'
<1> USE DEF SwapIInv
<1>1. /\ leaf' = leaf /\ free' = free /\ ref_count' = ref_count /\ disk' = disk
      /\ occupied' = occupied /\ next_slot' = next_slot /\ swap_list' = swap_list
      /\ value' = value /\ granted' = granted /\ swappable' = swappable /\ io_lock' = io_lock /\ io' = io
      /\ pc[t] = "reading" /\ Goto(t, "read") /\ mem' = [mem EXCEPT ![io.frame] = disk[io.slot]]
  BY Zenon DEF InRead, slotVars, lockVars, history
<1>2. io_lock = t /\ io.slot \in Slots
  BY <1>1, Holder, Zenon DEF IoPlaces, CallOK
<1>3. disk[io.slot] \in Contents
  BY <1>2, Zenon DEF SwapTypeOK
<1>4. /\ mem' \in [Frames -> Contents] /\ mem'[io.frame] = disk[io.slot]
      /\ \A u \in Tasks, b \in Vas, g \in Frames : MappedAt(u, g, b) => mem'[g] = mem[g]
      /\ io.frame \in Frames /\ io.va \in Vas /\ SwappedAt(t, io.slot, io.va)
      /\ OutSlots = {} /\ Filling = {io.frame} /\ \A u \in Tasks : Leaving(u) = {}
  BY <1>1, <1>3, FillInv, Zenon
<1>5. pc' \in [Tasks -> {"user", "zombie"} \cup IoPlaces] /\ pc'[t] = "read" /\ LockHeld'
  BY <1>1, <1>2, LockMoves, Zenon DEF IoPlaces
<1>6. /\ InFlightIn' /\ ~InFlightOut' /\ OutSlots' = {} /\ Filling' = {io.frame} /\ io_lock' # None
      /\ \A u \in Tasks : Leaving(u)' = {}
  BY <1>1, <1>2, <1>5, HolderNext, Zenon
<1>7. SwapTypeOK'
  BY <1>1, <1>4, <1>5, Zenon DEF SwapTypeOK
<1>8. SlotsOK'
  BY <1>1, <1>4, <1>6, SlotsSame, Zenon
<1>9. FramesOK'
  BY <1>1, <1>4, <1>6, FramesSame, Zenon
<1>10. QueuesOK' /\ SwappableOK'
  BY <1>1, <1>4, <1>6, QueuesKept, Zenon
<1>11. CallOK'
  BY <1>1, <1>2, <1>4, <1>5, <1>6, Zenon DEF CallOK, SwappedAt
<1>12. ContentsOK'
  BY <1>1, <1>4, ContentsKept, Zenon
<1> QED BY <1>5, <1>7, <1>8, <1>9, <1>10, <1>11, <1>12, Zenon

\* A failed read gives the frame and the lock back.
LEMMA InReadFailsInv == ASSUME SwapIInv, NEW t \in Tasks, InReadFails(t) PROVE SwapIInv'
<1> USE DEF SwapIInv
<1>1. /\ leaf' = leaf /\ free' = free \cup {io.frame} /\ ref_count' = ref_count /\ disk' = disk
      /\ occupied' = occupied /\ next_slot' = next_slot /\ swap_list' = swap_list
      /\ value' = value /\ granted' = granted /\ swappable' = swappable /\ io_lock' = None /\ io' = NoIo
      /\ pc[t] = "reading" /\ Goto(t, "zombie") /\ mem' = [mem EXCEPT ![io.frame] = Garbage]
  BY Zenon DEF InReadFails, Unlock, slotVars, history
<1>2. Garbage \in Contents
  BY Zenon DEF Contents
<1>3. /\ mem' \in [Frames -> Contents]
      /\ \A u \in Tasks, b \in Vas, g \in Frames : MappedAt(u, g, b) => mem'[g] = mem[g]
      /\ io.frame \in Frames /\ io_lock = t
      /\ OutSlots = {} /\ Filling = {io.frame} /\ \A u \in Tasks : Leaving(u) = {}
  BY <1>1, <1>2, FillInv, Zenon
<1>4. pc' \in [Tasks -> {"user", "zombie"} \cup IoPlaces] /\ LockHeld'
  BY <1>1, <1>3, LockMoves, Zenon DEF IoPlaces
<1>5. /\ ~InFlightIn' /\ ~InFlightOut' /\ OutSlots' = {} /\ Filling' = {}
      /\ \A u \in Tasks : Leaving(u)' = {}
  BY <1>1, NobodyUnderLockNext, Zenon
<1>6. SwapTypeOK'
  BY <1>1, <1>3, <1>4, NoIoFields, Zenon DEF SwapTypeOK
<1>7. SlotsOK'
  BY <1>1, <1>3, <1>5, SlotsSame, Zenon
<1>8. FramesOK'
  BY <1>1, <1>3, <1>5, FramesKept, Zenon
<1>9. QueuesOK' /\ SwappableOK'
  BY <1>1, <1>3, <1>5, QueuesKept, Zenon
<1>10. CallOK'
  BY <1>1, <1>5, Zenon DEF CallOK
<1>11. ContentsOK'
  BY <1>1, <1>3, ContentsKept, Zenon
<1> QED BY <1>4, <1>6, <1>7, <1>8, <1>9, <1>10, <1>11, Zenon

\* The entry is still the one that was read, and its page takes the slot's place.
LEMMA InMapInv == ASSUME SwapIInv, NEW t \in Tasks, InMap(t) PROVE SwapIInv'
<1> USE DEF SwapIInv
<1> DEFINE f == io.frame
           va == io.va
           s == io.slot
           perm == leaf[t][va].perm
<1>1. /\ io_lock = t /\ io_lock # None /\ InFlightIn /\ OutSlots = {} /\ Filling = {f}
      /\ \A u \in Tasks : Leaving(u) = {}
  BY Holder, Zenon DEF InMap, IoPlaces
<1>2. f \in Frames /\ va \in Vas /\ s \in Slots /\ SwappedAt(t, s, va) /\ mem[f] = disk[s]
  BY <1>1, Zenon DEF CallOK, InMap
<1>3. /\ swap_list' = [swap_list EXCEPT ![t] = Append(@, f)]
      /\ leaf' = [leaf EXCEPT ![t][va] = Resident(f, perm)]
      /\ ref_count' = [ref_count EXCEPT ![f] = @ + 1]
      /\ occupied' = occupied \ {s} /\ Goto(t, "user") /\ free' = free
      /\ io_lock' = None /\ io' = NoIo /\ mem' = mem /\ disk' = disk /\ next_slot' = next_slot
      /\ value' = value /\ granted' = granted /\ swappable' = swappable
  BY <1>2, Zenon DEF InMap, SwappedAt, Enqueue, Unlock, history, release_entry
<1>4. perm \in Perms /\ leaf[t][va].kind = "swap" /\ leaf[t][va].slot = s /\ leaf[t][va] # Empty
  <2>1. leaf[t][va] \in Entries
    BY <1>2 DEF SwapTypeOK
  <2> QED BY <1>2, <2>1, EntryFields, Zenon DEF SwappedAt
<1> HIDE DEF f, va, s, perm
<1>5. /\ leaf' \in [Tasks -> [Vas -> Entries]]
      /\ \A u \in Tasks, b \in Vas :
           leaf'[u][b] = IF u = t /\ b = va THEN Resident(f, perm) ELSE leaf[u][b]
  <2>1. Resident(f, perm) \in Entries
    BY <1>2, <1>4, EntryForms, Zenon
  <2> QED BY <1>2, <1>3, <2>1, LeafAt, Zenon
<1>6. Resident(f, perm).kind = "page" /\ Resident(f, perm).frame = f /\ Resident(f, perm).perm = perm
  BY <1>2, <1>4, EntryForms
<1>7. \A u \in Tasks, b \in Vas, g \in Frames :
        MappedAt(u, g, b)' <=> MappedAt(u, g, b) \/ (u = t /\ b = va /\ g = f)
  BY <1>4, <1>5, <1>6, Zenon DEF MappedAt
<1>8. \A u \in Tasks, b \in Vas, r \in Slots :
        SwappedAt(u, r, b)' <=> SwappedAt(u, r, b) /\ ~(u = t /\ b = va)
  BY <1>5, <1>6, Zenon DEF SwappedAt
<1>9. pc' \in [Tasks -> {"user", "zombie"} \cup IoPlaces] /\ LockHeld'
  BY <1>1, <1>3, LockMoves, Zenon DEF IoPlaces
<1>10. /\ ~InFlightIn' /\ ~InFlightOut' /\ OutSlots' = {} /\ Filling' = {}
       /\ \A u \in Tasks : Leaving(u)' = {}
  BY <1>3, NobodyUnderLockNext, Zenon
<1>11. f \notin free /\ ref_count[f] = 0 /\ \A u \in Tasks, b \in Vas : ~MappedAt(u, f, b)
  BY <1>1, <1>2, Zenon DEF FramesOK
<1>12. f \notin Elems(swap_list[t])
  BY <1>2, <1>11, Zenon DEF QueuesOK, Queued
<1>13. swap_list[t] \in Seq(Frames) /\ Distinct(swap_list[t])
  BY Zenon DEF SwapTypeOK, QueuesOK
<1>14. /\ Append(swap_list[t], f) \in Seq(Frames) /\ Distinct(Append(swap_list[t], f))
       /\ Elems(Append(swap_list[t], f)) = Elems(swap_list[t]) \cup {f}
  BY <1>2, <1>12, <1>13, AppendDistinct, Zenon
<1>15. SwapTypeOK'
  BY <1>2, <1>3, <1>5, <1>9, <1>14, NoIoFields DEF SwapTypeOK
<1>16. SlotsOK'
  <2>1. \A u \in Tasks, b \in Vas : SwappedAt(u, s, b) => u = t /\ b = va
    BY <1>2, Zenon DEF SlotsOK
  <2>2. \A r \in Slots : SwappedAt(t, r, va) => r = s
    BY <1>4, Zenon DEF SwappedAt
  <2> QED BY <1>1, <1>2, <1>3, <1>8, <1>10, <2>1, <2>2 DEF SlotsOK, SwapTypeOK
<1>17. FramesOK'
  <2>1. \A g \in Frames : ref_count'[g] = IF g = f THEN 1 ELSE ref_count[g]
    BY <1>2, <1>3, <1>11 DEF SwapTypeOK
  <2> QED BY <1>1, <1>2, <1>3, <1>7, <1>10, <1>11, <2>1 DEF FramesOK
<1>18. QueuesOK' /\ SwappableOK'
  <2>1. \A u \in Tasks : swap_list'[u] = IF u = t THEN Append(swap_list[t], f) ELSE swap_list[u]
    BY <1>3, Zenon DEF SwapTypeOK
  <2>2. va \in swappable[t]
    BY <1>2, Zenon DEF SwappableOK
  <2>3. \A u \in Tasks, b \in Vas, g \in Frames :
          Queued(u, g, b)' <=> Queued(u, g, b) \/ (u = t /\ b = va /\ g = f)
    BY <1>3, <1>7, <2>2, Zenon DEF Queued
  <2>4. QueuesOK'
    BY <1>1, <1>2, <1>10, <1>14, <2>1, <2>3, Zenon DEF QueuesOK
  <2>5. SwappableOK'
    <3>1. ASSUME NEW u \in Tasks, NEW a \in Vas, leaf'[u][a] = Empty PROVE a \notin swappable'[u]
      <4>1. Resident(f, perm) # Empty
        BY <1>6, EntryForms, Zenon
      <4>2. leaf[u][a] = Empty
        BY <1>5, <3>1, <4>1, Zenon
      <4> QED BY <1>3, <4>2, Zenon DEF SwappableOK
    <3>2. ASSUME NEW u \in Tasks, NEW a \in Vas, NEW r \in Slots, SwappedAt(u, r, a)' PROVE a \in swappable'[u]
      BY <3>2, <1>3, <1>8, Zenon DEF SwappableOK
    <3>3. ASSUME NEW u \in Tasks, NEW a \in Vas, NEW g \in Frames, g \in Leaving(u)', MappedAt(u, g, a)'
         PROVE  a \in swappable'[u]
      BY <3>3, <1>10, Zenon DEF SwappableOK
    <3> QED BY <3>1, <3>2, <3>3, Zenon DEF SwappableOK
  <2> QED BY <2>4, <2>5, Zenon
<1>19. CallOK'
  BY <1>3, <1>10, Zenon DEF CallOK
<1>20. ContentsOK'
  <2>1. disk[s] = value[t][va] /\ perm = granted[t][va]
    BY <1>2, <1>4, Zenon DEF ContentsOK, perm
  <2>2. \A u \in Tasks, b \in Vas : leaf'[u][b] # Empty => leaf'[u][b].perm = granted'[u][b]
    BY <1>3, <1>5, <1>6, <2>1, SMTT(30) DEF ContentsOK
  <2>3. \A u \in Tasks, b \in Vas, g \in Frames : MappedAt(u, g, b)' => mem'[g] = value'[u][b]
    BY <1>2, <1>3, <1>7, <2>1 DEF ContentsOK
  <2>4. \A u \in Tasks, b \in Vas, r \in Slots : SwappedAt(u, r, b)' => disk'[r] = value'[u][b]
    BY <1>3, <1>8 DEF ContentsOK
  <2> QED BY <2>2, <2>3, <2>4, Zenon DEF ContentsOK
<1> QED BY <1>9, <1>15, <1>16, <1>17, <1>18, <1>19, <1>20, Zenon

(***************************************************************************)
(* swap::out()                                                             *)
(***************************************************************************)

\* Steps between "picking" and the user's code that move only the lock, the
\* budget and next_slot_.
LEMMA BetweenInv ==
  ASSUME SwapIInv, NEW t \in Tasks, NEW l \in {"user", "picking"}, Goto(t, l),
         pc[t] = "picking" \/ (pc[t] = "user" /\ io_lock = None),
         io_lock' = IF l = "picking" THEN t ELSE None, next_slot' \in Slots,
         io' \in [frame : Frames \cup {None}, va : Nat, slot : Nat, left : Nat],
         UNCHANGED <<leaf, frameVars, disk, occupied, swap_list, history>>
  PROVE  SwapIInv'
<1> USE DEF SwapIInv
<1>1. /\ leaf' = leaf /\ mem' = mem /\ free' = free /\ ref_count' = ref_count /\ disk' = disk
      /\ occupied' = occupied /\ swap_list' = swap_list /\ value' = value /\ granted' = granted /\ swappable' = swappable
  BY Zenon DEF frameVars, history
<1>2. io_lock \in {None, t} /\ OutSlots = {} /\ Filling = {} /\ \A u \in Tasks : Leaving(u) = {}
  <2>1. CASE pc[t] = "picking"
    BY <2>1, Holder, Zenon DEF IoPlaces
  <2>2. CASE io_lock = None
    BY <2>2, NobodyUnderLock, Zenon
  <2> QED BY <2>1, <2>2, Zenon
<1>3. pc' \in [Tasks -> {"user", "zombie"} \cup IoPlaces] /\ pc'[t] = l /\ LockHeld'
      /\ io_lock' \in Tasks \cup {None}
  BY <1>2, LockMoves, Zenon DEF IoPlaces
<1>4. /\ ~InFlightIn' /\ ~InFlightOut' /\ OutSlots' = {} /\ Filling' = {}
      /\ \A u \in Tasks : Leaving(u)' = {}
      /\ io_lock' # None => pc'[io_lock'] \notin {"read", "written"}
  <2>1. CASE l = "picking"
    BY <1>3, <2>1, HolderNext, Zenon
  <2>2. CASE l = "user"
    BY <2>2, NobodyUnderLockNext, Zenon
  <2> QED BY <2>1, <2>2, Zenon
<1>5. SwapTypeOK'
  BY <1>1, <1>3, Zenon DEF SwapTypeOK
<1>6. SlotsOK'
  BY <1>1, <1>2, <1>4, SlotsSame, Zenon
<1>7. FramesOK'
  BY <1>1, <1>2, <1>4, FramesSame, Zenon
<1>8. QueuesOK' /\ SwappableOK'
  BY <1>1, <1>2, <1>4, QueuesKept, Zenon
<1>9. CallOK'
  BY <1>4, Zenon DEF CallOK
<1>10. ContentsOK'
  BY <1>1, ContentsKept, Zenon
<1> QED BY <1>3, <1>5, <1>6, <1>7, <1>8, <1>9, <1>10, Zenon

LEMMA OutBeginInv ==
  ASSUME SwapIInv, NEW t \in Tasks, NEW pages \in 1 .. MaxOut, OutBegin(t, pages)
  PROVE  SwapIInv'
<1>1. pages \in Nat
  BY SizesAssumption
<1> QED BY <1>1, BetweenInv, NoIoFields, Zenon DEF OutBegin, slotVars, SwapIInv, SwapTypeOK

LEMMA OutEndInv == ASSUME SwapIInv, NEW t \in Tasks, OutEnd(t) PROVE SwapIInv'
BY BetweenInv, NoIoFields, Zenon DEF OutEnd, Unlock, slotVars, SwapIInv, SwapTypeOK

LEMMA NextSlotIsSlot == \A s \in Slots : NextSlot(s) \in Slots
BY SizesAssumption DEF NextSlot, Slots

LEMMA OutPickFailsInv == ASSUME SwapIInv, NEW t \in Tasks, OutPickFails(t) PROVE SwapIInv'
<1>1. next_slot' \in Slots
  BY NextSlotIsSlot DEF OutPickFails, SwapIInv, SwapTypeOK
<1> QED BY <1>1, BetweenInv, NoIoFields, Zenon DEF OutPickFails, Unlock

\* The victim leaves the queue and a vacant slot is reserved for it.
LEMMA OutPickInv == ASSUME SwapIInv, NEW t \in Tasks, OutPick(t) PROVE SwapIInv'
<1> USE DEF SwapIInv
<1> DEFINE f == Head(swap_list[t])
<1>1. PICK va \in Vas, s \in Slots :
        /\ MappedAt(t, f, va) /\ s \notin occupied /\ occupied' = occupied \cup {s}
        /\ next_slot' = NextSlot(s) /\ io' = [io EXCEPT !.frame = f, !.va = va, !.slot = s]
  BY Zenon DEF OutPick, Victim, Reserves
<1>2. /\ leaf' = leaf /\ mem' = mem /\ free' = free /\ ref_count' = ref_count /\ disk' = disk
      /\ swap_list' = [swap_list EXCEPT ![t] = Tail(@)] /\ value' = value /\ granted' = granted /\ swappable' = swappable
      /\ io_lock' = io_lock /\ Goto(t, "writing") /\ pc[t] = "picking" /\ swap_list[t] # <<>>
  BY Zenon DEF OutPick, frameVars, history
<1>3. /\ io_lock = t /\ OutSlots = {} /\ Filling = {} /\ \A u \in Tasks : Leaving(u) = {}
  BY <1>2, Holder, Zenon DEF IoPlaces
<1>4. swap_list[t] \in Seq(Frames) /\ Distinct(swap_list[t])
  BY Zenon DEF SwapTypeOK, QueuesOK
<1>5. /\ Tail(swap_list[t]) \in Seq(Frames) /\ Distinct(Tail(swap_list[t]))
      /\ Elems(Tail(swap_list[t])) = Elems(swap_list[t]) \ {f}
  BY <1>2, <1>4, TailDistinct, Zenon
<1>6. f \in Frames
  BY <1>2, <1>4
<1> HIDE DEF f
<1>7. /\ io' \in [frame : Frames \cup {None}, va : Nat, slot : Nat, left : Nat]
      /\ io'.frame = f /\ io'.va = va /\ io'.slot = s /\ io'.left > 0
  <2>1. va \in Nat /\ s \in Nat
    BY DEF Vas, Slots
  <2>2. io \in [frame : Frames \cup {None}, va : Nat, slot : Nat, left : Nat]
    BY Zenon DEF SwapTypeOK
  <2>3. io' = [io EXCEPT !.frame = f, !.va = va, !.slot = s] /\ io.left > 0
    BY <1>1, Zenon DEF OutPick
  <2> QED BY ONLY <1>6, <2>1, <2>2, <2>3, Zenon
<1>8. pc' \in [Tasks -> {"user", "zombie"} \cup IoPlaces] /\ pc'[t] = "writing" /\ LockHeld'
  BY <1>2, <1>3, LockMoves, Zenon DEF IoPlaces
<1>9. /\ ~InFlightIn' /\ InFlightOut' /\ OutSlots' = {s} /\ Filling' = {} /\ io_lock' # None
      /\ \A u \in Tasks : Leaving(u)' = IF u = t THEN {f} ELSE {}
  BY <1>2, <1>3, <1>7, <1>8, HolderNext, Zenon
<1>10. SwapTypeOK'
  BY <1>1, <1>2, <1>5, <1>7, <1>8, NextSlotIsSlot, Zenon DEF SwapTypeOK
<1>11. SlotsOK'
  BY <1>1, <1>2, <1>3, <1>9, SlotsKept DEF SwapTypeOK
<1>12. FramesOK'
  BY <1>2, <1>3, <1>9, FramesSame, Zenon
<1>13. QueuesOK' /\ SwappableOK'
  <2>1. \A u \in Tasks : swap_list'[u] = IF u = t THEN Tail(swap_list[t]) ELSE swap_list[u]
    BY <1>2, Zenon DEF SwapTypeOK
  <2>2. \A u \in Tasks, b \in Vas, g \in Frames : Queued(u, g, b)' <=> Queued(u, g, b)
    BY <1>2, SameLeaf, Zenon DEF Queued
  <2>3. QueuesOK'
    BY <1>3, <1>5, <1>9, <2>1, <2>2, Zenon DEF QueuesOK
  <2>4. f \in Elems(swap_list[t])
    BY <1>2, <1>4, TailDistinct, Zenon DEF f
  <2>5. \A a \in Vas : MappedAt(t, f, a) => a \in swappable[t]
    <3>1. PICK a \in Vas : Queued(t, f, a)
      BY <1>6, <2>4, Zenon DEF QueuesOK
    <3> QED BY <1>6, <3>1, Zenon DEF Queued, FramesOK
  <2>6. SwappableOK'
    BY <1>2, <1>3, <1>9, <2>5, SameLeaf, Zenon DEF SwappableOK
  <2> QED BY <2>3, <2>6, Zenon
<1>14. CallOK'
  BY <1>1, <1>2, <1>3, <1>6, <1>7, <1>8, <1>9, Zenon DEF CallOK, MappedAt
<1>15. ContentsOK'
  BY <1>2, ContentsKept, Zenon
<1> QED BY <1>8, <1>10, <1>11, <1>12, <1>13, <1>14, <1>15, Zenon

\* The page and the slot a write goes between.
LEMMA Writing ==
  ASSUME SwapIInv, NEW t \in Tasks, pc[t] \in {"writing", "written"}
  PROVE  /\ io_lock = t /\ io_lock # None /\ InFlightOut /\ OutSlots = {io.slot} /\ Filling = {}
         /\ \A u \in Tasks : Leaving(u) = IF u = t THEN {io.frame} ELSE {}
         /\ io.frame \in Frames /\ io.va \in Vas /\ io.slot \in Slots /\ io.slot \in occupied
         /\ MappedAt(t, io.frame, io.va) /\ io.left > 0
         /\ \A u \in Tasks, b \in Vas : ~SwappedAt(u, io.slot, b)
         /\ io.frame \notin Elems(swap_list[t])
<1> USE DEF SwapIInv
<1>1. /\ io_lock = t /\ io_lock # None /\ InFlightOut /\ OutSlots = {io.slot} /\ Filling = {}
      /\ \A u \in Tasks : Leaving(u) = IF u = t THEN {io.frame} ELSE {}
  BY Holder, Zenon DEF IoPlaces
<1>2. /\ io.frame \in Frames /\ io.va \in Vas /\ io.slot \in Slots
      /\ MappedAt(t, io.frame, io.va) /\ io.left > 0
  BY <1>1, Zenon DEF CallOK
<1>3. io.slot \in occupied /\ \A u \in Tasks, b \in Vas : ~SwappedAt(u, io.slot, b)
  BY <1>1, <1>2, Zenon DEF SlotsOK
<1>4. io.frame \notin Elems(swap_list[t])
  BY <1>1, <1>2, Zenon DEF QueuesOK
<1> QED BY <1>1, <1>2, <1>3, <1>4, Zenon

LEMMA OutWriteInv == ASSUME SwapIInv, NEW t \in Tasks, OutWrite(t) PROVE SwapIInv'
<1> USE DEF SwapIInv
<1>1. /\ leaf' = leaf /\ mem' = mem /\ free' = free /\ ref_count' = ref_count
      /\ disk' = [disk EXCEPT ![io.slot] = mem[io.frame]]
      /\ occupied' = occupied /\ next_slot' = next_slot /\ swap_list' = swap_list
      /\ value' = value /\ granted' = granted /\ swappable' = swappable /\ io_lock' = io_lock /\ io' = io
      /\ pc[t] = "writing" /\ Goto(t, "written")
  BY Zenon DEF OutWrite, frameVars, slotVars, lockVars, history
<1>2. /\ io_lock = t /\ OutSlots = {io.slot} /\ Filling = {}
      /\ \A u \in Tasks : Leaving(u) = IF u = t THEN {io.frame} ELSE {}
      /\ io.frame \in Frames /\ io.va \in Vas /\ io.slot \in Slots
      /\ MappedAt(t, io.frame, io.va) /\ io.left > 0
      /\ \A u \in Tasks, b \in Vas : ~SwappedAt(u, io.slot, b)
  BY <1>1, Writing, Zenon
<1>3. /\ disk' \in [Slots -> Contents] /\ disk'[io.slot] = mem[io.frame]
      /\ \A s \in Slots : s # io.slot => disk'[s] = disk[s]
  BY <1>1, <1>2, Zenon DEF SwapTypeOK
<1>4. pc' \in [Tasks -> {"user", "zombie"} \cup IoPlaces] /\ pc'[t] = "written" /\ LockHeld'
  BY <1>1, <1>2, LockMoves, Zenon DEF IoPlaces
<1>5. /\ ~InFlightIn' /\ InFlightOut' /\ OutSlots' = {io.slot} /\ Filling' = {} /\ io_lock' # None
      /\ \A u \in Tasks : Leaving(u)' = IF u = t THEN {io.frame} ELSE {}
  BY <1>1, <1>2, <1>4, HolderNext, Zenon
<1>6. SwapTypeOK'
  BY <1>1, <1>3, <1>4, Zenon DEF SwapTypeOK
<1>7. SlotsOK'
  BY <1>1, <1>2, <1>5, SlotsSame, Zenon
<1>8. FramesOK'
  BY <1>1, <1>2, <1>5, FramesSame, Zenon
<1>9. QueuesOK' /\ SwappableOK'
  BY <1>1, <1>2, <1>5, QueuesKept, Zenon
<1>10. CallOK'
  BY <1>1, <1>2, <1>3, <1>4, <1>5, Zenon DEF CallOK, MappedAt
<1>11. ContentsOK'
  <2>1. \A u \in Tasks, b \in Vas, s \in Slots : SwappedAt(u, s, b) => disk'[s] = disk[s]
    BY <1>2, <1>3, Zenon
  <2> QED BY <1>1, <2>1, ContentsKept, Zenon
<1> QED BY <1>4, <1>6, <1>7, <1>8, <1>9, <1>10, <1>11, Zenon

\* A failed write puts the page back in front and releases the slot.
LEMMA OutWriteFailsInv == ASSUME SwapIInv, NEW t \in Tasks, OutWriteFails(t) PROVE SwapIInv'
<1> USE DEF SwapIInv
<1> DEFINE f == io.frame
           s == io.slot
<1>1. /\ leaf' = leaf /\ mem' = mem /\ free' = free /\ ref_count' = ref_count
      /\ disk' = [disk EXCEPT ![s] = Garbage]
      /\ occupied' = occupied \ {s} /\ next_slot' = next_slot
      /\ swap_list' = [swap_list EXCEPT ![t] = <<f>> \o @]
      /\ value' = value /\ granted' = granted /\ swappable' = swappable /\ io_lock' = None /\ io' = NoIo
      /\ pc[t] = "writing" /\ Goto(t, "user")
  BY Zenon DEF OutWriteFails, Unlock, frameVars, history, release_entry
<1>2. /\ io_lock = t /\ OutSlots = {s} /\ Filling = {}
      /\ \A u \in Tasks : Leaving(u) = IF u = t THEN {f} ELSE {}
      /\ f \in Frames /\ io.va \in Vas /\ s \in Slots
      /\ MappedAt(t, f, io.va)
      /\ \A u \in Tasks, b \in Vas : ~SwappedAt(u, s, b)
      /\ f \notin Elems(swap_list[t])
  BY <1>1, Writing, Zenon
<1> HIDE DEF f, s
<1>3. disk' \in [Slots -> Contents] /\ \A r \in Slots : r # s => disk'[r] = disk[r]
  BY <1>1, <1>2, Zenon DEF SwapTypeOK, Contents
<1>4. pc' \in [Tasks -> {"user", "zombie"} \cup IoPlaces] /\ LockHeld'
  BY <1>1, <1>2, LockMoves, Zenon DEF IoPlaces
<1>5. /\ ~InFlightIn' /\ ~InFlightOut' /\ OutSlots' = {} /\ Filling' = {}
      /\ \A u \in Tasks : Leaving(u)' = {}
  BY <1>1, NobodyUnderLockNext, Zenon
<1>6. swap_list[t] \in Seq(Frames) /\ Distinct(swap_list[t])
  BY Zenon DEF SwapTypeOK, QueuesOK
<1>7. /\ <<f>> \o swap_list[t] \in Seq(Frames) /\ Distinct(<<f>> \o swap_list[t])
      /\ Elems(<<f>> \o swap_list[t]) = Elems(swap_list[t]) \cup {f}
  BY <1>2, <1>6, FrontDistinct, Zenon
<1>8. SwapTypeOK'
  BY <1>1, <1>3, <1>4, <1>7, NoIoFields, Zenon DEF SwapTypeOK
<1>9. SlotsOK'
  BY <1>1, <1>2, <1>5, SlotsKept, Zenon DEF SwapTypeOK
<1>10. FramesOK'
  BY <1>1, <1>2, <1>5, FramesSame, Zenon
<1>11. QueuesOK' /\ SwappableOK'
  <2>1. \A u \in Tasks : swap_list'[u] = IF u = t THEN <<f>> \o swap_list[t] ELSE swap_list[u]
    BY <1>1, Zenon DEF SwapTypeOK
  <2>2. ASSUME NEW u \in Tasks
        PROVE  /\ Distinct(swap_list'[u])
               /\ \A g \in Frames : g \in Elems(swap_list'[u]) <=> \E a \in Vas : Queued(u, g, a)
    <3>1. CASE u = t
      <4>1. \A g \in Frames : g \in Elems(swap_list[t]) <=> (\E a \in Vas : Queued(t, g, a)) /\ g # f
        BY <1>2, Zenon DEF QueuesOK
      <4>2. Queued(t, f, io.va)
        BY <1>2, Zenon DEF SwappableOK, Queued
      <4> QED BY <1>2, <1>7, <2>1, <3>1, <4>1, <4>2, Zenon
    <3>2. CASE u # t
      <4>1. \A g \in Frames : g \in Elems(swap_list[u]) <=> \E a \in Vas : Queued(u, g, a)
        BY <1>2, <3>2, Zenon DEF QueuesOK
      <4>2. Distinct(swap_list[u])
        BY Zenon DEF QueuesOK
      <4> QED BY <2>1, <3>2, <4>1, <4>2, Zenon
    <3> QED BY <3>1, <3>2, Zenon
  <2>3. \A u \in Tasks, b \in Vas, g \in Frames : Queued(u, g, b)' <=> Queued(u, g, b)
    BY <1>1, SameLeaf, Zenon DEF Queued
  <2>4. QueuesOK'
    BY <1>5, <2>2, <2>3, Zenon DEF QueuesOK
  <2>5. SwappableOK'
    BY <1>1, <1>5, SameLeaf, Zenon DEF SwappableOK
  <2> QED BY <2>4, <2>5, Zenon
<1>12. CallOK'
  BY <1>1, <1>5, Zenon DEF CallOK
<1>13. ContentsOK'
  <2>1. \A u \in Tasks, b \in Vas, r \in Slots : SwappedAt(u, r, b) => disk'[r] = disk[r]
    BY <1>2, <1>3, Zenon
  <2> QED BY <1>1, <2>1, ContentsKept, Zenon
<1> QED BY <1>4, <1>8, <1>9, <1>10, <1>11, <1>12, <1>13, Zenon

\* The mapping is still the one that was written, and the entry takes its place.
LEMMA OutCommitInv == ASSUME SwapIInv, NEW t \in Tasks, OutCommit(t) PROVE SwapIInv'
<1> USE DEF SwapIInv
<1> DEFINE f == io.frame
           va == io.va
           s == io.slot
           perm == leaf[t][va].perm
<1>1. /\ io_lock = t /\ io_lock # None /\ OutSlots = {s} /\ Filling = {}
      /\ \A u \in Tasks : Leaving(u) = IF u = t THEN {f} ELSE {}
      /\ f \in Frames /\ va \in Vas /\ s \in Slots /\ s \in occupied
      /\ MappedAt(t, f, va)
      /\ \A u \in Tasks, b \in Vas : ~SwappedAt(u, s, b)
      /\ f \notin Elems(swap_list[t])
  BY Writing, Zenon DEF OutCommit
<1>2. mem[f] = disk[s] /\ ref_count[f] = 1 /\ f \notin free
  BY <1>1, Zenon DEF CallOK, OutCommit, FramesOK
<1>3. /\ leaf' = [leaf EXCEPT ![t][va] = Swapped(s, perm)]
      /\ ref_count' = [ref_count EXCEPT ![f] = @ - 1]
      /\ free' = free \cup {f} /\ io' = [NoIo EXCEPT !.left = io.left - 1]
      /\ Goto(t, "picking")
      /\ occupied' = occupied /\ swap_list' = swap_list /\ io_lock' = io_lock
      /\ mem' = mem /\ disk' = disk /\ next_slot' = next_slot /\ value' = value /\ granted' = granted /\ swappable' = swappable
  <2>1. leaf \in [Tasks -> [Vas -> Entries]]
    BY Zenon DEF SwapTypeOK
  <2>2. [leaf EXCEPT ![t][io.va] = Swapped(io.slot, @.perm)] = [leaf EXCEPT ![t][va] = Swapped(s, perm)]
    BY <1>1, <2>1, Zenon
  <2> QED BY <1>1, <1>2, <2>2, Zenon DEF OutCommit, history
<1>4. perm \in Perms /\ leaf[t][va].kind = "page" /\ leaf[t][va].frame = f /\ leaf[t][va] # Empty
  <2>1. leaf[t][va] \in Entries
    BY <1>1 DEF SwapTypeOK
  <2> QED BY <1>1, <2>1, EntryFields, Zenon DEF MappedAt
<1> HIDE DEF f, va, s, perm
<1>5. /\ leaf' \in [Tasks -> [Vas -> Entries]]
      /\ \A u \in Tasks, b \in Vas :
           leaf'[u][b] = IF u = t /\ b = va THEN Swapped(s, perm) ELSE leaf[u][b]
  <2>1. Swapped(s, perm) \in Entries
    BY <1>1, <1>4, EntryForms, Zenon
  <2> QED BY <1>1, <1>3, <2>1, LeafAt, Zenon
<1>6. Swapped(s, perm).kind = "swap" /\ Swapped(s, perm).slot = s /\ Swapped(s, perm).perm = perm
  BY <1>1, <1>4, EntryForms
<1>7. \A u \in Tasks, b \in Vas, g \in Frames :
        MappedAt(u, g, b)' <=> MappedAt(u, g, b) /\ ~(u = t /\ b = va)
  BY <1>5, <1>6, Zenon DEF MappedAt
<1>8. \A u \in Tasks, b \in Vas, r \in Slots :
        SwappedAt(u, r, b)' <=> SwappedAt(u, r, b) \/ (u = t /\ b = va /\ r = s)
  BY <1>4, <1>5, <1>6, Zenon DEF SwappedAt
<1>9. pc' \in [Tasks -> {"user", "zombie"} \cup IoPlaces] /\ pc'[t] = "picking" /\ LockHeld'
  BY <1>1, <1>3, LockMoves, Zenon DEF IoPlaces
<1>10. /\ ~InFlightIn' /\ ~InFlightOut' /\ OutSlots' = {} /\ Filling' = {}
       /\ \A u \in Tasks : Leaving(u)' = {}
  BY <1>1, <1>3, <1>9, HolderNext, Zenon
<1>11. \A u \in Tasks, b \in Vas : MappedAt(u, f, b) => u = t /\ b = va
  BY <1>1, Zenon DEF FramesOK
<1>12. \A g \in Frames : MappedAt(t, g, va) => g = f
  BY <1>4, Zenon DEF MappedAt
<1>13. io.left > 0
  BY Writing, Zenon DEF OutCommit
<1>14. SwapTypeOK'
  <2>1. io' \in [frame : Frames \cup {None}, va : Nat, slot : Nat, left : Nat]
    <3>1. PICK l \in Nat : l = io.left /\ l > 0
      BY <1>13, Zenon DEF SwapTypeOK
    <3>2. io' = [NoIo EXCEPT !.left = l - 1] /\ l - 1 \in Nat
      BY <1>3, <3>1
    <3>3. NoIo \in [frame : Frames \cup {None}, va : Nat, slot : Nat, left : Nat]
      BY NoIoFields, Zenon
    <3> QED BY ONLY <3>2, <3>3
  <2>2. ref_count' \in [Frames -> Nat]
    BY <1>1, <1>2, <1>3 DEF SwapTypeOK
  <2> QED BY <1>1, <1>3, <1>5, <1>9, <2>1, <2>2, Zenon DEF SwapTypeOK
<1>15. SlotsOK'
  <2>1. \A u, w \in Tasks, a, b \in Vas, r \in Slots :
          SwappedAt(u, r, a)' /\ SwappedAt(w, r, b)' => u = w /\ a = b
    BY <1>1, <1>8 DEF SlotsOK
  <2>2. \A u \in Tasks, a \in Vas, r \in Slots : SwappedAt(u, r, a)' => r \in occupied
    BY <1>1, <1>8, Zenon DEF SlotsOK
  <2>3. \A r \in occupied : \E u \in Tasks, a \in Vas : SwappedAt(u, r, a)'
    <3> TAKE r \in occupied
    <3>1. r \in Slots
      BY Zenon DEF SwapTypeOK
    <3>2. CASE r = s
      BY <1>1, <1>8, <3>2, Zenon
    <3>3. CASE r # s
      <4>1. PICK u \in Tasks, a \in Vas : SwappedAt(u, r, a)
        BY <1>1, <3>3, Zenon DEF SlotsOK
      <4>2. SwappedAt(u, r, a)'
        BY <1>8, <3>1, <4>1, Zenon
      <4> QED BY <4>2, Zenon
    <3> QED BY <3>2, <3>3, Zenon
  <2> QED BY <1>3, <1>10, <2>1, <2>2, <2>3, Zenon DEF SlotsOK
<1>16. FramesOK'
  <2>1. \A g \in Frames : ref_count'[g] = IF g = f THEN 0 ELSE ref_count[g]
    BY <1>1, <1>2, <1>3 DEF SwapTypeOK
  <2> QED BY <1>1, <1>2, <1>3, <1>7, <1>10, <1>11, <1>12, <2>1 DEF FramesOK
<1>17. QueuesOK' /\ SwappableOK'
  <2>1. va \in swappable[t]
    BY <1>1, Zenon DEF SwappableOK
  <2>2. \A u \in Tasks, b \in Vas, g \in Frames : Queued(u, g, b)' <=> Queued(u, g, b) /\ ~(u = t /\ g = f)
    BY <1>3, <1>7, <1>11, <1>12, Zenon DEF Queued
  <2>3. QueuesOK'
    BY <1>1, <1>3, <1>10, <2>2, Zenon DEF QueuesOK
  <2>4. Swapped(s, perm) # Empty
    BY <1>6, EntryForms, Zenon
  <2>5. SwappableOK'
    BY <1>3, <1>5, <1>8, <1>10, <2>1, <2>4, Zenon DEF SwappableOK
  <2> QED BY <2>3, <2>5, Zenon
<1>18. CallOK'
  BY <1>1, <1>3, <1>9, <1>10, Zenon DEF CallOK
<1>19. ContentsOK'
  <2>1. mem[f] = value[t][va] /\ perm = granted[t][va]
    BY <1>1, <1>4, Zenon DEF ContentsOK, perm
  <2>2. \A u \in Tasks, b \in Vas : leaf'[u][b] # Empty => leaf'[u][b].perm = granted'[u][b]
    BY <1>3, <1>5, <1>6, <2>1 DEF ContentsOK
  <2>3. \A u \in Tasks, b \in Vas, g \in Frames : MappedAt(u, g, b)' => mem'[g] = value'[u][b]
    BY <1>3, <1>7 DEF ContentsOK
  <2>4. \A u \in Tasks, b \in Vas, r \in Slots : SwappedAt(u, r, b)' => disk'[r] = value'[u][b]
    <3> SUFFICES ASSUME NEW u \in Tasks, NEW b \in Vas, NEW r \in Slots, SwappedAt(u, r, b)'
                 PROVE  disk[r] = value[u][b]
      BY <1>3, Zenon
    <3>1. CASE SwappedAt(u, r, b)
      BY <3>1, Zenon DEF ContentsOK
    <3>2. CASE u = t /\ b = va /\ r = s
      BY <1>2, <2>1, <3>2, Zenon
    <3> QED BY <1>8, <3>1, <3>2, Zenon
  <2> QED BY <2>2, <2>3, <2>4, Zenon DEF ContentsOK
<1> QED BY <1>9, <1>14, <1>15, <1>16, <1>17, <1>18, <1>19, Zenon

(***************************************************************************)
(* The invariants                                                          *)
(***************************************************************************)

LEMMA SwapInitInv == SwapInit => SwapIInv
<1> SUFFICES ASSUME SwapInit PROVE SwapIInv
  BY Zenon
<1>1. \A t \in Tasks, a \in Vas : leaf[t][a] = Empty
  BY Zenon DEF SwapInit
<1>2. /\ \A t \in Tasks, a \in Vas, f \in Frames : ~MappedAt(t, f, a)
      /\ \A t \in Tasks, a \in Vas, s \in Slots : ~SwappedAt(t, s, a)
  BY <1>1, EntryForms DEF MappedAt, SwappedAt
<1>3. /\ ~InFlightIn /\ ~InFlightOut /\ OutSlots = {} /\ Filling = {}
      /\ \A u \in Tasks : Leaving(u) = {}
  BY NobodyUnderLock, Zenon DEF SwapInit
<1>4. SwapTypeOK
  <2>1. 1 \in Slots
    BY SizesAssumption DEF Slots
  <2>2. leaf \in [Tasks -> [Vas -> Entries]]
    BY EntryForms, Zenon DEF SwapInit
  <2>3. /\ mem \in [Frames -> Contents] /\ disk \in [Slots -> Contents]
        /\ value \in [Tasks -> [Vas -> Contents]]
        /\ granted \in [Tasks -> [Vas -> PageRights]]
    BY Zenon DEF SwapInit, Contents, PageRights
  <2>4. swap_list \in [Tasks -> Seq(Frames)] /\ ref_count \in [Frames -> Nat]
    BY DEF SwapInit
  <2> QED BY <2>1, <2>2, <2>3, <2>4, NoIoFields, Zenon DEF SwapInit, SwapTypeOK
<1>5. LockHeld
  BY NoneAssumption, Zenon DEF SwapInit, LockHeld, IoPlaces
<1>6. QueuesOK /\ SwappableOK
  <2>1. Len(<<>>) = 0 /\ 1 .. 0 = {}
    OBVIOUS
  <2>2. QueuesOK
    BY <1>2, <2>1, Zenon DEF SwapInit, QueuesOK, Queued, Distinct, Elems
  <2>3. SwappableOK
    BY <1>2, <1>3, Zenon DEF SwapInit, SwappableOK
  <2> QED BY <2>2, <2>3, Zenon
<1> QED BY <1>1, <1>2, <1>3, <1>4, <1>5, <1>6, Zenon DEF SwapInit, SwapIInv, SlotsOK, FramesOK, CallOK, ContentsOK

LEMMA SwapInductive == SwapIInv /\ [SwapNext]_swapVars => SwapIInv'
<1> SUFFICES ASSUME SwapIInv, [SwapNext]_swapVars PROVE SwapIInv'
  BY Zenon
<1>1. ASSUME NEW t \in Tasks, UserStep(t) PROVE SwapIInv'
  BY <1>1, StoreInv, MapPageInv, MapSwappableInv, PageFaultInv, InFailsInv, OutBeginInv, ExitInv, Zenon DEF UserStep
<1>2. ASSUME NEW t \in Tasks, IoStep(t) PROVE SwapIInv'
  BY <1>2, InReadInv, InReadFailsInv, InMapInv, OutEndInv, OutPickInv, OutPickFailsInv, OutWriteInv,
     OutWriteFailsInv, OutCommitInv, Zenon DEF IoStep
<1>3. CASE UNCHANGED swapVars
  <2>1. /\ leaf' = leaf /\ mem' = mem /\ free' = free /\ ref_count' = ref_count /\ disk' = disk
        /\ occupied' = occupied /\ next_slot' = next_slot /\ swap_list' = swap_list
        /\ io_lock' = io_lock /\ io' = io /\ pc' = pc /\ value' = value /\ granted' = granted /\ swappable' = swappable
    BY <1>3, Zenon DEF swapVars, frameVars, slotVars, lockVars, history
  <2>2. OutSlots' = OutSlots /\ Filling' = Filling /\ \A u \in Tasks : Leaving(u)' = Leaving(u)
    BY <2>1, Zenon DEF OutSlots, Filling, Leaving, InFlightIn, InFlightOut
  <2>3. SwapTypeOK' /\ LockHeld'
    BY <2>1, Zenon DEF SwapIInv, SwapTypeOK, LockHeld
  <2>4. SlotsOK'
    BY <2>1, <2>2, SlotsSame, Zenon DEF SwapIInv
  <2>5. FramesOK'
    BY <2>1, <2>2, FramesSame, Zenon DEF SwapIInv
  <2>6. QueuesOK' /\ SwappableOK' /\ ContentsOK'
    BY <2>1, <2>2, QueuesKept, ContentsKept, Zenon DEF SwapIInv
  <2>7. CallOK'
    BY <2>1, CallKept, Zenon DEF SwapIInv
  <2> QED BY <2>3, <2>4, <2>5, <2>6, <2>7, Zenon DEF SwapIInv
<1> QED BY <1>1, <1>2, <1>3, TearDownInv, RenewInv, Zenon DEF SwapNext

LEMMA SwapInvariance == SwapSpec => []SwapIInv
BY SwapInitInv, SwapInductive, PTL DEF SwapSpec

\* What a task last stored in a page is what it finds there, with the same
\* rights, however swap::in() and swap::out() of any number of tasks
\* interleave, fail, and meet the teardown of address spaces.
THEOREM SwapTransparent == SwapSpec => []PageIntact
<1>1. SwapIInv => PageIntact
  <2> SUFFICES ASSUME SwapIInv, NEW t \in Tasks, NEW va \in Vas
               PROVE  /\ leaf[t][va].kind = "page" => mem[leaf[t][va].frame] = value[t][va]
                      /\ leaf[t][va].kind = "swap" => disk[leaf[t][va].slot] = value[t][va]
                      /\ leaf[t][va] # Empty => leaf[t][va].perm = granted[t][va]
    BY Zenon DEF PageIntact
  <2>1. leaf[t][va] \in Entries /\ ContentsOK
    BY Zenon DEF SwapIInv, SwapTypeOK
  <2> QED BY <2>1, EntryFields, Zenon DEF ContentsOK, MappedAt, SwappedAt
<1> QED BY <1>1, SwapInvariance, PTL

\* Every slot, frame and queue node is accounted for at all times: reserve_slot()
\* and release_entry() leak no slot and give none out twice, reference counts
\* are the mappings there are, and a resident page that map_swappable() was
\* given is in the queue of its own address space, once, unless it is being
\* written out.
THEOREM SwapAccounted == SwapSpec => []SwapExact
<1>1. SwapIInv => SlotsExact
  <2> SUFFICES ASSUME SwapIInv PROVE SlotsExact
    BY Zenon
  <2> DEFINE out == {p \in Tasks \X Vas : leaf[p[1]][p[2]].kind = "swap"}
             slot(p) == leaf[p[1]][p[2]].slot
  <2>1. ASSUME NEW p \in out
        PROVE  p[1] \in Tasks /\ p[2] \in Vas /\ slot(p) \in Slots /\ SwappedAt(p[1], slot(p), p[2])
    <3>1. p[1] \in Tasks /\ p[2] \in Vas /\ leaf[p[1]][p[2]] \in Entries
      BY Zenon DEF SwapIInv, SwapTypeOK
    <3> QED BY <3>1, EntryFields, Zenon DEF SwappedAt
  <2>2. ASSUME NEW t \in Tasks, NEW a \in Vas, NEW s \in Slots, SwappedAt(t, s, a)
        PROVE  <<t, a>> \in out /\ slot(<<t, a>>) = s
    BY <2>2, Zenon DEF SwappedAt
  <2>3. SlotsOK /\ occupied \in SUBSET Slots
    BY Zenon DEF SwapIInv, SwapTypeOK
  <2>4. \A p, q \in out : slot(p) = slot(q) => p = q
    <3> SUFFICES ASSUME NEW p \in out, NEW q \in out, slot(p) = slot(q) PROVE p = q
      BY Zenon
    <3>1. p[1] = q[1] /\ p[2] = q[2]
      BY <2>1, <2>3 DEF SlotsOK
    <3> QED BY <3>1
  <2> HIDE DEF out, slot
  <2>5. InFlightOut => \A p \in out : slot(p) # io.slot
    BY <2>1, <2>3 DEF SlotsOK, OutSlots
  <2>6. occupied = {slot(p) : p \in out} \cup OutSlots
    <3>1. ASSUME NEW s \in occupied PROVE s \in {slot(p) : p \in out} \cup OutSlots
      BY <2>2, <2>3, <3>1, Zenon DEF SlotsOK
    <3>2. ASSUME NEW s \in {slot(p) : p \in out} \cup OutSlots PROVE s \in occupied
      <4>1. CASE s \in OutSlots
        BY <2>3, <4>1, Zenon DEF SlotsOK
      <4>2. CASE \E p \in out : s = slot(p)
        BY <2>1, <2>3, <4>2, SMTT(30) DEF SlotsOK
      <4> QED BY <3>2, <4>1, <4>2, Zenon
    <3> QED BY <3>1, <3>2, Zenon
  <2> QED BY <2>4, <2>5, <2>6, Zenon DEF SlotsExact, OutSlots, out, slot
<1>2. SwapIInv => FramesExact
  <2> SUFFICES ASSUME SwapIInv PROVE FramesExact
    BY Zenon
  <2> DEFINE in == {p \in Tasks \X Vas : leaf[p[1]][p[2]].kind = "page"}
             frame(p) == leaf[p[1]][p[2]].frame
  <2>1. ASSUME NEW p \in in
        PROVE  p[1] \in Tasks /\ p[2] \in Vas /\ frame(p) \in Frames /\ MappedAt(p[1], frame(p), p[2])
    <3>1. p[1] \in Tasks /\ p[2] \in Vas /\ leaf[p[1]][p[2]] \in Entries
      BY Zenon DEF SwapIInv, SwapTypeOK
    <3> QED BY <3>1, EntryFields, Zenon DEF MappedAt
  <2>2. ASSUME NEW t \in Tasks, NEW a \in Vas, NEW f \in Frames, MappedAt(t, f, a)
        PROVE  <<t, a>> \in in /\ frame(<<t, a>>) = f
    BY <2>2, Zenon DEF MappedAt
  <2>3. FramesOK /\ free \in SUBSET Frames
    BY Zenon DEF SwapIInv, SwapTypeOK
  <2>4. \A p, q \in in : frame(p) = frame(q) => p = q
    <3> SUFFICES ASSUME NEW p \in in, NEW q \in in, frame(p) = frame(q) PROVE p = q
      BY Zenon
    <3>1. p[1] = q[1] /\ p[2] = q[2]
      BY <2>1, <2>3 DEF FramesOK
    <3> QED BY <3>1
  <2> HIDE DEF in, frame
  <2>5. free = Frames \ ({frame(p) : p \in in} \cup Filling)
    <3>1. ASSUME NEW f \in free PROVE f \in Frames /\ f \notin {frame(p) : p \in in} \cup Filling
      BY <2>1, <2>3, <3>1 DEF FramesOK
    <3>2. ASSUME NEW f \in Frames, f \notin {frame(p) : p \in in} \cup Filling PROVE f \in free
      BY <2>2, <2>3, <3>2, Zenon DEF FramesOK
    <3> QED BY <3>1, <3>2, Zenon
  <2>6. \A p \in in : frame(p) \notin Filling
    BY <2>1, <2>3, Zenon DEF FramesOK
  <2>7. \A f \in Frames : ref_count[f] = IF \E p \in in : frame(p) = f THEN 1 ELSE 0
    <3> TAKE f \in Frames
    <3>1. CASE \E p \in in : frame(p) = f
      BY <2>1, <2>3, <3>1 DEF FramesOK
    <3>2. CASE ~\E p \in in : frame(p) = f
      BY <2>2, <2>3, <3>2, Zenon DEF FramesOK
    <3> QED BY <3>1, <3>2, Zenon
  <2> QED BY <2>4, <2>5, <2>6, <2>7, Zenon DEF FramesExact, Filling, in, frame
<1>3. SwapIInv => QueueExact
  <2> SUFFICES ASSUME SwapIInv, NEW t \in Tasks
               PROVE  /\ Elems(swap_list[t]) =
                           {leaf[t][va].frame : va \in {u \in swappable[t] : leaf[t][u].kind = "page"}}
                             \ Leaving(t)
                      /\ Distinct(swap_list[t])
    BY Zenon DEF QueueExact, Leaving
  <2> DEFINE mapped == {leaf[t][va].frame : va \in {u \in swappable[t] : leaf[t][u].kind = "page"}}
  <2>1. \A u \in swappable[t] : u \in Vas /\ leaf[t][u] \in Entries
    BY Zenon DEF SwapIInv, SwapTypeOK
  <2>2. mapped \in SUBSET Frames
    BY <2>1, EntryFields, Zenon
  <2>3. \A f \in Frames : f \in mapped <=> \E a \in Vas : Queued(t, f, a)
    BY <2>1, Zenon DEF MappedAt, Queued
  <2>4. swap_list[t] \in Seq(Frames)
    BY Zenon DEF SwapIInv, SwapTypeOK
  <2>5. Elems(swap_list[t]) \in SUBSET Frames
    BY <2>4 DEF Elems
  <2>6. QueuesOK
    BY Zenon DEF SwapIInv
  <2> HIDE DEF mapped
  <2>7. Elems(swap_list[t]) = mapped \ Leaving(t) /\ Distinct(swap_list[t])
    BY <2>2, <2>3, <2>5, <2>6, Zenon DEF QueuesOK
  <2> QED BY <2>7, Zenon DEF mapped
<1> QED BY <1>1, <1>2, <1>3, SwapInvariance, PTL DEF SwapExact

(***************************************************************************)
(* The page allocator                                                      *)
(***************************************************************************)

\* The first pages of the free runs, the block that is being freed included.
Heads == Range(free_list)
Starts == Heads \cup (IF le = 0 THEN {} ELSE {base})

\* The pages of the runs that start in S; the pages of the regions that are
\* handed over; the first pages of all regions.
Cover(S, size) == UNION {Run(p, size[p]) : p \in S}
Handed == UNION {Region(i) : i \in 1 .. given}
RegionStarts == {boot[i][1] : i \in 1 .. Len(boot)}

\* Block b lies beside the run at p.
Beside(first, pages, p, size) == p + size[p] <= first \/ first + pages <= p

AllocTypeOK ==
  /\ boot \in BootMaps /\ given \in 0 .. Len(boot)
  /\ free_list \in Seq(Pages) /\ IsInjective(free_list)
  /\ free_page_count \in Nat
  /\ block_page_count \in [Pages -> Nat]
  /\ reserved \subseteq Pages
  /\ held \subseteq [base : Pages, count : Nat \ {0}, kmalloc : BOOLEAN]
  /\ le \in 0 .. Len(free_list) + 1 /\ base \in Nat /\ count \in Nat

\* Where the loop of free() is: its block is no run of the list yet.
LoopOK ==
  /\ le = 0 => count = 0
  /\ le # 0 => base \in Pages \ Heads /\ given = Len(boot)
  /\ given < Len(boot) => Heads \subseteq RegionStarts

\* The runs have pages, all of regions that were handed over, and are apart.
RunsOK(S, size, pages) ==
  /\ S \subseteq Pages
  /\ \A p \in S : size[p] > 0 /\ Run(p, size[p]) \subseteq pages
  /\ \A p, q \in S : p < q => p + size[p] <= q

\* The counter and the marks are those of the runs.
CountedOK ==
  /\ IsFiniteSet(Cover(Starts, block_page_count))
  /\ free_page_count + count = Cardinality(Cover(Starts, block_page_count))
  /\ reserved \cap Handed = Starts

\* The blocks of the callers are beside the runs and each other; kmalloc()
\* remembers the sizes of its own.
HeldOK ==
  /\ \A b \in held : /\ Run(b.base, b.count) \subseteq Handed
                     /\ \A p \in Starts : Beside(b.base, b.count, p, block_page_count)
                     /\ b.kmalloc => block_page_count[b.base] = b.count
  /\ \A b, c \in held : b # c => b.base + b.count <= c.base \/ c.base + c.count <= b.base

\* Runs that touch meet where a region starts; the block that is being freed
\* touches none of the runs that the loop has passed, but there.
MergedOK ==
  /\ Coalesced
  /\ \A i \in 1 .. le - 1 :
      /\ base + block_page_count[base] = free_list[i] => free_list[i] \in RegionStarts
      /\ free_list[i] + block_page_count[free_list[i]] = base => base \in RegionStarts

\* The pages of all free runs, the block that is being freed included.
FreeCover == Cover(Starts, block_page_count)

AllocInv ==
  /\ AllocTypeOK /\ LoopOK /\ RunsOK(Starts, block_page_count, Handed)
  /\ CountedOK /\ HeldOK /\ MergedOK

(***************************************************************************)
(* The list                                                                *)
(***************************************************************************)

LEMMA RangeMember ==
  ASSUME NEW S, NEW s \in Seq(S)
  PROVE  /\ Range(s) \subseteq S
         /\ \A x : x \in Range(s) <=> \E i \in 1 .. Len(s) : s[i] = x
BY DEF Range

LEMMA AppendList ==
  ASSUME NEW S, NEW s \in Seq(S), IsInjective(s), NEW x \in S, x \notin Range(s)
  PROVE  /\ Append(s, x) \in Seq(S) /\ IsInjective(Append(s, x))
         /\ Len(Append(s, x)) = Len(s) + 1
         /\ Range(Append(s, x)) = Range(s) \cup {x}
         /\ \A i \in 1 .. Len(s) : Append(s, x)[i] = s[i]
<1> DEFINE t == Append(s, x)
<1>1. t \in Seq(S) /\ Len(t) = Len(s) + 1 /\ DOMAIN t = 1 .. Len(s) + 1
  OBVIOUS
<1>2. \A i \in 1 .. Len(s) : t[i] = s[i]
  OBVIOUS
<1>3. t[Len(s) + 1] = x
  OBVIOUS
<1> HIDE DEF t
<1>4. Range(t) = Range(s) \cup {x}
  <2>1. \A y : y \in Range(t) <=> \E i \in 1 .. Len(s) + 1 : t[i] = y
    BY <1>1, RangeMember, Zenon
  <2>2. \A y : y \in Range(s) <=> \E i \in 1 .. Len(s) : s[i] = y
    BY RangeMember, Zenon
  <2>3. Len(s) \in Nat
    OBVIOUS
  <2> QED BY <1>2, <1>3, <2>1, <2>2, <2>3
<1>5. IsInjective(t)
  <2>1. DOMAIN s = 1 .. Len(s) /\ Len(s) \in Nat
    OBVIOUS
  <2>2. \A i \in 1 .. Len(s) : s[i] # x
    BY RangeMember, Zenon
  <2> QED BY <1>1, <1>2, <1>3, <2>1, <2>2 DEF IsInjective
<1> QED BY <1>1, <1>2, <1>4, <1>5, Zenon DEF t

LEMMA RemoveList ==
  ASSUME NEW S, NEW s \in Seq(S), IsInjective(s), NEW k \in 1 .. Len(s)
  PROVE  /\ Unlink(s, k) \in Seq(S) /\ IsInjective(Unlink(s, k))
         /\ Len(Unlink(s, k)) = Len(s) - 1
         /\ Range(Unlink(s, k)) = Range(s) \ {s[k]}
         /\ \A i \in 1 .. k - 1 : Unlink(s, k)[i] = s[i]
<1> DEFINE t == Unlink(s, k)
<1>0. Len(s) \in Nat /\ DOMAIN s = 1 .. Len(s) /\ k \in Nat /\ k <= Len(s)
  OBVIOUS
<1>1. t \in Seq(S) /\ Len(t) = Len(s) - 1
  BY <1>0 DEF Unlink
<1>2. \A i \in 1 .. k - 1 : t[i] = s[i]
  BY <1>0 DEF Unlink
<1>3. \A i \in k .. Len(s) - 1 : t[i] = s[i + 1]
  BY <1>0 DEF Unlink
<1> HIDE DEF t
<1>4. DOMAIN t = 1 .. Len(s) - 1
  BY <1>1
<1>5. IsInjective(t)
  <2> SUFFICES ASSUME NEW i \in 1 .. Len(s) - 1, NEW j \in 1 .. Len(s) - 1, t[i] = t[j]
               PROVE  i = j
    BY <1>4, Zenon DEF IsInjective
  <2>1. \A x \in 1 .. Len(s) - 1 : t[x] = IF x < k THEN s[x] ELSE s[x + 1]
    BY <1>0, <1>2, <1>3
  <2>2. \A x, y \in 1 .. Len(s) : s[x] = s[y] => x = y
    BY <1>0, Zenon DEF IsInjective
  <2>3. (IF i < k THEN i ELSE i + 1) = IF j < k THEN j ELSE j + 1
    BY <1>0, <2>1, <2>2
  <2> QED BY <1>0, <2>3
<1>6. Range(t) = Range(s) \ {s[k]}
  <2>1. \A y : y \in Range(t) <=> \E i \in 1 .. Len(s) - 1 : t[i] = y
    BY <1>1, RangeMember, Zenon
  <2>2. \A y : y \in Range(s) <=> \E i \in 1 .. Len(s) : s[i] = y
    BY RangeMember, Zenon
  <2>3. \A i, j \in 1 .. Len(s) : s[i] = s[j] => i = j
    BY <1>0, Zenon DEF IsInjective
  <2>4. ASSUME NEW y \in Range(t) PROVE y \in Range(s) \ {s[k]}
    <3>1. PICK i \in 1 .. Len(s) - 1 : t[i] = y
      BY <2>1, Zenon
    <3>2. CASE i <= k - 1
      BY <1>0, <1>2, <2>2, <2>3, <3>1, <3>2
    <3>3. CASE i >= k
      BY <1>0, <1>3, <2>2, <2>3, <3>1, <3>3
    <3> QED BY <1>0, <3>2, <3>3
  <2>5. ASSUME NEW y \in Range(s), y # s[k] PROVE y \in Range(t)
    <3>1. PICK i \in 1 .. Len(s) : s[i] = y
      BY <2>2, Zenon
    <3>2. CASE i <= k - 1
      BY <1>0, <1>2, <2>1, <3>1, <3>2
    <3>3. CASE i > k
      <4>1. t[i - 1] = y /\ i - 1 \in 1 .. Len(s) - 1
        BY <1>0, <1>3, <3>1, <3>3
      <4> QED BY <2>1, <4>1, Zenon
    <3> QED BY <1>0, <2>5, <3>1, <3>2, <3>3
  <2> QED BY <2>4, <2>5, Zenon
<1> QED BY <1>1, <1>2, <1>5, <1>6, Zenon DEF t

LEMMA ReplaceList ==
  ASSUME NEW S, NEW s \in Seq(S), IsInjective(s), NEW k \in 1 .. Len(s),
         NEW x \in S, x \notin Range(s), NEW t \in Seq(S), Len(t) = Len(s),
         t[k] = x, \A i \in 1 .. Len(s) : i # k => t[i] = s[i]
  PROVE  /\ IsInjective(t)
         /\ Range(t) = (Range(s) \ {s[k]}) \cup {x}
<1>0. DOMAIN s = 1 .. Len(s)
  OBVIOUS
<1>1. DOMAIN t = 1 .. Len(s)
  OBVIOUS
<1>2. t[k] = x /\ \A i \in 1 .. Len(s) : i # k => t[i] = s[i]
  BY Zenon
<1>3. \A y : y \in Range(t) <=> \E i \in 1 .. Len(s) : t[i] = y
  BY <1>1, RangeMember
<1>4. \A y : y \in Range(s) <=> \E i \in 1 .. Len(s) : s[i] = y
  BY RangeMember, Zenon
<1>5. \A i, j \in 1 .. Len(s) : s[i] = s[j] => i = j
  BY <1>0, Zenon DEF IsInjective
<1>6. IsInjective(t)
  BY <1>1, <1>2, <1>4, <1>5 DEF IsInjective
<1>7. Range(t) = (Range(s) \ {s[k]}) \cup {x}
  BY <1>2, <1>3, <1>4, <1>5
<1> QED BY <1>6, <1>7, Zenon

(***************************************************************************)
(* Runs of pages                                                           *)
(***************************************************************************)

LEMMA RunMember ==
  ASSUME NEW first \in Int, NEW n \in Int
  PROVE  \A x : x \in Run(first, n) <=> x \in Int /\ first <= x /\ x < first + n
BY DEF Run

\* Pages that lie beside a run lie beside its parts.
LEMMA PartBeside ==
  ASSUME NEW page \in Nat, NEW size \in Nat, NEW n \in Nat, n <= size,
         NEW x \in Nat, NEW m \in Nat, x + m <= page \/ page + size <= x
  PROVE  /\ x + m <= page \/ page + n <= x
         /\ x + m <= page + n \/ page + size <= x
OBVIOUS

\* No run beside a run ends inside it.
LEMMA NoEndInside ==
  ASSUME NEW page \in Nat, NEW size \in Nat, NEW n \in Nat \ {0}, size > n,
         NEW x \in Nat, NEW m \in Nat \ {0}, x + m <= page \/ page + size <= x
  PROVE  x + m # page + n
OBVIOUS

\* The place in a list of which one node is unlinked.
LEMMA PlaceInside ==
  ASSUME NEW m \in Nat, NEW x \in 1 .. m, NEW l, l = m - 1
  PROVE  x \in 0 .. l + 1 /\ l \in Nat
OBVIOUS

LEMMA RunSize ==
  ASSUME NEW first \in Int, NEW n \in Nat
  PROVE  IsFiniteSet(Run(first, n)) /\ Cardinality(Run(first, n)) = n
<1>1. /\ IsFiniteSet(first .. first + n - 1)
      /\ Cardinality(first .. first + n - 1) =
           IF first > first + n - 1 THEN 0 ELSE first + n - 1 - first + 1
  <2>1. first + n - 1 \in Int
    OBVIOUS
  <2> QED BY <2>1, FS_Interval
<1>2. (IF first > first + n - 1 THEN 0 ELSE first + n - 1 - first + 1) = n
  OBVIOUS
<1> QED BY <1>1, <1>2 DEF Run

LEMMA RunTypes ==
  ASSUME NEW S, NEW size \in [Pages -> Nat], NEW pages, RunsOK(S, size, pages)
  PROVE  S \subseteq Pages /\ S \subseteq Nat /\ \A p \in S : size[p] \in Nat \ {0}
<1>1. S \subseteq Pages /\ \A p \in S : size[p] > 0
  BY Zenon DEF RunsOK
<1>2. Pages \subseteq Nat
  BY PagesAssumption, Zenon
<1>3. ASSUME NEW p \in S PROVE size[p] \in Nat \ {0}
  <2>1. size[p] \in Nat /\ size[p] > 0
    BY <1>1, Zenon
  <2> QED BY <2>1
<1> QED BY <1>1, <1>2, <1>3, Zenon

\* Runs that are apart have no page in common.
LEMMA RunsApart ==
  ASSUME NEW S, NEW size \in [Pages -> Nat], NEW pages, RunsOK(S, size, pages),
         NEW p \in S, NEW q \in S, p # q
  PROVE  Run(p, size[p]) \cap Run(q, size[q]) = {}
<1>1. p \in Nat /\ q \in Nat /\ size[p] \in Nat /\ size[q] \in Nat
  BY PagesAssumption, Zenon DEF RunsOK
<1>2. p + size[p] <= q \/ q + size[q] <= p
  BY <1>1 DEF RunsOK
<1> QED BY <1>1, <1>2, RunMember

LEMMA CoverMember ==
  ASSUME NEW S, NEW size
  PROVE  \A x : x \in Cover(S, size) <=> \E p \in S : x \in Run(p, size[p])
BY Zenon DEF Cover

LEMMA CoverInside ==
  ASSUME NEW S, NEW size, NEW pages, RunsOK(S, size, pages)
  PROVE  Cover(S, size) \subseteq pages
BY Zenon DEF Cover, RunsOK

\* A run of other pages joins (init_memmap(), and free() at its start).
LEMMA RunsJoin ==
  ASSUME NEW S, NEW size \in [Pages -> Nat], NEW pages, NEW more, RunsOK(S, size, pages),
         pages \subseteq more, NEW first \in Pages, NEW n \in Nat \ {0},
         Run(first, n) \subseteq more,
         \A p \in S : Beside(first, n, p, size)
  PROVE  LET now == [size EXCEPT ![first] = n]
         IN /\ first \notin S
            /\ RunsOK(S \cup {first}, now, more)
            /\ Cover(S \cup {first}, now) = Cover(S, size) \cup Run(first, n)
            /\ Cover(S, size) \cap Run(first, n) = {}
<1> DEFINE now == [size EXCEPT ![first] = n]
<1>1. S \subseteq Nat /\ first \in Nat /\ \A p \in S : size[p] \in Nat \ {0}
  BY RunTypes, PagesAssumption, Zenon
<1>2. first \notin S
  BY <1>1 DEF Beside
<1>3. now \in [Pages -> Nat] /\ now[first] = n /\ \A p \in S : now[p] = size[p]
  BY <1>2, Zenon DEF RunsOK
<1> HIDE DEF now
<1>4. RunsOK(S \cup {first}, now, more)
  <2>1. S \cup {first} \subseteq Pages
    BY Zenon DEF RunsOK
  <2>2. \A p \in S \cup {first} : now[p] > 0 /\ Run(p, now[p]) \subseteq more
    BY <1>3 DEF RunsOK
  <2>3. \A p, q \in S \cup {first} : p < q => p + now[p] <= q
    BY <1>1, <1>3 DEF RunsOK, Beside
  <2> QED BY <2>1, <2>2, <2>3, Zenon DEF RunsOK
<1>5. Cover(S \cup {first}, now) = Cover(S, size) \cup Run(first, n)
  <2>1. \A x : x \in Cover(S \cup {first}, now)
                 <=> \E p \in S \cup {first} : x \in Run(p, now[p])
    BY CoverMember, Zenon
  <2>2. \A x : x \in Cover(S, size) <=> \E p \in S : x \in Run(p, size[p])
    BY CoverMember, Zenon
  <2> QED BY <1>3, <2>1, <2>2, Zenon
<1>6. Cover(S, size) \cap Run(first, n) = {}
  <2> SUFFICES ASSUME NEW p \in S PROVE Run(p, size[p]) \cap Run(first, n) = {}
    BY CoverMember
  <2>1. p + size[p] <= first \/ first + n <= p
    BY Zenon DEF Beside
  <2>2. \A x : x \in Run(first, n) <=> x \in Int /\ first <= x /\ x < first + n
    BY <1>1, RunMember
  <2>3. \A x : x \in Run(p, size[p]) <=> x \in Int /\ p <= x /\ x < p + size[p]
    BY <1>1, RunMember
  <2> QED BY <1>1, <2>1, <2>2, <2>3
<1> QED BY <1>2, <1>4, <1>5, <1>6, Zenon DEF now

\* Two runs that touch become one (the loop of free()).
LEMMA RunsMerge ==
  ASSUME NEW S, NEW size \in [Pages -> Nat], NEW pages, RunsOK(S, size, pages),
         NEW x \in S, NEW y \in S, x + size[x] = y
  PROVE  LET now == [size EXCEPT ![x] = size[x] + size[y]]
         IN /\ x # y /\ now \in [Pages -> Nat]
            /\ RunsOK(S \ {y}, now, pages)
            /\ Cover(S \ {y}, now) = Cover(S, size)
<1> DEFINE now == [size EXCEPT ![x] = size[x] + size[y]]
<1>1. S \subseteq Nat /\ \A p \in S : size[p] \in Nat \ {0}
  BY RunTypes, Zenon
<1>2. x # y /\ S \subseteq Pages
  BY <1>1 DEF RunsOK
<1>3. now \in [Pages -> Nat] /\ now[x] = size[x] + size[y]
      /\ \A p \in S : p # x => now[p] = size[p]
  BY <1>1, <1>2
<1> HIDE DEF now
<1>4. Run(x, now[x]) = Run(x, size[x]) \cup Run(y, size[y])
  <2>1. \A z : z \in Run(x, now[x]) <=> z \in Int /\ x <= z /\ z < x + now[x]
    BY <1>1, <1>2, <1>3, RunMember
  <2>2. \A z : z \in Run(x, size[x]) <=> z \in Int /\ x <= z /\ z < x + size[x]
    BY <1>1, RunMember
  <2>3. \A z : z \in Run(y, size[y]) <=> z \in Int /\ y <= z /\ z < y + size[y]
    BY <1>1, RunMember
  <2> QED BY <1>1, <1>3, <2>1, <2>2, <2>3
<1>5. RunsOK(S \ {y}, now, pages)
  <2>1. \A p \in S \ {y} : now[p] > 0 /\ Run(p, now[p]) \subseteq pages
    <3> SUFFICES ASSUME NEW p \in S \ {y} PROVE now[p] > 0 /\ Run(p, now[p]) \subseteq pages
      BY Zenon
    <3>1. CASE p = x
      BY <1>1, <1>3, <1>4, <3>1 DEF RunsOK
    <3>2. CASE p # x
      BY <1>3, <3>2, Zenon DEF RunsOK
    <3> QED BY <3>1, <3>2, Zenon
  <2>2. ASSUME NEW p \in S \ {y}, NEW q \in S \ {y}, p < q PROVE p + now[p] <= q
    <3>1. p + size[p] <= q
      BY <2>2, Zenon DEF RunsOK
    <3>2. CASE p = x
      <4>1. y < q
        BY <1>1, <3>1, <3>2
      <4>2. y + size[y] <= q
        BY <4>1, Zenon DEF RunsOK
      <4> QED BY <1>1, <1>3, <3>2, <4>2
    <3>3. CASE p # x
      BY <1>3, <3>1, <3>3, Zenon
    <3> QED BY <3>2, <3>3, Zenon
  <2> QED BY <1>2, <2>1, <2>2, Zenon DEF RunsOK
<1>6. Cover(S \ {y}, now) = Cover(S, size)
  <2>1. \A z : z \in Cover(S \ {y}, now) <=> \E p \in S \ {y} : z \in Run(p, now[p])
    BY CoverMember, Zenon
  <2>2. \A z : z \in Cover(S, size) <=> \E p \in S : z \in Run(p, size[p])
    BY CoverMember, Zenon
  <2>3. \A p \in S : p # x => Run(p, now[p]) = Run(p, size[p])
    BY <1>3, Zenon
  <2> QED BY <1>2, <1>4, <2>1, <2>2, <2>3, Zenon
<1> QED BY <1>2, <1>3, <1>5, <1>6, Zenon DEF now

\* A run goes, and all its pages with it (alloc() of a whole run).
LEMMA RunsTake ==
  ASSUME NEW S, NEW size \in [Pages -> Nat], NEW pages, RunsOK(S, size, pages),
         NEW first \in S, NEW now \in [Pages -> Nat],
         \A p \in S \ {first} : now[p] = size[p]
  PROVE  /\ RunsOK(S \ {first}, now, pages)
         /\ Cover(S \ {first}, now) = Cover(S, size) \ Run(first, size[first])
         /\ Run(first, size[first]) \subseteq Cover(S, size)
<1>1. RunsOK(S \ {first}, now, pages)
  BY Zenon DEF RunsOK
<1>2. \A x : x \in Cover(S \ {first}, now) <=> \E p \in S \ {first} : x \in Run(p, now[p])
  BY CoverMember, Zenon
<1>3. \A x : x \in Cover(S, size) <=> \E p \in S : x \in Run(p, size[p])
  BY CoverMember, Zenon
<1>4. \A p \in S \ {first} : Run(p, size[p]) \cap Run(first, size[first]) = {}
  BY RunsApart, Zenon
<1> QED BY <1>1, <1>2, <1>3, <1>4, Zenon

\* The first pages of a run go, the rest is a run (alloc() of a part).
LEMMA RunsSplit ==
  ASSUME NEW S, NEW size \in [Pages -> Nat], NEW pages, pages \subseteq Pages,
         RunsOK(S, size, pages),
         NEW first \in S, NEW n \in Nat \ {0}, n < size[first],
         NEW now \in [Pages -> Nat], now[first + n] = size[first] - n,
         \A p \in S \ {first} : now[p] = size[p]
  PROVE  LET T == (S \ {first}) \cup {first + n}
         IN /\ first + n \in Pages \ S
            /\ RunsOK(T, now, pages)
            /\ Cover(T, now) = Cover(S, size) \ Run(first, n)
            /\ Run(first, n) \subseteq Cover(S, size)
<1> DEFINE rest == first + n
           T == (S \ {first}) \cup {rest}
<1>1. S \subseteq Pages /\ S \subseteq Nat /\ \A p \in S : size[p] \in Nat \ {0}
  BY RunTypes, Zenon
<1>2. rest \in Nat /\ now[rest] \in Nat \ {0} /\ rest + now[rest] = first + size[first]
  BY <1>1
<1> HIDE DEF rest
<1>3. rest \in Run(first, size[first]) /\ Run(first, n) \subseteq Run(first, size[first])
  <2>1. \A x : x \in Run(first, size[first]) <=> x \in Int /\ first <= x /\ x < first + size[first]
    BY <1>1, RunMember
  <2>2. \A x : x \in Run(first, n) <=> x \in Int /\ first <= x /\ x < first + n
    BY <1>1, RunMember
  <2> QED BY <1>1, <1>2, <2>1, <2>2 DEF rest
<1>4. Run(rest, now[rest]) = Run(first, size[first]) \ Run(first, n)
  <2>1. \A x : x \in Run(first, size[first]) <=> x \in Int /\ first <= x /\ x < first + size[first]
    BY <1>1, RunMember
  <2>2. \A x : x \in Run(first, n) <=> x \in Int /\ first <= x /\ x < first + n
    BY <1>1, RunMember
  <2>3. \A x : x \in Run(rest, now[rest]) <=> x \in Int /\ rest <= x /\ x < rest + now[rest]
    BY <1>2, RunMember
  <2>4. ASSUME NEW x
        PROVE  x \in Run(rest, now[rest]) <=> x \in Run(first, size[first]) /\ x \notin Run(first, n)
    <3>1. rest = first + n /\ first \in Nat /\ n \in Nat /\ size[first] \in Nat
      BY <1>1 DEF rest
    <3> QED BY <1>2, <2>1, <2>2, <2>3, <3>1
  <2> QED BY <2>4, Zenon
<1>5. rest \in Pages
  BY <1>3, Zenon DEF RunsOK
<1>6. ASSUME NEW p \in S, p # first PROVE p + size[p] <= first \/ first + size[first] <= p
  <2>1. p < first \/ first < p
    BY <1>1, <1>6
  <2> QED BY <2>1, Zenon DEF RunsOK
<1>7. rest \notin S
  <2> SUFFICES ASSUME rest \in S PROVE FALSE
    BY Zenon
  <2>1. rest # first
    BY <1>1 DEF rest
  <2>2. rest + size[rest] <= first \/ first + size[first] <= rest
    BY <1>6, <2>1, Zenon
  <2> QED BY <1>1, <1>2, <2>2 DEF rest
<1>8. RunsOK(T, now, pages)
  <2>1. T \subseteq Pages
    BY <1>1, <1>5, Zenon
  <2>2. ASSUME NEW p \in T PROVE now[p] > 0 /\ Run(p, now[p]) \subseteq pages
    <3>1. CASE p = rest
      <4>1. Run(first, size[first]) \subseteq pages
        BY Zenon DEF RunsOK
      <4> QED BY <1>2, <1>4, <3>1, <4>1
    <3>2. CASE p # rest
      BY <2>2, <3>2, Zenon DEF RunsOK
    <3> QED BY <3>1, <3>2, Zenon
  <2>3. ASSUME NEW p \in T, NEW q \in T, p < q PROVE p + now[p] <= q
    <3>1. CASE p = rest
      <4>1. q \in S /\ q # first
        BY <1>2, <2>3, <3>1
      <4>2. q + size[q] <= first \/ first + size[first] <= q
        BY <1>6, <4>1, Zenon
      <4> QED BY <1>1, <1>2, <2>3, <3>1, <4>1, <4>2 DEF rest
    <3>2. CASE q = rest /\ p # rest
      <4>1. p \in S /\ p # first /\ now[p] = size[p]
        BY <3>2, Zenon
      <4>2. p + size[p] <= first \/ first + size[first] <= p
        BY <1>6, <4>1, Zenon
      <4> QED BY <1>1, <1>2, <2>3, <3>2, <4>1, <4>2 DEF rest
    <3>3. CASE p # rest /\ q # rest
      BY <2>3, <3>3, Zenon DEF RunsOK
    <3> QED BY <3>1, <3>2, <3>3, Zenon
  <2> QED BY <2>1, <2>2, <2>3, Zenon DEF RunsOK
<1>9. Cover(T, now) = Cover(S, size) \ Run(first, n) /\ Run(first, n) \subseteq Cover(S, size)
  <2>1. \A x : x \in Cover(T, now) <=> \E p \in T : x \in Run(p, now[p])
    BY CoverMember, Zenon
  <2>2. \A x : x \in Cover(S, size) <=> \E p \in S : x \in Run(p, size[p])
    BY CoverMember, Zenon
  <2>3. \A p \in S \ {first} : Run(p, size[p]) \cap Run(first, size[first]) = {}
    BY RunsApart, Zenon
  <2>4. \A p \in S \ {first} : p # rest /\ Run(p, now[p]) = Run(p, size[p])
    BY <1>7, Zenon
  <2> HIDE DEF T
  <2>5. \A p : p \in T <=> p = rest \/ (p \in S /\ p # first)
    BY Zenon DEF T
  <2> QED BY <1>3, <1>4, <2>1, <2>2, <2>3, <2>4, <2>5
<1> QED BY <1>5, <1>7, <1>8, <1>9, Zenon DEF rest

\* Runs without a common page lie beside each other.
LEMMA RunsBeside ==
  ASSUME NEW a \in Nat, NEW m \in Nat \ {0}, NEW b \in Nat, NEW n \in Nat \ {0},
         Run(a, m) \cap Run(b, n) = {}
  PROVE  a + m <= b \/ b + n <= a
<1>1. \A x : x \in Run(a, m) <=> x \in Int /\ a <= x /\ x < a + m
  BY RunMember
<1>2. \A x : x \in Run(b, n) <=> x \in Int /\ b <= x /\ x < b + n
  BY RunMember
<1>3. CASE a <= b
  <2>1. b \in Run(b, n)
    BY <1>2
  <2>2. b \notin Run(a, m)
    BY <2>1, Zenon
  <2>3. ~(b < a + m)
    BY <1>1, <1>3, <2>2
  <2> QED BY <2>3
<1>4. CASE b < a
  <2>1. a \in Run(a, m)
    BY <1>1
  <2>2. a \notin Run(b, n)
    BY <2>1, Zenon
  <2>3. ~(a < b + n)
    BY <1>2, <1>4, <2>2
  <2> QED BY <2>3
<1> QED BY <1>3, <1>4

LEMMA CountJoin ==
  ASSUME NEW A, IsFiniteSet(A), NEW first \in Int, NEW n \in Nat, A \cap Run(first, n) = {}
  PROVE  /\ IsFiniteSet(A \cup Run(first, n))
         /\ Cardinality(A \cup Run(first, n)) = Cardinality(A) + n
<1> DEFINE R == Run(first, n)
<1>1. IsFiniteSet(R) /\ Cardinality(R) = n
  BY RunSize, Zenon
<1> HIDE DEF R
<1>2. /\ IsFiniteSet(A \cup R)
      /\ Cardinality(A \cup R) = Cardinality(A) + Cardinality(R) - Cardinality(A \cap R)
  BY <1>1, FS_Union, Zenon
<1>3. A \cap R = {} /\ Cardinality({}) = 0
  BY FS_EmptySet, Zenon DEF R
<1>4. Cardinality(A) \in Nat
  BY FS_CardinalityType, Zenon
<1>5. Cardinality(A \cup R) = Cardinality(A) + n
  <2>1. Cardinality(A \cap R) = 0
    BY <1>3, Zenon
  <2> QED BY <1>1, <1>2, <1>4, <2>1
<1> QED BY <1>2, <1>5, Zenon DEF R

LEMMA CountTake ==
  ASSUME NEW A, IsFiniteSet(A), NEW first \in Int, NEW n \in Nat, Run(first, n) \subseteq A
  PROVE  /\ IsFiniteSet(A \ Run(first, n))
         /\ Cardinality(A \ Run(first, n)) = Cardinality(A) - n
<1> DEFINE R == Run(first, n)
<1>1. IsFiniteSet(R) /\ Cardinality(R) = n
  BY RunSize, Zenon
<1> HIDE DEF R
<1>2. /\ IsFiniteSet(A \ R)
      /\ Cardinality(A \ R) = Cardinality(A) - Cardinality(A \cap R)
  BY FS_Difference, Zenon
<1>3. A \cap R = R
  BY Zenon DEF R
<1> QED BY <1>1, <1>2, <1>3, Zenon DEF R

\* What the memory map of the boot loader gives.
LEMMA Regions ==
  ASSUME boot \in BootMaps
  PROVE  /\ Len(boot) \in Nat
         /\ \A i \in 1 .. Len(boot) : /\ boot[i][1] \in Pages /\ boot[i][1] \in Nat
                                      /\ boot[i][2] \in Nat \ {0}
                                      /\ Region(i) \subseteq Pages
         /\ \A i, j \in 1 .. Len(boot) : i # j => Region(i) \cap Region(j) = {}
<1>1. /\ boot \in Seq(Pages \X (Nat \ {0}))
      /\ \A i \in 1 .. Len(boot) : Region(i) \subseteq Pages
      /\ \A i, j \in 1 .. Len(boot) : i # j => Region(i) \cap Region(j) = {}
  BY PagesAssumption, Zenon DEF Region
<1>2. Len(boot) \in Nat /\ \A i \in 1 .. Len(boot) : boot[i] \in Pages \X (Nat \ {0})
  BY <1>1
<1>3. \A i \in 1 .. Len(boot) : boot[i][1] \in Pages /\ boot[i][2] \in Nat \ {0}
  BY <1>2, Zenon
<1> QED BY <1>1, <1>2, <1>3, PagesAssumption, Zenon

LEMMA HandedPages ==
  ASSUME boot \in BootMaps, given \in 0 .. Len(boot)
  PROVE  Handed \subseteq Pages
BY Regions DEF Handed

\* The coalescing that Coalesced claims, with RegionStarts.
LEMMA CoalescedHeads ==
  Coalesced <=> \A p, q \in Heads : p + block_page_count[p] = q => q \in RegionStarts
BY Zenon DEF Coalesced, Heads, RegionStarts

\* The state that the boot leaves (page_init()) satisfies the invariant.
LEMMA AllocInitOK == AllocInit => AllocInv
<1> SUFFICES ASSUME AllocInit PROVE AllocInv
  BY Zenon
<1>1. Heads = {} /\ Starts = {}
  BY DEF AllocInit, Heads, Starts, Range
<1>2. Handed = {}
  BY DEF AllocInit, Handed
<1>3. Cover(Starts, block_page_count) = {}
  BY <1>1, Zenon DEF Cover
<1>4. AllocTypeOK
  <2>1. IsInjective(<<>>)
    BY DEF IsInjective
  <2> QED BY <2>1, Regions DEF AllocInit, AllocTypeOK
<1>5. LoopOK
  BY <1>1, Zenon DEF AllocInit, LoopOK
<1>6. RunsOK(Starts, block_page_count, Handed)
  BY <1>1, Zenon DEF RunsOK
<1>7. CountedOK
  <2>1. IsFiniteSet({}) /\ Cardinality({}) = 0
    BY FS_EmptySet, Zenon
  <2>2. free_page_count + count = 0
    BY DEF AllocInit
  <2> QED BY <1>1, <1>2, <1>3, <2>1, <2>2, Zenon DEF CountedOK
<1>8. HeldOK
  BY Zenon DEF AllocInit, HeldOK
<1>9. MergedOK
  <2>1. Coalesced
    BY <1>1, CoalescedHeads, Zenon
  <2> QED BY <2>1 DEF AllocInit, MergedOK
<1> QED BY <1>4, <1>5, <1>6, <1>7, <1>8, <1>9, Zenon DEF AllocInv

(***************************************************************************)
(* The steps                                                               *)
(***************************************************************************)

\* init_memmap() of the next region.
LEMMA InitMemmapKeeps ==
  ASSUME AllocInv, InitMemmap
  PROVE  AllocInv' /\ FreeCover' = FreeCover \cup Region(given + 1)
<1> DEFINE first == boot[given + 1][1]
           n == boot[given + 1][2]
           next == given + 1
<1> USE DEF AllocInv
<1>1. /\ given \in Nat /\ Len(boot) \in Nat /\ next \in 1 .. Len(boot) /\ given < Len(boot)
      /\ first \in Pages /\ first \in Nat /\ n \in Nat \ {0} /\ Run(first, n) = Region(next)
      /\ Run(first, n) \subseteq Pages
      /\ \A i \in 1 .. given : Region(i) \cap Run(first, n) = {}
  <2>1. boot \in BootMaps /\ given \in 0 .. Len(boot) /\ given < Len(boot)
    BY Zenon DEF InitMemmap, AllocTypeOK
  <2>2. Len(boot) \in Nat
    BY <2>1, Regions, Zenon
  <2>3. given \in Nat /\ next \in 1 .. Len(boot) /\ \A i \in 1 .. given : i # next /\ i \in 1 .. Len(boot)
    BY <2>1, <2>2
  <2> HIDE DEF next
  <2>4. boot[next][1] \in Pages /\ boot[next][1] \in Nat /\ boot[next][2] \in Nat \ {0}
        /\ Region(next) \subseteq Pages
    BY <2>1, <2>3, Regions, Zenon
  <2>5. \A i \in 1 .. given : Region(i) \cap Region(next) = {}
    BY <2>1, <2>3, Regions, Zenon
  <2> QED BY <2>1, <2>2, <2>3, <2>4, <2>5, Zenon DEF next, Region
<1>2. /\ free_list' = Append(free_list, first)
      /\ free_page_count' = free_page_count + n
      /\ block_page_count' = [block_page_count EXCEPT ![first] = n]
      /\ reserved' = (reserved \ Run(first, n)) \cup {first}
      /\ held' = held /\ boot' = boot /\ given' = next /\ le' = le /\ base' = base /\ count' = count
  BY Zenon DEF InitMemmap, loopVars
<1>3. le = 0 /\ count = 0 /\ Starts = Heads /\ Heads \subseteq RegionStarts
  BY <1>1 DEF LoopOK, Starts
<1>4. first \in RegionStarts
  BY <1>1, Zenon DEF RegionStarts
<1>5. Handed' = Handed \cup Run(first, n) /\ Handed \cap Run(first, n) = {}
  <2>1. Handed' = UNION {Region(i) : i \in 1 .. next}
    BY <1>2, Zenon DEF Handed, Region
  <2>2. 1 .. next = (1 .. given) \cup {next}
    BY <1>1
  <2> QED BY <1>1, <2>1, <2>2 DEF Handed
<1> HIDE DEF first, n, next
<1>6. RunsOK(Starts, block_page_count, Handed) /\ block_page_count \in [Pages -> Nat]
  BY Zenon DEF AllocTypeOK
<1>7. ASSUME NEW a \in Nat, NEW m \in Nat \ {0}, Run(a, m) \subseteq Handed
      PROVE  a + m <= first \/ first + n <= a
  <2>1. Run(a, m) \cap Run(first, n) = {}
    BY <1>5, <1>7, Zenon
  <2> QED BY <1>1, <2>1, RunsBeside, Zenon
<1>8. \A p \in Starts : Beside(first, n, p, block_page_count)
  <2> SUFFICES ASSUME NEW p \in Starts PROVE Beside(first, n, p, block_page_count)
    BY Zenon
  <2>1. p \in Nat /\ block_page_count[p] \in Nat \ {0}
    BY <1>6, RunTypes, Zenon
  <2>2. Run(p, block_page_count[p]) \subseteq Handed
    BY <1>6, Zenon DEF RunsOK
  <2> QED BY <1>7, <2>1, <2>2, Zenon DEF Beside
<1> DEFINE now == [block_page_count EXCEPT ![first] = n]
<1>9. /\ first \notin Starts
      /\ RunsOK(Starts \cup {first}, now, Handed')
      /\ Cover(Starts \cup {first}, now) = Cover(Starts, block_page_count) \cup Run(first, n)
      /\ Cover(Starts, block_page_count) \cap Run(first, n) = {}
  <2>1. Handed \subseteq Handed' /\ Run(first, n) \subseteq Handed'
    BY <1>5, Zenon
  <2> QED BY <1>1, <1>6, <1>8, <2>1, RunsJoin, Zenon
<1>10. now \in [Pages -> Nat] /\ now = block_page_count'
       /\ \A p \in Pages : p # first => now[p] = block_page_count[p]
  BY <1>1, <1>2, <1>6, Zenon
<1> HIDE DEF now
<1>11. /\ free_list' \in Seq(Pages) /\ IsInjective(free_list')
       /\ Range(free_list') = Range(free_list) \cup {first}
       /\ Len(free_list') = Len(free_list) + 1
  BY <1>1, <1>2, <1>3, <1>9, AppendList DEF AllocTypeOK, Heads
<1>12. Starts' = Starts \cup {first} /\ Heads' = Heads \cup {first}
  BY <1>2, <1>3, <1>11, Zenon DEF Starts, Heads
<1>13. AllocTypeOK'
  <2>1. free_page_count' \in Nat
    BY <1>1, <1>2 DEF AllocTypeOK
  <2>4. reserved' \subseteq Pages
    BY <1>1, <1>2, Zenon DEF AllocTypeOK
  <2>3. given' \in 0 .. Len(boot')
    BY <1>1, <1>2
  <2>2. le' \in 0 .. Len(free_list') + 1
    BY <1>2, <1>3, <1>11 DEF AllocTypeOK
  <2> QED BY <1>2, <1>10, <1>11, <2>1, <2>2, <2>3, <2>4, Zenon DEF AllocTypeOK
<1>14. LoopOK'
  BY <1>2, <1>3, <1>4, <1>12, Zenon DEF LoopOK, RegionStarts
<1>15. RunsOK(Starts, block_page_count, Handed)'
  BY <1>9, <1>10, <1>12, Zenon
<1>16. CountedOK'
  <2> DEFINE C == Cover(Starts, block_page_count)
  <2>1. IsFiniteSet(C) /\ free_page_count = Cardinality(C) /\ reserved \cap Handed = Starts
    BY <1>3 DEF CountedOK, AllocTypeOK
  <2>2. Cover(Starts, block_page_count)' = C \cup Run(first, n)
    BY <1>9, <1>10, <1>12, Zenon
  <2>3. C \cap Run(first, n) = {}
    BY <1>9, Zenon
  <2> HIDE DEF C
  <2>4. IsFiniteSet(C \cup Run(first, n)) /\ Cardinality(C \cup Run(first, n)) = Cardinality(C) + n
    <3>1. first \in Int /\ n \in Nat
      BY <1>1
    <3> QED BY <2>1, <2>3, <3>1, CountJoin, Zenon
  <2>5. free_page_count' + count' = Cardinality(C) + n
    BY <1>1, <1>2, <1>3, <2>1 DEF AllocTypeOK
  <2>6. first \in Run(first, n)
    BY <1>1, RunMember
  <2>7. reserved' \cap Handed' = Starts'
    BY <1>2, <1>5, <1>12, <2>1, <2>6, Zenon
  <2> QED BY <2>2, <2>4, <2>5, <2>7, Zenon DEF CountedOK
<1>17. HeldOK'
  <2>1. ASSUME NEW b \in held
        PROVE  /\ Run(b.base, b.count) \subseteq Handed'
               /\ \A p \in Starts' : Beside(b.base, b.count, p, now)
               /\ b.kmalloc => now[b.base] = b.count
    <3>1. b.base \in Pages /\ b.base \in Nat /\ b.count \in Nat \ {0}
      BY PagesAssumption, Zenon DEF AllocTypeOK
    <3>2. Run(b.base, b.count) \subseteq Handed
      BY Zenon DEF HeldOK
    <3>3. b.base + b.count <= first \/ first + n <= b.base
      BY <1>7, <3>1, <3>2, Zenon
    <3>4. b.base # first
      BY <1>1, <3>1, <3>3
    <3>5. ASSUME NEW p \in Starts PROVE Beside(b.base, b.count, p, now)
      <4>1. Beside(b.base, b.count, p, block_page_count)
        BY Zenon DEF HeldOK
      <4>2. p # first /\ p \in Pages
        BY <1>6, <1>9, RunTypes, Zenon
      <4> QED BY <1>10, <4>1, <4>2, Zenon DEF Beside
    <3>6. Beside(b.base, b.count, first, now)
      <4>1. now[first] = n
        BY <1>1, <1>6, Zenon DEF now
      <4> QED BY <3>3, <4>1, Zenon DEF Beside
    <3>7. b.kmalloc => now[b.base] = b.count
      BY <1>10, <3>1, <3>4, Zenon DEF HeldOK
    <3> QED BY <1>5, <1>12, <3>2, <3>5, <3>6, <3>7, Zenon
  <2> QED BY <1>2, <1>10, <2>1, Zenon DEF HeldOK
<1>18. MergedOK'
  <2>1. Coalesced'
    <3>1. Heads' \subseteq RegionStarts'
      BY <1>2, <1>3, <1>4, <1>12, Zenon DEF RegionStarts
    <3> QED BY <3>1, Zenon DEF Coalesced, Heads, RegionStarts
  <2> QED BY <1>2, <1>3, <2>1 DEF MergedOK
<1>19. FreeCover' = FreeCover \cup Region(given + 1)
  BY <1>1, <1>9, <1>10, <1>12, Zenon DEF FreeCover, next
<1> QED BY <1>13, <1>14, <1>15, <1>16, <1>17, <1>18, <1>19, Zenon

\* What alloc() and kmalloc() leave in block_page_count.
LEMMA TakenSizes ==
  ASSUME block_page_count \in [Pages -> Nat], NEW page \in Pages, page \in Nat,
         NEW n \in Nat \ {0}, n <= block_page_count[page], NEW k \in BOOLEAN,
         block_page_count[page] > n => page + n \in Pages
  PROVE  LET now == SizesTaken(page, n, k)
         IN /\ now \in [Pages -> Nat]
            /\ k => now[page] = n
            /\ block_page_count[page] > n => now[page + n] = block_page_count[page] - n
            /\ \A p \in Pages : p # page /\ (block_page_count[page] > n => p # page + n)
                                  => now[p] = block_page_count[p]
<1> DEFINE size == block_page_count[page]
           kept == [block_page_count EXCEPT ![page] = IF k THEN n ELSE size]
<1>1. size \in Nat /\ page + n # page
  OBVIOUS
<1>2. kept \in [Pages -> Nat] /\ (k => kept[page] = n)
      /\ \A p \in Pages : p # page => kept[p] = block_page_count[p]
  BY <1>1, Zenon
<1>3. SizesTaken(page, n, k) = IF size > n THEN [kept EXCEPT ![page + n] = size - n] ELSE kept
  BY Zenon DEF SizesTaken
<1> HIDE DEF kept
<1>4. CASE size > n
  <2>1. size - n \in Nat
    BY <1>1, <1>4
  <2> QED BY <1>1, <1>2, <1>3, <1>4, <2>1, Zenon
<1>5. CASE ~(size > n)
  BY <1>2, <1>3, <1>5, Zenon
<1> QED BY <1>4, <1>5, Zenon

\* alloc(), with kmalloc() (k) or without.
LEMMA AllocKeeps ==
  ASSUME AllocInv, NEW n \in Sizes, NEW k \in BOOLEAN, Alloc(n, k)
  PROVE  /\ AllocInv'
         /\ \E page \in Pages : /\ held' = held \cup {[base |-> page, count |-> n, kmalloc |-> k]}
                                /\ Run(page, n) \subseteq FreeCover
                                /\ FreeCover' = FreeCover \ Run(page, n)
<1> USE DEF AllocInv
<1>1. PICK i \in 1 .. Len(free_list) :
        /\ Fits(free_list[i], n)
        /\ free_list' = IF block_page_count[free_list[i]] > n
                        THEN [free_list EXCEPT ![i] = free_list[i] + n]
                        ELSE Unlink(free_list, i)
        /\ block_page_count' = SizesTaken(free_list[i], n, k)
        /\ reserved' = MarkTaken(free_list[i], n)
        /\ free_page_count' = free_page_count - n
        /\ held' = held \cup {[base |-> free_list[i], count |-> n, kmalloc |-> k]}
        /\ n <= free_page_count
        /\ boot' = boot /\ given' = given /\ le' = le /\ base' = base /\ count' = count
  BY Zenon DEF Alloc, loopVars
<1> DEFINE page == free_list[i]
           size == block_page_count[page]
           blk == [base |-> page, count |-> n, kmalloc |-> k]
           S == Starts
           T == IF size > n THEN (S \ {page}) \cup {page + n} ELSE S \ {page}
           now == block_page_count'
<1>2. le = 0 /\ given = Len(boot) /\ count = 0 /\ Starts = Heads
  BY Zenon DEF Alloc, Quiet, LoopOK, Starts
<1>3. /\ RunsOK(S, block_page_count, Handed) /\ block_page_count \in [Pages -> Nat]
      /\ free_list \in Seq(Pages) /\ IsInjective(free_list)
  BY Zenon DEF AllocTypeOK
<1>4. page \in S
  BY <1>2, <1>3, RangeMember, Zenon DEF Heads
<1>5. /\ S \subseteq Pages /\ S \subseteq Nat /\ \A p \in S : block_page_count[p] \in Nat \ {0}
      /\ page \in Pages /\ page \in Nat /\ size \in Nat \ {0}
  BY <1>3, <1>4, RunTypes, Zenon
<1>6. n \in Nat \ {0} /\ n <= size
  BY <1>1, <1>5, PagesAssumption, Zenon DEF Fits
<1>7. Handed \subseteq Pages /\ Handed' = Handed /\ RegionStarts' = RegionStarts
  BY <1>1, HandedPages, Zenon DEF AllocTypeOK, Handed, Region, RegionStarts
<1>8. Run(page, n) \subseteq Run(page, size) /\ (size > n => page + n \in Run(page, size))
      /\ page \in Run(page, n) /\ Run(page, size) \subseteq Handed
  <2>1. \A x : x \in Run(page, size) <=> x \in Int /\ page <= x /\ x < page + size
    BY <1>5, RunMember
  <2>2. \A x : x \in Run(page, n) <=> x \in Int /\ page <= x /\ x < page + n
    BY <1>5, <1>6, RunMember
  <2>3. Run(page, size) \subseteq Handed
    BY <1>3, <1>4, Zenon DEF RunsOK
  <2> QED BY <1>5, <1>6, <2>1, <2>2, <2>3
<1>9. size > n => page + n \in Pages
  BY <1>7, <1>8, Zenon
<1>10. /\ now \in [Pages -> Nat]
       /\ k => now[page] = n
       /\ size > n => now[page + n] = size - n
       /\ \A p \in Pages : p # page /\ (size > n => p # page + n) => now[p] = block_page_count[p]
  <2> HIDE DEF page
  <2>1. page = free_list[i]
    BY Zenon DEF page
  <2>2. /\ SizesTaken(page, n, k) \in [Pages -> Nat]
        /\ k => SizesTaken(page, n, k)[page] = n
        /\ size > n => SizesTaken(page, n, k)[page + n] = size - n
        /\ \A p \in Pages : p # page /\ (size > n => p # page + n)
                              => SizesTaken(page, n, k)[p] = block_page_count[p]
    <3> HIDE DEF now
    <3> QED BY <1>3, <1>5, <1>6, <1>9, TakenSizes
  <2>3. now = SizesTaken(page, n, k)
    BY <1>1, <2>1, Zenon
  <2> HIDE DEF now
  <2> QED BY <2>2, <2>3, Zenon
<1> HIDE DEF page, size, S, T, now
<1>11. ASSUME NEW p \in S, p # page PROVE p + block_page_count[p] <= page \/ page + size <= p
  <2>1. p < page \/ page < p
    BY <1>5, <1>11
  <2> QED BY <1>3, <1>4, <2>1, Zenon DEF RunsOK, size
<1>12. \A p \in S \ {page} : now[p] = block_page_count[p]
  <2> SUFFICES ASSUME NEW p \in S, p # page PROVE now[p] = block_page_count[p]
    BY Zenon
  <2>1. p \in Pages /\ p \in Nat /\ block_page_count[p] \in Nat \ {0}
    BY <1>5, Zenon
  <2>2. size > n => p # page + n
    BY <1>5, <1>6, <1>11, <2>1
  <2> QED BY <1>10, <2>1, <2>2, Zenon
<1>13. /\ RunsOK(T, now, Handed)
       /\ Cover(T, now) = Cover(S, block_page_count) \ Run(page, n)
       /\ Run(page, n) \subseteq Cover(S, block_page_count)
       /\ T = IF size > n THEN (S \ {page}) \cup {page + n} ELSE S \ {page}
       /\ size > n => page + n \notin S
  <2>1. CASE size > n
    <3>1. n < size /\ size > n
      BY <1>5, <1>6, <2>1, Zenon
    <3>2. now[page + n] = block_page_count[page] - n /\ n < block_page_count[page]
      BY <1>10, <3>1, Zenon DEF size
    <3>3. /\ page + n \in Pages \ S
          /\ RunsOK((S \ {page}) \cup {page + n}, now, Handed)
          /\ Cover((S \ {page}) \cup {page + n}, now) = Cover(S, block_page_count) \ Run(page, n)
          /\ Run(page, n) \subseteq Cover(S, block_page_count)
      BY <1>3, <1>4, <1>6, <1>7, <1>10, <1>12, <3>2, RunsSplit, Zenon
    <3> QED BY <2>1, <3>3, Zenon DEF T
  <2>2. CASE ~(size > n)
    <3>1. n = size
      BY <1>5, <1>6, <2>2
    <3>2. /\ RunsOK(S \ {page}, now, Handed)
          /\ Cover(S \ {page}, now) = Cover(S, block_page_count) \ Run(page, block_page_count[page])
          /\ Run(page, block_page_count[page]) \subseteq Cover(S, block_page_count)
      BY <1>3, <1>4, <1>10, <1>12, RunsTake, Zenon
    <3> QED BY <2>2, <3>1, <3>2, Zenon DEF T, size
  <2> QED BY <2>1, <2>2, Zenon
<1>14. /\ free_list' \in Seq(Pages) /\ IsInjective(free_list') /\ Range(free_list') = T
  <2>1. Range(free_list) = S
    BY <1>2, Zenon DEF S, Heads
  <2>2. CASE size > n
    <3>1. free_list' = [free_list EXCEPT ![i] = page + n]
      BY <1>1, <2>2, Zenon DEF page, size
    <3>2. page + n \in Pages /\ page + n \notin Range(free_list)
      BY <1>9, <1>13, <2>1, <2>2, Zenon
    <3>3. /\ free_list' \in Seq(Pages) /\ IsInjective(free_list')
          /\ Range(free_list') = (S \ {page}) \cup {page + n}
      <4>0. free_list' \in Seq(Pages) /\ Len(free_list') = Len(free_list) /\ free_list'[i] = page + n
            /\ \A j \in 1 .. Len(free_list) : j # i => free_list'[j] = free_list[j]
        BY <1>3, <3>1, <3>2
      <4>1. Range(free_list') = (Range(free_list) \ {free_list[i]}) \cup {page + n}
            /\ free_list' \in Seq(Pages) /\ IsInjective(free_list')
        BY <1>3, <3>2, <4>0, ReplaceList
      <4> QED BY <2>1, <4>1, Zenon DEF page
    <3> QED BY <1>13, <2>2, <3>3, Zenon
  <2>3. CASE ~(size > n)
    <3>1. free_list' = Unlink(free_list, i)
      BY <1>1, <2>3, Zenon DEF page, size
    <3>2. /\ free_list' \in Seq(Pages) /\ IsInjective(free_list')
          /\ Range(free_list') = S \ {page}
      BY <1>3, <2>1, <3>1, RemoveList, Zenon DEF page
    <3> QED BY <1>13, <2>3, <3>2, Zenon
  <2> QED BY <2>2, <2>3, Zenon
<1>15. Starts' = T /\ Heads' = T
  BY <1>1, <1>2, <1>14, Zenon DEF Starts, Heads
<1>16. AllocTypeOK'
  <2>1. free_page_count' \in Nat
    BY <1>1, <1>6 DEF AllocTypeOK
  <2>2. reserved' \subseteq Pages
    BY <1>1, <1>9, Zenon DEF AllocTypeOK, MarkTaken, size, page
  <2>3. held' \subseteq [base : Pages, count : Nat \ {0}, kmalloc : BOOLEAN]
    <3>1. [base |-> page, count |-> n, kmalloc |-> k] \in [base : Pages, count : Nat \ {0}, kmalloc : BOOLEAN]
      BY <1>5, <1>6, Zenon
    <3> QED BY <1>1, <3>1, Zenon DEF AllocTypeOK, page
  <2>4. le' \in 0 .. Len(free_list') + 1
    <3>1. Len(free_list') \in Nat
      BY <1>14
    <3> QED BY <1>1, <1>2, <3>1
  <2> QED BY <1>1, <1>10, <1>14, <2>1, <2>2, <2>3, <2>4, Zenon DEF AllocTypeOK, now
<1>17. LoopOK'
  BY <1>1, <1>2 DEF LoopOK
<1>18. RunsOK(Starts, block_page_count, Handed)'
  BY <1>7, <1>13, <1>15, Zenon DEF now
<1>19. CountedOK'
  <2> DEFINE C == Cover(S, block_page_count)
  <2>1. IsFiniteSet(C) /\ free_page_count = Cardinality(C) /\ reserved \cap Handed = S
    BY <1>2 DEF CountedOK, AllocTypeOK, S
  <2>2. Cover(Starts, block_page_count)' = C \ Run(page, n)
    BY <1>13, <1>15, Zenon DEF now
  <2>3. Run(page, n) \subseteq C
    BY <1>13, Zenon
  <2> HIDE DEF C
  <2>4. IsFiniteSet(C \ Run(page, n)) /\ Cardinality(C \ Run(page, n)) = Cardinality(C) - n
    <3>1. page \in Int /\ n \in Nat
      BY <1>5, <1>6
    <3> QED BY <2>1, <2>3, <3>1, CountTake, Zenon
  <2>5. free_page_count' + count' = Cardinality(C) - n
    BY <1>1, <1>2, <1>6, <2>1 DEF AllocTypeOK
  <2>6. reserved' \cap Handed' = Starts'
    <3>1. reserved' = (IF size > n THEN reserved \cup {page + n} ELSE reserved) \ {page}
      BY <1>1, Zenon DEF MarkTaken, size, page
    <3>2. page + n # page
      BY <1>5, <1>6
    <3> QED BY <1>7, <1>8, <1>13, <1>15, <2>1, <3>1, <3>2, Zenon
  <2> QED BY <2>2, <2>4, <2>5, <2>6, Zenon DEF CountedOK
<1>20. ASSUME NEW b \in held
       PROVE  /\ b.base \in Pages /\ b.base \in Nat /\ b.count \in Nat \ {0}
              /\ b.base + b.count <= page \/ page + size <= b.base
              /\ Run(b.base, b.count) \subseteq Handed
              /\ \A p \in T : Beside(b.base, b.count, p, now)
              /\ b.kmalloc => now[b.base] = b.count
  <2>1. b.base \in Pages /\ b.base \in Nat /\ b.count \in Nat \ {0}
    BY PagesAssumption, Zenon DEF AllocTypeOK
  <2>2. b.base + b.count <= page \/ page + size <= b.base
    BY <1>4, Zenon DEF HeldOK, Beside, S, size
  <2>3. Run(b.base, b.count) \subseteq Handed
    BY Zenon DEF HeldOK
  <2>4. ASSUME NEW p \in T PROVE Beside(b.base, b.count, p, now)
    <3>1. CASE p \in S /\ p # page
      <4>1. Beside(b.base, b.count, p, block_page_count)
        BY <3>1, Zenon DEF HeldOK, S
      <4> QED BY <1>12, <3>1, <4>1, Zenon DEF Beside
    <3>2. CASE size > n /\ p = page + n
      <4>1. p + now[p] = page + size
        BY <1>5, <1>6, <1>10, <3>2
      <4>2. n \in Nat /\ size \in Nat /\ b.count \in Nat
        BY <1>5, <1>6, <2>1, Zenon
      <4>3. b.base + b.count <= page + n \/ page + size <= b.base
        BY <1>5, <1>6, <2>1, <2>2, <4>2, PartBeside, Zenon
      <4> QED BY <3>2, <4>1, <4>3, Zenon DEF Beside
    <3> QED BY <1>13, <2>4, <3>1, <3>2, Zenon
  <2>5. b.base # page /\ (size > n => b.base # page + n)
    BY <1>5, <1>6, <2>1, <2>2
  <2>6. b.kmalloc => now[b.base] = b.count
    BY <1>10, <2>1, <2>5, Zenon DEF HeldOK
  <2> QED BY <2>1, <2>2, <2>3, <2>4, <2>6, Zenon
<1>21. HeldOK'
  <2> DEFINE c == [base |-> page, count |-> n, kmalloc |-> k]
  <2>1. held' = held \cup {c}
    BY <1>1, Zenon DEF page
  <2>2. c.base = page /\ c.count = n /\ c.kmalloc = k
    BY Zenon
  <2> HIDE DEF c
  <2>3. Run(page, n) \subseteq Handed /\ (k => now[page] = n)
    BY <1>8, <1>10, Zenon
  <2>4. ASSUME NEW p \in T PROVE Beside(page, n, p, now)
    <3>1. CASE p \in S /\ p # page
      <4>1. p + block_page_count[p] <= page \/ page + size <= p
        BY <1>11, <3>1, Zenon
      <4>2. p \in Nat /\ block_page_count[p] \in Nat /\ n \in Nat /\ size \in Nat
        BY <1>5, <1>6, <3>1, Zenon
      <4>3. p + block_page_count[p] <= page \/ page + n <= p
        BY <1>5, <1>6, <4>1, <4>2, PartBeside, Zenon
      <4> QED BY <1>12, <3>1, <4>3, Zenon DEF Beside
    <3>2. CASE p = page + n
      BY <1>5, <1>6, <3>2 DEF Beside
    <3> QED BY <1>13, <2>4, <3>1, <3>2, Zenon
  <2>5. ASSUME NEW b \in held' 
        PROVE  /\ Run(b.base, b.count) \subseteq Handed
               /\ \A p \in T : Beside(b.base, b.count, p, now)
               /\ b.kmalloc => now[b.base] = b.count
    BY <1>20, <2>1, <2>2, <2>3, <2>4, Zenon
  <2>6. ASSUME NEW b \in held', NEW d \in held', b # d
        PROVE  b.base + b.count <= d.base \/ d.base + d.count <= b.base
    <3>1. CASE b \in held /\ d \in held
      BY <2>6, <3>1, Zenon DEF HeldOK
    <3>2. CASE b \in held /\ d = c
      BY <1>5, <1>6, <1>20, <2>2, <3>2, PartBeside, Zenon
    <3>3. CASE b = c /\ d \in held
      BY <1>5, <1>6, <1>20, <2>2, <3>3, PartBeside, Zenon
    <3> QED BY <2>1, <2>6, <3>1, <3>2, <3>3, Zenon
  <2> QED BY <1>7, <1>15, <2>5, <2>6, Zenon DEF HeldOK, now
<1>22. MergedOK'
  <2>1. ASSUME NEW p \in T, NEW q \in T, p + now[p] = q PROVE q \in RegionStarts
    <3>1. CASE size > n /\ q = page + n
      <4>1. p # q
        BY <1>5, <1>6, <1>10, <2>1, <3>1
      <4>2. p \in S /\ p # page /\ now[p] = block_page_count[p]
        BY <1>12, <1>13, <3>1, <4>1, Zenon
      <4>3. p + block_page_count[p] <= page \/ page + size <= p
        BY <1>11, <4>2, Zenon
      <4>4. p \in Nat /\ block_page_count[p] \in Nat \ {0} /\ size \in Nat
        BY <1>5, <4>2, Zenon
      <4> QED BY <1>5, <1>6, <2>1, <3>1, <4>2, <4>3, <4>4, NoEndInside, Zenon
    <3>2. CASE q \in S /\ q # page
      <4>1. Coalesced
        BY Zenon DEF MergedOK
      <4>2. \A x, y \in S : x + block_page_count[x] = y => y \in RegionStarts
        BY <1>2, <4>1, CoalescedHeads, Zenon DEF S
      <4>3. CASE size > n /\ p = page + n
        <5>1. page + block_page_count[page] = q
          BY <1>5, <1>6, <1>10, <2>1, <4>3 DEF size
        <5> QED BY <1>4, <3>2, <4>2, <5>1, Zenon
      <4>4. CASE p \in S /\ p # page
        BY <1>12, <2>1, <3>2, <4>2, <4>4, Zenon
      <4> QED BY <1>13, <4>3, <4>4, Zenon
    <3> QED BY <1>13, <3>1, <3>2, Zenon
  <2>2. Coalesced'
    <3>1. \A p, q \in Heads' : p + now[p] = q => q \in RegionStarts'
      BY <1>7, <1>15, <2>1, Zenon
    <3> QED BY <3>1, Zenon DEF Coalesced, Heads, RegionStarts, now
  <2> QED BY <1>1, <1>2, <2>2 DEF MergedOK
<1>23. /\ held' = held \cup {[base |-> page, count |-> n, kmalloc |-> k]}
       /\ Run(page, n) \subseteq FreeCover /\ FreeCover' = FreeCover \ Run(page, n)
  BY <1>1, <1>13, <1>15, Zenon DEF FreeCover, S, now, page
<1>24. AllocInv'
  BY <1>16, <1>17, <1>18, <1>19, <1>21, <1>22, Zenon
<1> HIDE DEF AllocInv
<1> QED BY <1>5, <1>23, <1>24, Zenon

\* The start of free() with the size of the block.
LEMMA FreeKeeps ==
  ASSUME AllocInv, NEW b \in held, Free(b, b.count)
  PROVE  AllocInv' /\ FreeCover' = FreeCover \cup Run(b.base, b.count)
<1> DEFINE first == b.base
           n == b.count
           S == Starts
           now == [block_page_count EXCEPT ![first] = n]
<1> USE DEF AllocInv
<1>1. /\ block_page_count' = now
      /\ reserved' = (reserved \ Run(first, n)) \cup {first}
      /\ le' = 1 /\ base' = first /\ count' = n /\ held' = held \ {b}
      /\ free_list' = free_list /\ free_page_count' = free_page_count
      /\ boot' = boot /\ given' = given
  BY Zenon DEF Free
<1>2. le = 0 /\ given = Len(boot) /\ count = 0 /\ S = Heads
  BY Zenon DEF Free, Quiet, LoopOK, Starts
<1>3. /\ RunsOK(S, block_page_count, Handed) /\ block_page_count \in [Pages -> Nat]
      /\ free_list \in Seq(Pages) /\ IsInjective(free_list)
  BY Zenon DEF AllocTypeOK
<1>4. first \in Pages /\ first \in Nat /\ n \in Nat \ {0}
  BY PagesAssumption, Zenon DEF AllocTypeOK
<1>5. Handed' = Handed /\ RegionStarts' = RegionStarts
  BY <1>1, Zenon DEF Handed, Region, RegionStarts
<1>6. Run(first, n) \subseteq Handed /\ \A p \in S : Beside(first, n, p, block_page_count)
  BY Zenon DEF HeldOK
<1> HIDE DEF first, n, now, S
<1>7. /\ first \notin S
      /\ RunsOK(S \cup {first}, now, Handed)
      /\ Cover(S \cup {first}, now) = Cover(S, block_page_count) \cup Run(first, n)
      /\ Cover(S, block_page_count) \cap Run(first, n) = {}
  BY <1>3, <1>4, <1>6, RunsJoin, Zenon DEF now
<1>8. now \in [Pages -> Nat] /\ now[first] = n
      /\ \A p \in Pages : p # first => now[p] = block_page_count[p]
  BY <1>3, <1>4, Zenon DEF now
<1>9. Heads' = S /\ Starts' = S \cup {first}
  BY <1>1, <1>2 DEF Heads, Starts
<1>10. S \subseteq Pages /\ S \subseteq Nat /\ \A p \in S : block_page_count[p] \in Nat \ {0}
  BY <1>3, RunTypes, Zenon
<1>11. AllocTypeOK'
  <2>1. le' \in 0 .. Len(free_list') + 1 /\ base' \in Nat /\ count' \in Nat
    BY <1>1, <1>3, <1>4
  <2>2. reserved' \subseteq Pages
    BY <1>1, <1>4, Zenon DEF AllocTypeOK
  <2> QED BY <1>1, <1>8, <2>1, <2>2, Zenon DEF AllocTypeOK
<1>12. LoopOK'
  BY <1>1, <1>2, <1>4, <1>7, <1>9 DEF LoopOK
<1>13. RunsOK(Starts, block_page_count, Handed)'
  BY <1>1, <1>5, <1>7, <1>9, Zenon
<1>14. CountedOK'
  <2> DEFINE C == Cover(S, block_page_count)
  <2>1. IsFiniteSet(C) /\ free_page_count = Cardinality(C) /\ reserved \cap Handed = S
    BY <1>2 DEF CountedOK, AllocTypeOK, S
  <2>2. Cover(Starts, block_page_count)' = C \cup Run(first, n)
    BY <1>1, <1>7, <1>9, Zenon
  <2>3. C \cap Run(first, n) = {}
    BY <1>7, Zenon
  <2> HIDE DEF C
  <2>4. IsFiniteSet(C \cup Run(first, n)) /\ Cardinality(C \cup Run(first, n)) = Cardinality(C) + n
    <3>1. first \in Int /\ n \in Nat
      BY <1>4
    <3> QED BY <2>1, <2>3, <3>1, CountJoin, Zenon
  <2>5. free_page_count' + count' = Cardinality(C) + n
    BY <1>1, <2>1, Zenon
  <2>6. S \cap Run(first, n) = {}
    <3> SUFFICES ASSUME NEW p \in S, p \in Run(first, n) PROVE FALSE
      BY Zenon
    <3>1. first <= p /\ p < first + n
      BY <1>4, RunMember
    <3>2. p + block_page_count[p] <= first \/ first + n <= p
      BY <1>6, Zenon DEF Beside
    <3> QED BY <1>4, <1>10, <3>1, <3>2
  <2>7. first \in Run(first, n)
    BY <1>4, RunMember
  <2>8. reserved' \cap Handed' = Starts'
    BY <1>1, <1>5, <1>6, <1>9, <2>1, <2>6, <2>7, Zenon
  <2> QED BY <2>2, <2>4, <2>5, <2>8, Zenon DEF CountedOK
<1>15. HeldOK'
  <2>1. ASSUME NEW c \in held, c # b
        PROVE  /\ Run(c.base, c.count) \subseteq Handed
               /\ \A p \in S \cup {first} : Beside(c.base, c.count, p, now)
               /\ c.kmalloc => now[c.base] = c.count
    <3>1. c.base \in Pages /\ c.base \in Nat /\ c.count \in Nat \ {0}
      BY PagesAssumption, Zenon DEF AllocTypeOK
    <3>2. c.base + c.count <= first \/ first + n <= c.base
      BY <2>1, Zenon DEF HeldOK, first, n
    <3>3. c.base # first
      BY <1>4, <3>1, <3>2
    <3>4. Run(c.base, c.count) \subseteq Handed
      BY Zenon DEF HeldOK
    <3>5. ASSUME NEW p \in S PROVE Beside(c.base, c.count, p, now)
      <4>1. Beside(c.base, c.count, p, block_page_count)
        BY Zenon DEF HeldOK, S
      <4>2. now[p] = block_page_count[p]
        BY <1>7, <1>8, <1>10, Zenon
      <4> QED BY <4>1, <4>2, Zenon DEF Beside
    <3>6. Beside(c.base, c.count, first, now)
      BY <1>8, <3>2, Zenon DEF Beside
    <3>7. c.kmalloc => now[c.base] = c.count
      BY <1>8, <3>1, <3>3, Zenon DEF HeldOK
    <3> QED BY <3>4, <3>5, <3>6, <3>7, Zenon
  <2> QED BY <1>1, <1>5, <1>9, <2>1, Zenon DEF HeldOK
<1>16. MergedOK'
  <2>1. Coalesced
    BY Zenon DEF MergedOK
  <2>2. \A p, q \in S : p + block_page_count[p] = q => q \in RegionStarts
    BY <1>2, <2>1, CoalescedHeads, Zenon
  <2>3. \A p, q \in Heads' : p + block_page_count'[p] = q => q \in RegionStarts'
    BY <1>1, <1>5, <1>7, <1>8, <1>9, <1>10, <2>2, Zenon
  <2>4. Coalesced'
    BY <2>3, Zenon DEF Coalesced, Heads, RegionStarts
  <2> QED BY <1>1, <2>4 DEF MergedOK
<1>17. FreeCover' = FreeCover \cup Run(b.base, b.count)
  BY <1>1, <1>7, <1>9, Zenon DEF FreeCover, S, first, n
<1> QED BY <1>11, <1>12, <1>13, <1>14, <1>15, <1>16, <1>17, Zenon

\* What the loop of free() does to the runs when it merges x and y.
LEMMA MergeKeeps ==
  ASSUME AllocInv, NEW x \in Starts, NEW y \in Starts, x + block_page_count[x] = y,
         block_page_count' = [block_page_count EXCEPT ![x] = block_page_count[x] + block_page_count[y]],
         reserved' = reserved \ {y}, Starts' = Starts \ {y},
         held' = held, boot' = boot, given' = given,
         free_page_count' = free_page_count, count' = count
  PROVE  /\ RunsOK(Starts, block_page_count, Handed)' /\ CountedOK' /\ HeldOK'
         /\ FreeCover' = FreeCover
         /\ x # y /\ x \in Pages /\ y \in Pages /\ block_page_count' \in [Pages -> Nat]
         /\ x \in Nat /\ y \in Nat /\ block_page_count[x] \in Nat /\ block_page_count[y] \in Nat
         /\ block_page_count'[x] = block_page_count[x] + block_page_count[y]
         /\ \A p \in Pages : p # x => block_page_count'[p] = block_page_count[p]
         /\ Handed' = Handed /\ RegionStarts' = RegionStarts
<1> DEFINE S == Starts
           now == block_page_count'
<1>1. RunsOK(S, block_page_count, Handed) /\ block_page_count \in [Pages -> Nat]
  BY Zenon DEF AllocInv, AllocTypeOK
<1>2. S \subseteq Pages /\ S \subseteq Nat /\ \A p \in S : block_page_count[p] \in Nat \ {0}
  BY <1>1, RunTypes, Zenon
<1>3. Handed' = Handed /\ RegionStarts' = RegionStarts
  BY Zenon DEF Handed, Region, RegionStarts
<1>4. /\ x # y /\ now \in [Pages -> Nat]
      /\ RunsOK(S \ {y}, now, Handed)
      /\ Cover(S \ {y}, now) = Cover(S, block_page_count)
  BY <1>1, RunsMerge, Zenon
<1>5. now[x] = block_page_count[x] + block_page_count[y]
      /\ \A p \in Pages : p # x => now[p] = block_page_count[p]
  BY <1>1, <1>2, Zenon
<1>6. RunsOK(Starts, block_page_count, Handed)'
  BY <1>3, <1>4, Zenon
<1>7. CountedOK'
  <2>1. reserved' \cap Handed' = Starts'
    BY <1>3, Zenon DEF AllocInv, CountedOK
  <2>2. Cover(Starts, block_page_count)' = Cover(S, block_page_count)
    BY <1>4, Zenon
  <2> QED BY <2>1, <2>2, Zenon DEF AllocInv, CountedOK
<1>8. HeldOK'
  <2>1. ASSUME NEW b \in held
        PROVE  /\ \A p \in S \ {y} : Beside(b.base, b.count, p, now)
               /\ b.kmalloc => now[b.base] = b.count
    <3>1. b.base \in Pages /\ b.base \in Nat /\ b.count \in Nat \ {0}
      BY PagesAssumption, Zenon DEF AllocInv, AllocTypeOK
    <3>2. \A p \in S : p + block_page_count[p] <= b.base \/ b.base + b.count <= p
      BY Zenon DEF AllocInv, HeldOK, Beside
    <3>3. b.base # x
      BY <1>2, <3>1, <3>2
    <3>4. x + now[x] <= b.base \/ b.base + b.count <= x
      <4>1. x + block_page_count[x] <= b.base \/ b.base + b.count <= x
        BY <3>2, Zenon
      <4>2. y + block_page_count[y] <= b.base \/ b.base + b.count <= y
        BY <3>2, Zenon
      <4>3. x \in Nat /\ y \in Nat /\ block_page_count[x] \in Nat /\ block_page_count[y] \in Nat
        BY <1>2, Zenon
      <4> QED BY <1>5, <3>1, <4>1, <4>2, <4>3
    <3>5. \A p \in S \ {y} : Beside(b.base, b.count, p, now)
      BY <1>2, <1>5, <3>2, <3>4, Zenon DEF Beside
    <3>6. b.kmalloc => now[b.base] = b.count
      BY <1>5, <3>1, <3>3, Zenon DEF AllocInv, HeldOK
    <3> QED BY <3>5, <3>6, Zenon
  <2> QED BY <1>3, <2>1, Zenon DEF AllocInv, HeldOK
<1>9. FreeCover' = FreeCover
  BY <1>4, Zenon DEF FreeCover
<1> QED BY <1>2, <1>3, <1>4, <1>5, <1>6, <1>7, <1>8, <1>9, Zenon

\* What a turn of the loop finds.
LEMMA TurnFinds ==
  ASSUME AllocInv, le \in 1 .. Len(free_list)
  PROVE  LET p == free_list[le]
         IN /\ le \in Nat /\ Len(free_list) \in Nat /\ le # 0 /\ given = Len(boot)
            /\ base \in Pages \ Heads /\ p \in Heads /\ p # base
            /\ Starts = Heads \cup {base}
            /\ \A i \in 1 .. le - 1 : free_list[i] \in Heads \ {p}
            /\ free_list \in Seq(Pages) /\ IsInjective(free_list)
<1>1. /\ free_list \in Seq(Pages) /\ IsInjective(free_list) /\ le \in Nat /\ Len(free_list) \in Nat
      /\ le # 0 /\ base \in Pages \ Heads /\ given = Len(boot)
  BY DEF AllocInv, AllocTypeOK, LoopOK
<1>2. free_list[le] \in Heads
  BY <1>1, RangeMember, Zenon DEF Heads
<1>3. ASSUME NEW i \in 1 .. le - 1 PROVE free_list[i] \in Heads \ {free_list[le]}
  <2>1. i \in 1 .. Len(free_list) /\ i # le /\ DOMAIN free_list = 1 .. Len(free_list)
    BY <1>1
  <2>2. free_list[i] # free_list[le]
    BY <1>1, <2>1, Zenon DEF IsInjective
  <2> QED BY <1>1, <2>1, <2>2, RangeMember, Zenon DEF Heads
<1>4. Starts = Heads \cup {base}
  BY <1>1, Zenon DEF Starts
<1> QED BY <1>1, <1>2, <1>3, <1>4, Zenon

LEMMA TurnKeeps ==
  ASSUME AllocInv, FreeTurn
  PROVE  AllocInv' /\ FreeCover' = FreeCover
<1> DEFINE p == free_list[le]
<1>1. /\ le \in 1 .. Len(free_list) /\ (MergeBehind(p) \/ MergeBefore(p) \/ Kept(p))
      /\ free_page_count' = free_page_count /\ held' = held /\ boot' = boot
      /\ given' = given /\ count' = count
  BY Zenon DEF FreeTurn
<1>2. /\ le \in Nat /\ Len(free_list) \in Nat /\ le # 0 /\ given = Len(boot)
      /\ base \in Pages \ Heads /\ p \in Heads /\ p # base
      /\ Starts = Heads \cup {base}
      /\ \A i \in 1 .. le - 1 : free_list[i] \in Heads \ {p}
      /\ free_list \in Seq(Pages) /\ IsInjective(free_list)
  BY <1>1, TurnFinds, Zenon
<1>3. \A x, y \in Heads : x + block_page_count[x] = y => y \in RegionStarts
  BY CoalescedHeads, Zenon DEF AllocInv, MergedOK
<1>4. \A i \in 1 .. le - 1 :
      /\ base + block_page_count[base] = free_list[i] => free_list[i] \in RegionStarts
      /\ free_list[i] + block_page_count[free_list[i]] = base => base \in RegionStarts
  BY Zenon DEF AllocInv, MergedOK
<1>5. reserved \subseteq Pages /\ Heads \subseteq Pages
  BY <1>2, RangeMember, Zenon DEF AllocInv, AllocTypeOK, Heads
<1>6. ASSUME free_list' = Unlink(free_list, le)
      PROVE  /\ free_list' \in Seq(Pages) /\ IsInjective(free_list')
             /\ Len(free_list') = Len(free_list) - 1
             /\ Heads' = Heads \ {p}
             /\ \A i \in 1 .. le - 1 : free_list'[i] = free_list[i]
  <2> HIDE DEF p
  <2>1. /\ free_list' \in Seq(Pages) /\ IsInjective(free_list')
        /\ Len(free_list') = Len(free_list) - 1
        /\ Range(free_list') = Range(free_list) \ {free_list[le]}
        /\ \A i \in 1 .. le - 1 : free_list'[i] = free_list[i]
    BY <1>1, <1>2, <1>6, RemoveList, Zenon
  <2> QED BY <2>1, Zenon DEF Heads, p
<1>7. CASE MergeBehind(p)
  <2>1. /\ base + block_page_count[base] = p
        /\ block_page_count' = [block_page_count EXCEPT ![base] = block_page_count[base] + block_page_count[p]]
        /\ reserved' = reserved \ {p} /\ free_list' = Unlink(free_list, le)
        /\ le' = le /\ base' = base
    BY <1>7, Zenon DEF MergeBehind
  <2> HIDE DEF p
  <2>2. /\ free_list' \in Seq(Pages) /\ IsInjective(free_list')
        /\ Len(free_list') = Len(free_list) - 1
        /\ Heads' = Heads \ {p}
        /\ \A i \in 1 .. le - 1 : free_list'[i] = free_list[i]
    BY <1>6, <2>1, Zenon
  <2>3. Starts' = Starts \ {p}
    BY <1>2, <2>1, <2>2, Zenon DEF Starts
  <2>4. base \in Starts /\ p \in Starts
    BY <1>2, Zenon
  <2>5. /\ RunsOK(Starts, block_page_count, Handed)' /\ CountedOK' /\ HeldOK'
        /\ FreeCover' = FreeCover
        /\ block_page_count' \in [Pages -> Nat]
        /\ base \in Nat /\ p \in Nat /\ block_page_count[base] \in Nat /\ block_page_count[p] \in Nat
        /\ block_page_count'[base] = block_page_count[base] + block_page_count[p]
        /\ \A x \in Pages : x # base => block_page_count'[x] = block_page_count[x]
        /\ RegionStarts' = RegionStarts
    BY <1>1, <2>1, <2>3, <2>4, MergeKeeps, Zenon
  <2>6. AllocTypeOK'
    <3>1. le' \in 0 .. Len(free_list') + 1
      <4>1. Len(free_list) \in Nat /\ le \in 1 .. Len(free_list)
        BY <1>1, <1>2, Zenon
      <4> QED BY <2>1, <2>2, <4>1, PlaceInside, Zenon
    <3> QED BY <1>1, <1>5, <2>1, <2>2, <2>5, <3>1, Zenon DEF AllocInv, AllocTypeOK
  <2>7. LoopOK'
    BY <1>1, <1>2, <2>1, <2>2 DEF LoopOK
  <2>8. MergedOK'
    <3>1. \A x, y \in Heads' : x + block_page_count'[x] = y => y \in RegionStarts'
      BY <1>2, <1>3, <1>5, <2>2, <2>5, Zenon
    <3>2. Coalesced'
      BY <3>1, Zenon DEF Coalesced, Heads, RegionStarts
    <3>3. ASSUME NEW i \in 1 .. le - 1
          PROVE  /\ base + block_page_count'[base] = free_list[i] => free_list[i] \in RegionStarts
                 /\ free_list[i] + block_page_count'[free_list[i]] = base => base \in RegionStarts
      <4>1. free_list[i] \in Heads /\ free_list[i] \in Pages /\ free_list[i] # base
        BY <1>2, <1>5, Zenon
      <4>2. base + block_page_count'[base] = p + block_page_count[p]
        BY <2>1, <2>5
      <4> QED BY <1>2, <1>3, <1>4, <2>5, <4>1, <4>2, Zenon
    <3> QED BY <2>1, <2>2, <2>5, <3>2, <3>3, Zenon DEF MergedOK
  <2> QED BY <2>5, <2>6, <2>7, <2>8, Zenon DEF AllocInv
<1>8. CASE MergeBefore(p)
  <2>1. /\ p + block_page_count[p] = base
        /\ block_page_count' = [block_page_count EXCEPT ![p] = block_page_count[p] + block_page_count[base]]
        /\ reserved' = reserved \ {base} /\ free_list' = Unlink(free_list, le)
        /\ le' = le /\ base' = p
    BY <1>8, Zenon DEF MergeBefore
  <2> HIDE DEF p
  <2>2. /\ free_list' \in Seq(Pages) /\ IsInjective(free_list')
        /\ Len(free_list') = Len(free_list) - 1
        /\ Heads' = Heads \ {p}
        /\ \A i \in 1 .. le - 1 : free_list'[i] = free_list[i]
    BY <1>6, <2>1, Zenon
  <2>3. Starts' = Starts \ {base}
    BY <1>2, <2>1, <2>2, Zenon DEF Starts
  <2>4. base \in Starts /\ p \in Starts
    BY <1>2, Zenon
  <2>5. /\ RunsOK(Starts, block_page_count, Handed)' /\ CountedOK' /\ HeldOK'
        /\ FreeCover' = FreeCover
        /\ block_page_count' \in [Pages -> Nat] /\ p \in Pages
        /\ base \in Nat /\ p \in Nat /\ block_page_count[base] \in Nat /\ block_page_count[p] \in Nat
        /\ block_page_count'[p] = block_page_count[p] + block_page_count[base]
        /\ \A x \in Pages : x # p => block_page_count'[x] = block_page_count[x]
        /\ RegionStarts' = RegionStarts
    BY <1>1, <2>1, <2>3, <2>4, MergeKeeps, Zenon
  <2>6. AllocTypeOK'
    <3>1. le' \in 0 .. Len(free_list') + 1
      <4>1. Len(free_list) \in Nat /\ le \in 1 .. Len(free_list)
        BY <1>1, <1>2, Zenon
      <4> QED BY <2>1, <2>2, <4>1, PlaceInside, Zenon
    <3> QED BY <1>1, <1>5, <2>1, <2>2, <2>5, <3>1, Zenon DEF AllocInv, AllocTypeOK
  <2>7. LoopOK'
    BY <1>1, <1>2, <2>1, <2>2, <2>5 DEF LoopOK
  <2>8. MergedOK'
    <3>1. \A x, y \in Heads' : x + block_page_count'[x] = y => y \in RegionStarts'
      BY <1>3, <1>5, <2>2, <2>5, Zenon
    <3>2. Coalesced'
      BY <3>1, Zenon DEF Coalesced, Heads, RegionStarts
    <3>3. ASSUME NEW i \in 1 .. le - 1
          PROVE  /\ p + block_page_count'[p] = free_list[i] => free_list[i] \in RegionStarts
                 /\ free_list[i] + block_page_count'[free_list[i]] = p => p \in RegionStarts
      <4>1. free_list[i] \in Heads /\ free_list[i] \in Pages /\ free_list[i] # p
        BY <1>2, <1>5, Zenon
      <4>2. p + block_page_count'[p] = base + block_page_count[base]
        BY <2>1, <2>5
      <4> QED BY <1>2, <1>3, <1>4, <2>5, <4>1, <4>2, Zenon
    <3> QED BY <2>1, <2>2, <2>5, <3>2, <3>3, Zenon DEF MergedOK
  <2> QED BY <2>5, <2>6, <2>7, <2>8, Zenon DEF AllocInv
<1>9. CASE Kept(p)
  <2>1. /\ base + block_page_count[base] # p /\ p + block_page_count[p] # base
        /\ le' = le + 1 /\ free_list' = free_list /\ block_page_count' = block_page_count
        /\ reserved' = reserved /\ base' = base
    BY <1>9, Zenon DEF Kept
  <2>2. Heads' = Heads /\ Starts' = Starts /\ Handed' = Handed /\ RegionStarts' = RegionStarts
    <3>1. le # 0 /\ le' # 0
      BY <1>2, <2>1
    <3> QED BY <1>1, <2>1, <3>1, Zenon DEF Heads, Starts, Handed, Region, RegionStarts
  <2>3. AllocTypeOK'
    BY <1>1, <1>2, <2>1 DEF AllocInv, AllocTypeOK
  <2>4. LoopOK'
    BY <1>1, <1>2, <2>1, <2>2 DEF LoopOK
  <2>5. RunsOK(Starts, block_page_count, Handed)' /\ CountedOK' /\ HeldOK'
    BY <1>1, <2>1, <2>2, Zenon DEF AllocInv, CountedOK, HeldOK
  <2>6. MergedOK'
    <3>1. Coalesced'
      BY <1>1, <2>1, Zenon DEF AllocInv, MergedOK, Coalesced
    <3>2. \A i \in 1 .. le' - 1 : i = le \/ i \in 1 .. le - 1
      BY <1>2, <2>1
    <3> QED BY <1>4, <2>1, <2>2, <3>1, <3>2, Zenon DEF MergedOK
  <2>7. FreeCover' = FreeCover
    BY <2>1, <2>2, Zenon DEF FreeCover
  <2> QED BY <2>3, <2>4, <2>5, <2>6, <2>7, Zenon DEF AllocInv
<1> QED BY <1>1, <1>7, <1>8, <1>9, Zenon

\* The end of free(): the block goes to the list.
LEMMA EndKeeps ==
  ASSUME AllocInv, FreeEnd
  PROVE  AllocInv' /\ FreeCover' = FreeCover
<1>1. /\ le = Len(free_list) + 1 /\ free_list' = Append(free_list, base)
      /\ free_page_count' = free_page_count + count
      /\ le' = 0 /\ base' = 0 /\ count' = 0
      /\ block_page_count' = block_page_count /\ reserved' = reserved /\ held' = held
      /\ boot' = boot /\ given' = given
  BY Zenon DEF FreeEnd
<1>2. /\ free_list \in Seq(Pages) /\ IsInjective(free_list) /\ Len(free_list) \in Nat /\ le # 0
      /\ base \in Pages \ Heads /\ given = Len(boot) /\ given \in Nat
      /\ free_page_count \in Nat /\ count \in Nat
  BY <1>1, Regions DEF AllocInv, AllocTypeOK, LoopOK
<1>3. Starts = Heads \cup {base}
  BY <1>2, Zenon DEF Starts
<1>4. /\ free_list' \in Seq(Pages) /\ IsInjective(free_list')
      /\ Len(free_list') = Len(free_list) + 1
      /\ Heads' = Heads \cup {base}
  BY <1>1, <1>2, AppendList, Zenon DEF Heads
<1>5. Starts' = Starts /\ Handed' = Handed /\ RegionStarts' = RegionStarts
  BY <1>1, <1>3, <1>4, Zenon DEF Starts, Handed, Region, RegionStarts
<1>6. AllocTypeOK'
  BY <1>1, <1>2, <1>4 DEF AllocInv, AllocTypeOK
<1>7. LoopOK'
  BY <1>1, <1>2 DEF LoopOK
<1>8. RunsOK(Starts, block_page_count, Handed)' /\ HeldOK'
  BY <1>1, <1>5, Zenon DEF AllocInv, HeldOK
<1>9. CountedOK'
  <2>1. free_page_count' + count' = free_page_count + count
    BY <1>1, <1>2
  <2> QED BY <1>1, <1>5, <2>1, Zenon DEF AllocInv, CountedOK
<1>10. MergedOK'
  <2>1. \A x, y \in Heads : x + block_page_count[x] = y => y \in RegionStarts
    BY CoalescedHeads, Zenon DEF AllocInv, MergedOK
  <2>2. \A x \in Heads : /\ base + block_page_count[base] = x => x \in RegionStarts
                         /\ x + block_page_count[x] = base => base \in RegionStarts
    <3> SUFFICES ASSUME NEW x \in Heads
                 PROVE  /\ base + block_page_count[base] = x => x \in RegionStarts
                        /\ x + block_page_count[x] = base => base \in RegionStarts
      BY Zenon
    <3>1. PICK i \in 1 .. Len(free_list) : free_list[i] = x
      BY <1>2, RangeMember, Zenon DEF Heads
    <3>2. i \in 1 .. le - 1
      BY <1>1, <1>2
    <3> QED BY <3>1, <3>2, Zenon DEF AllocInv, MergedOK
  <2>3. base + block_page_count[base] # base
    <3>1. RunsOK(Starts, block_page_count, Handed) /\ block_page_count \in [Pages -> Nat]
      BY Zenon DEF AllocInv, AllocTypeOK
    <3>2. base \in Nat /\ block_page_count[base] \in Nat \ {0}
      BY <1>3, <3>1, RunTypes
    <3> QED BY <3>2
  <2>4. \A x, y \in Heads' : x + block_page_count'[x] = y => y \in RegionStarts'
    BY <1>1, <1>4, <1>5, <2>1, <2>2, <2>3, Zenon
  <2>5. Coalesced'
    BY <2>4, Zenon DEF Coalesced, Heads, RegionStarts
  <2> QED BY <1>1, <2>5 DEF MergedOK
<1>11. FreeCover' = FreeCover
  BY <1>1, <1>5, Zenon DEF FreeCover
<1> QED BY <1>6, <1>7, <1>8, <1>9, <1>10, <1>11, Zenon DEF AllocInv

\* kfree() frees the size that kmalloc() wrote down, and free_pages() the size
\* that its caller knows: both are the size of the block.
LEMMA FreeOfSize ==
  ASSUME AllocInv, NEW b \in held, FreePagesOf(b) \/ Kfree(b)
  PROVE  Free(b, b.count)
<1>1. b.count \in Nat \ {0}
  BY Zenon DEF AllocInv, AllocTypeOK
<1>2. CASE FreePagesOf(b)
  BY <1>2, Zenon DEF FreePagesOf
<1>3. CASE Kfree(b)
  <2>1. block_page_count[b.base] = b.count
    BY <1>3, Zenon DEF AllocInv, HeldOK, Kfree
  <2>2. (IF block_page_count[b.base] > 0 THEN block_page_count[b.base] ELSE 1) = b.count
    BY <1>1, <2>1
  <2> QED BY <1>3, <2>2, Zenon DEF Kfree
<1> QED BY <1>2, <1>3, Zenon

\* Every step of the allocator keeps the invariant.
LEMMA AllocStepOK == AllocInv /\ [AllocNext]_allocVars => AllocInv'
<1> SUFFICES ASSUME AllocInv, [AllocNext]_allocVars PROVE AllocInv'
  BY Zenon
<1>1. CASE InitMemmap
  BY <1>1, InitMemmapKeeps, Zenon
<1>2. CASE FreeTurn
  BY <1>2, TurnKeeps, Zenon
<1>3. CASE FreeEnd
  BY <1>3, EndKeeps, Zenon
<1>4. CASE \E n \in Sizes : AllocPages(n) \/ Kmalloc(n)
  BY <1>4, AllocKeeps, Zenon DEF AllocPages, Kmalloc
<1>5. ASSUME NEW b \in held, FreePagesOf(b) \/ Kfree(b) PROVE AllocInv'
  BY <1>5, FreeOfSize, FreeKeeps, Zenon
<1>6. CASE UNCHANGED allocVars
  <2>1. /\ free_list' = free_list /\ free_page_count' = free_page_count
        /\ block_page_count' = block_page_count /\ reserved' = reserved /\ held' = held
        /\ boot' = boot /\ given' = given /\ le' = le /\ base' = base /\ count' = count
    BY <1>6, Zenon DEF allocVars, listVars, loopVars
  <2>2. Heads' = Heads /\ Starts' = Starts /\ Handed' = Handed /\ RegionStarts' = RegionStarts
    BY <2>1, Zenon DEF Heads, Starts, Handed, Region, RegionStarts
  <2>3. AllocTypeOK' /\ LoopOK'
    BY <2>1, <2>2, Zenon DEF AllocInv, AllocTypeOK, LoopOK
  <2>4. RunsOK(Starts, block_page_count, Handed)' /\ CountedOK' /\ HeldOK'
    BY <2>1, <2>2, Zenon DEF AllocInv, CountedOK, HeldOK
  <2>5. MergedOK'
    BY <2>1, <2>2, Zenon DEF AllocInv, MergedOK, Coalesced
  <2> QED BY <2>3, <2>4, <2>5, Zenon DEF AllocInv
<1> QED BY <1>1, <1>2, <1>3, <1>4, <1>5, <1>6, Zenon DEF AllocNext

\* The invariant says at rest what the allocator claims.
LEMMA AllocInvExact == AllocInv => FreeListExact
<1> SUFFICES ASSUME AllocInv, Quiet PROVE BookkeepingExact /\ Coalesced
  BY Zenon DEF FreeListExact
<1>1. /\ RunsOK(Starts, block_page_count, Handed) /\ block_page_count \in [Pages -> Nat]
      /\ free_list \in Seq(Pages) /\ IsInjective(free_list) /\ free_page_count \in Nat
  BY Zenon DEF AllocInv, AllocTypeOK
<1>2. Starts = Heads /\ count = 0 /\ Handed = Managed
  BY Zenon DEF AllocInv, LoopOK, Quiet, Starts, Handed, Managed
<1>3. ASSUME NEW i \in 1 .. Len(free_list), NEW j \in 1 .. Len(free_list), i # j
      PROVE  FreeRun(free_list[i]) \cap FreeRun(free_list[j]) = {}
  <2>1. free_list[i] # free_list[j]
    <3>1. DOMAIN free_list = 1 .. Len(free_list)
      BY <1>1
    <3> QED BY <1>1, <1>3, <3>1, Zenon DEF IsInjective
  <2>2. free_list[i] \in Starts /\ free_list[j] \in Starts
    BY <1>1, <1>2, RangeMember, Zenon DEF Heads
  <2> QED BY <1>1, <2>1, <2>2, RunsApart, Zenon DEF FreeRun
<1>4. free_page_count = Cardinality(FreePages)
  <2>1. FreePages = Cover(Starts, block_page_count)
    BY <1>2, Zenon DEF FreePages, Cover, FreeRun, Heads
  <2>2. free_page_count + count = Cardinality(Cover(Starts, block_page_count))
    BY Zenon DEF AllocInv, CountedOK
  <2> QED BY <1>1, <1>2, <2>1, <2>2
<1>5. reserved \cap Managed = Range(free_list)
  BY <1>2, Zenon DEF AllocInv, CountedOK, Heads
<1> QED BY <1>3, <1>4, <1>5, Zenon DEF BookkeepingExact, AllocInv, MergedOK

\* For any boot map and any sizes, the free list of the first-fit allocator is
\* exact and merged whenever no call runs: what alloc(), free() and init_memmap()
\* do to free_list, free_page_count, block_page_count and the reserved marks
\* agrees (pmm_firstfit.cpp).
THEOREM FreeListSafe == AllocSpec => []FreeListExact
<1>1. AllocSpec => []AllocInv
  BY AllocInitOK, AllocStepOK, PTL DEF AllocSpec
<1> QED BY <1>1, AllocInvExact, PTL

(***************************************************************************)
(* The abstract allocator                                                  *)
(***************************************************************************)

\* The pages of the regions to come.
Coming == UNION {Region(i) : i \in given + 1 .. Len(boot)}

LEMMA UnownedIs == Unowned = FreeCover \cup Coming
<1>1. FreePages = Cover(Heads, block_page_count)
  BY Zenon DEF FreePages, Cover, FreeRun, Heads
<1>2. CASE le = 0
  BY <1>1, <1>2, Zenon DEF Unowned, FreeCover, Starts, Coming
<1>3. CASE le # 0
  <2>1. Cover(Heads \cup {base}, block_page_count) = Cover(Heads, block_page_count) \cup FreeRun(base)
    BY Zenon DEF Cover, FreeRun
  <2> QED BY <1>1, <1>3, <2>1, Zenon DEF Unowned, FreeCover, Starts, Coming
<1> QED BY <1>2, <1>3, Zenon

\* page_init() starts with all the pages of the boot map free.
LEMMA PoolInitOK == AllocInit => Pool!Init
<1> SUFFICES ASSUME AllocInit PROVE Unowned \subseteq Pages /\ held = {}
  BY Zenon DEF Pool!Init
<1>1. FreeCover = {}
  BY DEF AllocInit, FreeCover, Cover, Starts, Heads, Range
<1>2. Coming \subseteq Pages
  BY Regions DEF AllocInit, Coming
<1> QED BY <1>1, <1>2, UnownedIs, Zenon DEF AllocInit

\* Each step of the allocator is a step of the abstract one or changes nothing
\* that it sees.
LEMMA PoolStepOK ==
  AllocInv /\ [AllocNext]_allocVars => [Pool!Next]_<<Unowned, held>>
<1> SUFFICES ASSUME AllocInv, [AllocNext]_allocVars PROVE [Pool!Next]_<<Unowned, held>>
  BY Zenon
<1>1. Unowned = FreeCover \cup Coming /\ Unowned' = FreeCover' \cup Coming'
  <2>1. Unowned = FreeCover \cup Coming
    BY UnownedIs, Zenon
  <2>2. (Unowned = FreeCover \cup Coming)'
    BY UnownedIs, PTL
  <2> QED BY <2>1, <2>2, Zenon
<1>2. given \in Nat /\ Len(boot) \in Nat /\ given <= Len(boot)
  BY Regions DEF AllocInv, AllocTypeOK
<1>3. Quiet => Coming = {}
  BY <1>2 DEF Quiet, Coming
<1>4. boot' = boot /\ given' = given => Coming' = Coming
  BY Zenon DEF Coming, Region
<1>5. CASE InitMemmap
  <2>1. FreeCover' = FreeCover \cup Region(given + 1)
    BY <1>5, InitMemmapKeeps, Zenon
  <2>2. boot' = boot /\ given' = given + 1 /\ given < Len(boot) /\ held' = held
    BY <1>5, Zenon DEF InitMemmap
  <2>3. given + 1 .. Len(boot) = (given' + 1 .. Len(boot)) \cup {given + 1}
    BY <1>2, <2>2
  <2>4. Coming = Coming' \cup Region(given + 1)
    BY <2>2, <2>3, Zenon DEF Coming, Region
  <2> QED BY <1>1, <2>1, <2>2, <2>4, Zenon
<1>6. CASE FreeTurn
  BY <1>1, <1>4, <1>6, TurnKeeps, Zenon DEF FreeTurn
<1>7. CASE FreeEnd
  BY <1>1, <1>4, <1>7, EndKeeps, Zenon DEF FreeEnd
<1>8. ASSUME NEW n \in Sizes, NEW k \in BOOLEAN, Alloc(n, k) PROVE Pool!Next
  <2>1. PICK page \in Pages : /\ held' = held \cup {[base |-> page, count |-> n, kmalloc |-> k]}
                              /\ Run(page, n) \subseteq FreeCover
                              /\ FreeCover' = FreeCover \ Run(page, n)
    BY <1>8, AllocKeeps, Zenon
  <2>2. Quiet /\ boot' = boot /\ given' = given
    BY <1>8, Zenon DEF Alloc
  <2>3. Run(page, n) \subseteq Unowned /\ Unowned' = Unowned \ Run(page, n)
    BY <1>1, <1>3, <1>4, <2>1, <2>2, Zenon
  <2>4. Pool!Alloc([base |-> page, count |-> n, kmalloc |-> k])
    BY <2>1, <2>3, Zenon DEF Pool!Alloc, Pool!Block, Run
  <2> QED BY <2>4, Zenon DEF Pool!Next
<1>9. ASSUME NEW b \in held, Free(b, b.count) PROVE Pool!Next
  <2>1. FreeCover' = FreeCover \cup Run(b.base, b.count)
    BY <1>9, FreeKeeps, Zenon
  <2>2. boot' = boot /\ given' = given /\ held' = held \ {b}
    BY <1>9, Zenon DEF Free
  <2>3. Pool!Free(b)
    BY <1>1, <1>4, <2>1, <2>2, Zenon DEF Pool!Free, Pool!Block, Run
  <2> QED BY <2>3, Zenon DEF Pool!Next
<1>10. CASE UNCHANGED allocVars
  <2>1. /\ free_list' = free_list /\ block_page_count' = block_page_count /\ held' = held
        /\ boot' = boot /\ given' = given /\ le' = le /\ base' = base
    BY <1>10, Zenon DEF allocVars, listVars, loopVars
  <2>2. FreeCover' = FreeCover
    BY <2>1, Zenon DEF FreeCover, Starts, Heads
  <2> QED BY <1>1, <1>4, <2>1, <2>2, Zenon
<1>11. CASE \E n \in Sizes : AllocPages(n) \/ Kmalloc(n)
  BY <1>8, <1>11, Zenon DEF AllocPages, Kmalloc
<1>12. CASE \E b \in held : FreePagesOf(b) \/ Kfree(b)
  BY <1>9, <1>12, FreeOfSize, Zenon
<1> QED BY <1>5, <1>6, <1>7, <1>10, <1>11, <1>12, Zenon DEF AllocNext

\* For any boot map and any sizes, the first-fit allocator with kmalloc() and
\* kfree() is an allocator of blocks that nobody else has: alloc() takes its
\* block from the free pages, and exactly that block comes back in free().
THEOREM PoolRefinement == AllocSpec => ImplementsPool
<1>1. AllocSpec => []AllocInv
  BY AllocInitOK, AllocStepOK, PTL DEF AllocSpec
<1> QED BY <1>1, PoolInitOK, PoolStepOK, PTL DEF AllocSpec, ImplementsPool, Pool!Spec
=============================================================================
