----------------------------- MODULE PageTable -----------------------------
(***************************************************************************)
(* The page tables: the walker of kernel/mm/pmm.cpp, the kernel's own      *)
(* mapping (vmm::init), device mappings (kernel/mm/mmio.cpp) and the       *)
(* tables of a user address space, above one pool of page frames.          *)
(*                                                                         *)
(* Three levels, as on Sv39: a root of three entries (user, kernel memory, *)
(* devices) above tables of two.  Addresses count pages.  The processor    *)
(* walks the active tables by itself at every moment, so each store that   *)
(* links a table is a step.  Any allocation may fail: other parts of the   *)
(* kernel hold the memory.                                                 *)
(***************************************************************************)
EXTENDS Naturals, FiniteSets, FiniteSetsExt, PageEntry

CONSTANTS
  Boards,     \* the machines the kernel is built for
  TableFrames,     \* page frames, numbered in the order the allocator takes them
  MaxMaps     \* device mappings asked for in a behaviour

VARIABLES
  board,
  table_mem,      \* the content of every table: the static ones and the frames
  unused,     \* frames the allocator may hand out
  op,       \* the running operation and where its walk is
  maps,     \* MmioAllocator::mappings_
  space,    \* the user address space: {} or {[root, pages, ready]}
  active,   \* the root the processor uses
  tlb,      \* {} or one translation the processor remembers
  phase,    \* "init", "boot", "run" or "halted"
  asked     \* device mappings asked for

tableVars == <<board, table_mem, unused, op, maps, space, active, tlb, phase, asked>>

arch == IF board \in {"qemu_virt", "visionfive2"} THEN "riscv64" ELSE board

(***************************************************************************)
(* Addresses: a root entry covers eight pages, a middle entry two.  Entry 0 *)
(* of the root is the user's; kernel addresses start at entry 1, where a   *)
(* physical page p has the address p + KERNEL_BASE.                        *)
(***************************************************************************)

LeafLevel == 2
level_index(va, level) == <<va \div 8, (va \div 2) % 4, va % 2>>[level + 1]
LevelSpan(level) == <<8, 2, 1>>[level + 1]

UserVa == 1 .. 3                     \* page 0 is never mapped
KERNEL_BASE == 8
KERNEL_MEM_SIZE == IF arch = "riscv64" THEN 8 ELSE 2
KERNEL_DEVIO_BASE == KERNEL_BASE + (IF arch = "riscv64" THEN KERNEL_MEM_SIZE ELSE 4)
AddressEnd == IF arch = "x86" THEN 16 ELSE 32
BOARD_DRAM_BASE == IF board = "visionfive2" THEN 8 ELSE 16
DevPa == 40                          \* a device's registers
FramePa(f) == 50 + f

Root == 0                            \* __kernel_pg_dir, in the kernel image
BootTable == Max(TableFrames) + 1         \* __boot_pdpt_high, __boot_pud_high
Tables == {Root, BootTable} \cup TableFrames
Zeroed == [i \in 0 .. 3 |-> NoEntry]

Block(bits, pa) == [to |-> pa, bits |-> bits]
BootMem(root, middle) ==
  [t \in Tables |-> IF t = Root THEN root ELSE IF t = BootTable THEN middle ELSE Zeroed]

\* head.S: a static table of large pages below the kernel's root entry; more
\* memory than vmm::init maps again, less than the addresses of devices.
x86_boot_tables ==
  BootMem([Zeroed EXCEPT ![1] = [to |-> BootTable, bits |-> {"P", "W"}]],
          [Zeroed EXCEPT ![0] = Block({"P", "W", "PS"}, 0), ![1] = Block({"P", "W", "PS"}, 2)])
aarch64_boot_tables ==
  BootMem([Zeroed EXCEPT ![1] = [to |-> BootTable, bits |-> {"VALID", "TABLE"}]],
          [Zeroed EXCEPT ![0] = Block({"VALID", "AF", "ISH"}, 0),
                         ![1] = Block({"VALID", "AF", "ISH"}, 2)])
\* head.S: a gigapage for the low addresses and one for the memory.
riscv64_boot_tables ==
  LET BOOT_PERM == {"V", "R", "W", "X", "A", "D"}
  IN BootMem([Zeroed EXCEPT ![1] = Block(BOOT_PERM, 0),
                            ![1 + (BOARD_DRAM_BASE \div 8)] = Block(BOOT_PERM, BOARD_DRAM_BASE)],
             Zeroed)
boot_tables == CASE arch = "x86" -> x86_boot_tables [] arch = "aarch64" -> aarch64_boot_tables
                 [] arch = "riscv64" -> riscv64_boot_tables

(* kind: what the walk is for; va: the page it is at, of [from, upto); own:  *)
(* frames held for the record or page; new: the new table.                  *)
Op(pc, kind, root, from, upto, own) ==
  [pc |-> pc, kind |-> kind, root |-> root, from |-> from, va |-> from, upto |-> upto,
   own |-> own, new |-> {}, table |-> root, level |-> 0]
Idle == Op("idle", "none", Root, 0, 0, {})
NextPage == [op EXCEPT !.va = @ + 1, !.table = op.root, !.level = 0]

TableInit ==
  /\ board \in Boards
  /\ table_mem = boot_tables
  /\ unused = TableFrames
  /\ op = Op("walk", "init", Root, KERNEL_BASE, KERNEL_BASE + KERNEL_MEM_SIZE, {})
  /\ maps = {} /\ space = {} /\ active = Root /\ tlb = {}
  /\ phase = "init" /\ asked = 0

(***************************************************************************)
(* The walk (get_pte with create) and what a translation is                *)
(***************************************************************************)

Entry == table_mem[op.table][level_index(op.va, op.level)]
AtLeaf(kind) == op.pc = "walk" /\ op.level = LeafLevel /\ op.kind = kind
IsTable(e) == pte(arch, e).present /\ ~pte(arch, e).block

SplitTable(e, level) ==
  [i \in 0 .. 3 |-> IF i * LevelSpan(level + 1) < LevelSpan(level)
     THEN split_page_entry(arch, e, e.to + i * LevelSpan(level + 1), level + 1 = LeafLevel)
     ELSE NoEntry]

\* Where an address leads under a root, and with which rights: the page it
\* ends at, or Unmapped.  pte_is_block ends the walk early.
Unmapped == [pa |-> 0, rights |-> {}]
PatBit(e, level) == arch = "x86" /\ level = LeafLevel /\ "PS" \in e.bits
PageAt(e, va, level) ==
  LET q == pte(arch, e)
  IN IF ~q.present THEN Unmapped
     ELSE [pa |-> e.to + (va % LevelSpan(level)),
           rights |-> {"R"} \cup On(q.write, {"W"}) \cup On(q.user, {"U"}) \cup On(q.exec, {"X"})
                      \cup On(q.cached /\ ~PatBit(e, level), {"cached"})]
Translate(root, va) ==
  LET e0 == table_mem[root][level_index(va, 0)]
      e1 == table_mem[e0.to][level_index(va, 1)]
      e2 == table_mem[e1.to][level_index(va, 2)]
  IN CASE ~IsTable(e0) -> PageAt(e0, va, 0)
       [] IsTable(e0) /\ ~IsTable(e1) -> PageAt(e1, va, 1)
       [] OTHER -> PageAt(e2, va, 2)

\* user_address: the tables on the way must let the user through as well.
user_address(root, va) ==
  LET e0 == table_mem[root][level_index(va, 0)]
      e1 == table_mem[e0.to][level_index(va, 1)]
  IN IF /\ pte(arch, e0).tableOk /\ (IsTable(e1) => pte(arch, e1).tableOk)
        /\ {"U", "W"} \subseteq Translate(root, va).rights
     THEN Translate(root, va).pa ELSE 0

\* descend_level over a table entry.
Descend ==
  /\ op.pc = "walk" /\ op.level < LeafLevel /\ IsTable(Entry)
  /\ op' = [op EXCEPT !.table = Entry.to, !.level = @ + 1]
  /\ UNCHANGED <<board, table_mem, unused, maps, space, active, tlb, phase, asked>>

\* Mutant of alloc_table_page: the page is handed out with its old content.
alloc_table_page_stale ==
  /\ unused # {}
  /\ LET t == Min(unused)
     IN /\ table_mem' = [table_mem EXCEPT ![t] = IF pte(arch, Entry).present
                                      THEN SplitTable(Entry, op.level) ELSE @]
        /\ unused' = unused \ {t}
        /\ op' = [op EXCEPT !.pc = "link", !.new = {t}]

\* descend_level, no table yet: a table is allocated and filled, from the
\* block it replaces or with empty entries ...
alloc_table_page ==
  /\ unused # {}
  /\ LET t == Min(unused)
     IN /\ table_mem' = [table_mem EXCEPT ![t] = IF pte(arch, Entry).present
                                      THEN SplitTable(Entry, op.level) ELSE Zeroed]
        /\ unused' = unused \ {t}
        /\ op' = [op EXCEPT !.pc = "link", !.new = {t}]

descend_level ==
  /\ op.pc = "walk" /\ op.level < LeafLevel /\ ~IsTable(Entry)
  /\ \/ alloc_table_page
     \/ op' = [op EXCEPT !.pc = "nomem"] /\ UNCHANGED <<table_mem, unused>>
  /\ UNCHANGED <<board, maps, space, active, tlb, phase, asked>>

\* ... and then linked.
link_table_entry ==
  /\ op.pc = "link"
  /\ \E t \in op.new :
       /\ table_mem' = [table_mem EXCEPT ![op.table][level_index(op.va, op.level)] = make_pte_table(arch, t)]
       /\ op' = [op EXCEPT !.pc = "walk", !.new = {}, !.table = t, !.level = @ + 1]
  /\ UNCHANGED <<board, unused, maps, space, active, tlb, phase, asked>>

(***************************************************************************)
(* The processor's own steps                                               *)
(***************************************************************************)

\* aarch64 has a root of its own for the kernel's addresses (TTBR1).
WalkRoot(root, va) == IF arch = "aarch64" /\ va >= KERNEL_BASE THEN Root ELSE root

\* The processor may remember what it finds, and forget it.
Remember ==
  /\ tlb = {} /\ phase # "halted"
  /\ \E va \in 0 .. 31 : /\ Translate(WalkRoot(active, va), va) # Unmapped
                         /\ tlb' = {[va |-> va, page |-> Translate(WalkRoot(active, va), va)]}
  /\ UNCHANGED <<board, table_mem, unused, op, maps, space, active, phase, asked>>

ForgetTlb ==
  /\ tlb # {} /\ tlb' = {}
  /\ UNCHANGED <<board, table_mem, unused, op, maps, space, active, phase, asked>>

\* arch_invalidate_tlb_range over [from, upto).
invalidate(from, upto) == {t \in tlb : t.va \notin from .. upto - 1}

\* arch_load_page_table_root: another task runs; every translation is
\* forgotten.
load_page_table_root ==
  /\ phase = "run"
  /\ \E s \in space : active' = IF active = Root THEN s.root ELSE Root
  /\ tlb' = {}
  /\ UNCHANGED <<board, table_mem, unused, op, maps, space, phase, asked>>

(***************************************************************************)
(* vmm::init: the kernel's memory is mapped again, page by page            *)
(***************************************************************************)

SetLeaf(e) == table_mem' = [table_mem EXCEPT ![op.table][level_index(op.va, LeafLevel)] = e]
LastPage == op.va + 1 = op.upto

vmm_init_page ==
  /\ AtLeaf("init")
  /\ SetLeaf(make_pte_page(arch, op.va - KERNEL_BASE, {"WRITE"}))
  /\ \/ ~LastPage /\ op' = NextPage /\ UNCHANGED <<tlb, phase>>
     \/ /\ LastPage /\ op' = Idle /\ phase' = "boot"
        /\ tlb' = invalidate(op.from, op.upto)
  /\ UNCHANGED <<board, unused, maps, space, active, asked>>

\* A required step of the start-up failed: the machine stops.
vmm_init_fails ==
  /\ op.pc = "nomem" /\ op.kind = "init"
  /\ phase' = "halted" /\ op' = Idle
  /\ UNCHANGED <<board, table_mem, unused, maps, space, active, tlb, asked>>

(***************************************************************************)
(* MmioAllocator                                                           *)
(***************************************************************************)

\* The first gap of the ordered list that is wide enough.
first_fit(n) ==
  Min({c \in {KERNEL_DEVIO_BASE} \cup {m.upto : m \in maps} :
         \A m \in maps : m.upto <= c \/ m.from >= c + n})

\* map: the record, the gap, and then the pages; nothing is kept when there
\* is no memory for the record or no gap before the end of the addresses.
map ==
  /\ phase = "boot" /\ op = Idle /\ asked < MaxMaps /\ asked' = asked + 1
  /\ \E n \in 1 .. 2 :
       \/ /\ unused # {} /\ first_fit(n) + n <= AddressEnd
          /\ op' = Op("walk", "map", Root, first_fit(n), first_fit(n) + n, {Min(unused)})
          /\ unused' = unused \ {Min(unused)}
       \/ UNCHANGED <<op, unused>>
  /\ UNCHANGED <<board, table_mem, maps, space, active, tlb, phase>>

map_page ==
  /\ AtLeaf("map") /\ ~pte(arch, Entry).present
  /\ SetLeaf(make_pte_page(arch, DevPa + op.va - op.from, {"WRITE", "NOCACHE", "NOEXEC"}))
  /\ \/ ~LastPage /\ op' = NextPage /\ UNCHANGED <<maps, tlb>>
     \/ /\ LastPage /\ op' = Idle
        /\ maps' = maps \cup {[from |-> op.from, upto |-> op.upto,
                               record |-> op.own]}
        /\ tlb' = invalidate(op.from, op.upto)
  /\ UNCHANGED <<board, unused, space, active, phase, asked>>

\* Mutant of map_fails: the page whose walk failed is left out.
map_fails_short ==
  /\ op.pc = "nomem" /\ op.kind = "map"
  /\ IF op.va = op.from THEN op' = Idle /\ unused' = unused \cup op.own
     ELSE op' = Op("unmap", "map", Root, op.from, op.va, op.own) /\ UNCHANGED unused
  /\ UNCHANGED <<board, table_mem, maps, space, active, tlb, phase, asked>>

\* No table for a page: the pages so far are unmapped, and the page that
\* failed with them, since its walk may have left an empty table.
map_fails ==
  /\ op.pc = "nomem" /\ op.kind = "map"
  /\ op' = Op("unmap", "map", Root, op.from, op.va + 1, op.own)
  /\ UNCHANGED <<board, table_mem, unused, maps, space, active, tlb, phase, asked>>

release ==
  /\ phase = "boot" /\ op = Idle
  /\ \E m \in maps : /\ maps' = maps \ {m}
                     /\ op' = Op("unmap", "map", Root, m.from, m.upto, m.record)
  /\ UNCHANGED <<board, table_mem, unused, space, active, tlb, phase, asked>>

EmptyTable(tables, t) == \A i \in 0 .. 3 : tables[t][i] = NoEntry

\* is_page_table and not reserved, and below page_count.
may_free(t) == t \in TableFrames

\* unmap_mmio_page: clear the entry, then unlink and free the tables that
\* are empty now, from the last one the walk reached upwards.
unmap_mmio_page ==
  LET i(level) == level_index(op.va, level)
      e0    == table_mem[Root][i(0)]
      t1    == e0.to
      e1    == table_mem[t1][i(1)]
      t2    == e1.to
      depth == IF ~IsTable(e0) THEN 0 ELSE IF ~IsTable(e1) THEN 1 ELSE 2
      cleared == IF depth = 2 THEN [table_mem EXCEPT ![t2][i(2)] = NoEntry] ELSE table_mem
      drop2 == depth = 2 /\ EmptyTable(cleared, t2) /\ may_free(t2)
      without2 == IF drop2 THEN [cleared EXCEPT ![t1][i(1)] = NoEntry] ELSE cleared
      drop1 == /\ depth = 1 \/ drop2
               /\ EmptyTable(without2, t1) /\ may_free(t1)
  IN /\ table_mem' = IF drop1 THEN [without2 EXCEPT ![Root][i(0)] = NoEntry] ELSE without2
     /\ unused' = unused \cup {t \in {t1, t2} : (t = t1 /\ drop1) \/ (t = t2 /\ drop2)}
                     \cup (IF LastPage THEN op.own ELSE {})

unmap_page ==
  /\ op.pc = "unmap"
  /\ unmap_mmio_page
  /\ tlb' = invalidate(op.va, op.va + 1)
  /\ op' = IF LastPage THEN Idle ELSE NextPage
  /\ UNCHANGED <<board, maps, space, active, phase, asked>>

\* The drivers are up; from here tasks run.
boot_done ==
  /\ phase = "boot" /\ op = Idle /\ phase' = "run"
  /\ UNCHANGED <<board, table_mem, unused, op, maps, space, active, tlb, asked>>

(***************************************************************************)
(* A user address space                                                    *)
(***************************************************************************)

\* create_user_pgdir: an empty root with the kernel's entries.
create_user_pgdir ==
  /\ phase = "run" /\ op = Idle /\ space = {} /\ Cardinality(unused) >= 1
  /\ LET r == Min(unused)
     IN /\ table_mem' = [table_mem EXCEPT ![r] = [Zeroed EXCEPT ![1] = table_mem[Root][1], ![2] = table_mem[Root][2],
                                              ![3] = table_mem[Root][3]]]
        /\ unused' = unused \ {r}
        /\ space' = {[root |-> r, pages |-> {}, ready |-> FALSE]}
        /\ op' = Op("page", "user", r, Min(UserVa), Max(UserVa) + 1, {})
  /\ UNCHANGED <<board, maps, active, tlb, phase, asked>>

\* alloc_and_map_page: a frame, and the walk to its entry.
alloc_and_map_page ==
  /\ op.pc = "page"
  /\ \/ /\ unused # {} /\ unused' = unused \ {Min(unused)}
        /\ op' = [op EXCEPT !.pc = "walk", !.own = {Min(unused)}]
     \/ op' = [op EXCEPT !.pc = "nomem"] /\ UNCHANGED unused
  /\ UNCHANGED <<board, table_mem, maps, space, active, tlb, phase, asked>>

page_insert ==
  /\ AtLeaf("user") /\ ~pte(arch, Entry).present
  /\ \E f \in op.own, s \in space :
       /\ SetLeaf(make_pte_page(arch, FramePa(f), VM_USER_RW))
       /\ space' = {[s EXCEPT !.pages = @ \cup {f}, !.ready = LastPage]}
  /\ op' = IF LastPage THEN Idle ELSE [NextPage EXCEPT !.pc = "page", !.own = {}]
  /\ UNCHANGED <<board, unused, maps, active, tlb, phase, asked>>

\* Mutant of free_user_pt_subtree: only the pages, not the tables, are freed.
free_user_pt_subtree_pages(root) ==
  LET Below(t) == {table_mem[t][i].to : i \in {i \in 0 .. 3 : pte(arch, table_mem[t][i]).present}}
      pages == UNION {Below(t) : t \in Below(table_mem[root][0].to)}
  IN IF IsTable(table_mem[root][0]) THEN {f \in TableFrames : FramePa(f) \in pages} ELSE {}

\* free_user_pt_subtree: the pages and tables below the user's entries.
free_user_pt_subtree(root) ==
  LET Below(t) == {table_mem[t][i].to : i \in {i \in 0 .. 3 : pte(arch, table_mem[t][i]).present}}
      top == table_mem[root][0].to
      pages == UNION {Below(t) : t \in Below(top)}
  IN IF IsTable(table_mem[root][0])
     THEN {top} \cup Below(top) \cup {f \in TableFrames : FramePa(f) \in pages} ELSE {}

\* free_user_pgdir, for a space that could not be completed (with the page
\* that was not mapped) and, once its task is gone, for a complete one.
free_user_pgdir ==
  /\ \/ op.pc = "nomem" /\ op.kind = "user"
     \/ op = Idle /\ \E s \in space : s.ready
  /\ \E s \in space :
       /\ active # s.root
       /\ unused' = unused \cup free_user_pt_subtree(s.root) \cup {s.root} \cup op.own
  /\ space' = {} /\ op' = Idle
  /\ UNCHANGED <<board, table_mem, maps, active, tlb, phase, asked>>

TableNext ==
  \/ Descend \/ descend_level \/ link_table_entry
  \/ Remember \/ ForgetTlb \/ load_page_table_root
  \/ vmm_init_page \/ vmm_init_fails
  \/ map \/ map_page \/ map_fails \/ release \/ unmap_page \/ boot_done
  \/ create_user_pgdir \/ alloc_and_map_page \/ page_insert \/ free_user_pgdir

TableSpec == TableInit /\ [][TableNext]_tableVars

(***************************************************************************)
(* Properties                                                              *)
(***************************************************************************)

Children(t, slots) == {table_mem[t][i].to : i \in {i \in slots : IsTable(table_mem[t][i])}}
Middle == UNION {Children(r, 0 .. 3) : r \in {Root} \cup {s.root : s \in space}}
TablesInUse == Middle \cup UNION {Children(t, 0 .. 3) : t \in Middle}
                      \cup {s.root : s \in space}
Roots == {Root} \cup {s.root : s \in space}

\* The kernel's memory stays where it is, readable and writable, under every
\* root and at every store, while blocks are split and tables linked.
KernelStays ==
  \A r \in Roots, va \in KERNEL_BASE .. KERNEL_BASE + KERNEL_MEM_SIZE - 1 :
    LET page == Translate(WalkRoot(r, va), va)
    IN page.pa = va - KERNEL_BASE /\ page.rights = {"R", "W", "X", "cached"}

\* Device addresses lead to the device that was mapped there, uncached and
\* never to be executed, and nowhere once it is released; a user's tables see the same.
DevicesExact ==
  op.kind = "none" /\ phase # "halted" =>
    \A r \in Roots, va \in KERNEL_DEVIO_BASE .. KERNEL_DEVIO_BASE + 3 :
      Translate(WalkRoot(r, va), va) =
        IF \E m \in maps : va \in m.from .. m.upto - 1
        THEN [pa |-> DevPa + va - (CHOOSE m \in maps : va \in m.from .. m.upto - 1).from,
              rights |-> {"R", "W"} \cup On(arch = "riscv64", {"cached"})]
        ELSE Unmapped

\* A ready space maps each user page to a frame of its own, and page 0 to
\* nothing.
SpaceExact ==
  \A s \in space : s.ready =>
    /\ {user_address(s.root, va) : va \in UserVa} = {FramePa(f) : f \in s.pages}
    /\ Cardinality(s.pages) = Cardinality(UserVa)
    /\ Translate(s.root, 0) = Unmapped

\* Every frame is free or used for exactly one thing, no table that is in
\* use is free, and no table is left empty.
FramesOwned ==
  LET tables  == TablesInUse \cap TableFrames
      records == UNION {m.record : m \in maps}
      pages   == UNION {s.pages : s \in space}
      held    == op.own \cup op.new
  IN /\ unused \cap (tables \cup records \cup pages \cup held) = {}
     /\ unused \cup tables \cup records \cup pages \cup held = TableFrames
     /\ Cardinality(tables) + Cardinality(records) + Cardinality(pages) + Cardinality(held)
        = Cardinality(TableFrames \ unused)
     /\ op.kind = "none" => \A t \in tables : ~EmptyTable(table_mem, t)

\* What the processor remembers is what the tables say, whenever no
\* operation is under way.
TlbFresh ==
  op.kind = "none" /\ phase # "halted" =>
    \A t \in tlb : t.page = Translate(WalkRoot(active, t.va), t.va)

\* Device mappings are made "outside the pre-mapped 1GB range"
\* (riscv64/include/asm/memlayout.h:23): the walk of MmioAllocator::map ends
\* at an empty entry, as its assertion says.
MapsOutside == AtLeaf("map") => ~pte(arch, Entry).present

\* The tables are sound: the kernel's memory never moves, device mappings are
\* exact under every root (a mapping that fails half way leaves no entry and
\* no table behind) and never on top of others, a user space has its own
\* pages, frames are accounted for, and the processor never uses a stale
\* translation once an operation is over.
PageTablesSound ==
  KernelStays /\ DevicesExact /\ SpaceExact /\ FramesOwned /\ TlbFresh /\ MapsOutside
=============================================================================
