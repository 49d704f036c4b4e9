-------------------------------- MODULE Boot --------------------------------
(***************************************************************************)
(* From the firmware to the page allocator: the UEFI loader (boot/         *)
(* uefi_boot.cpp), the BIOS loader (arch/x86/boot/bios/bootload.cpp), and  *)
(* what pmm::init makes of the memory map they leave (kernel/mm/pmm.cpp).  *)
(*                                                                         *)
(* UEFI firmware works on while its boot services are used: it takes and   *)
(* returns memory at any moment, some of it for good, and each change      *)
(* makes the key of the memory map stale.  Allocations and the reading of  *)
(* the file may fail, and the file need not be an ELF file.                *)
(*                                                                         *)
(* Addresses count half pages: BIOS ranges begin and end anywhere.         *)
(***************************************************************************)
EXTENDS Naturals, Sequences, FiniteSetsExt, SequencesExt

CONSTANTS
  Loaders,    \* of "uefi" (kernel_alloc_pa set), "uefi_x86" and "bios"
  NumPages,   \* of the machine
  BiosMaps,   \* memory maps a BIOS may report
  Capacity,   \* memory_map_capacity
  MaxEvents   \* changes of memory by the firmware

BOOT_PG_SIZE == 2
Pages == 0 .. NumPages - 1
InfoPage == 0                        \* BootInfo and the converted map
KernelPages == 1 .. 2                \* where the kernel is linked
ArrayPage == 3                       \* the memory behind KERNEL_END
KERNEL_BASE == 100
DescriptorsPerUnit == 4              \* half a page holds this many Page

(* The kernel file: what its bytes are, and its LOAD segments.  Their      *)
(* physical addresses may be the virtual ones, except for the BIOS loader. *)
KernelFile == <<"header", "text", "data", "tail">>
SegmentsFor(l) ==
  << [pa |-> 2, va |-> KERNEL_BASE + 2, offset |-> 1, filesz |-> 1, memsz |-> 1],
     [pa |-> IF l = "bios" THEN 3 ELSE KERNEL_BASE + 3, va |-> KERNEL_BASE + 3,
      offset |-> 2, filesz |-> 1, memsz |-> 2] >>
KERNEL_END == 5

(* The BIOS loader reads the FAT to 0x8C00 and the file, a cluster of two  *)
(* units at a time, to 0x10000: over the links of the clusters from        *)
(* FatRoom on.  The file is in the clusters of one of Placements, in order.*)
FatRoom == 6
ClusterUnits == 2
EndOfChain == 99
Placements == {<<5, 2>>, <<2, 5>>, <<7, 5>>, <<9, 5>>, <<5, 9>>}
MaxRead == 6                         \* units after which a file that is misread ends

VARIABLES
  loader,
  image,     \* the file of the kernel's name, an ELF file or not
  placed,    \* its clusters on a BIOS disk
  typ,       \* the firmware's memory: page |-> type
  key,       \* of its memory map
  services,  \* "on", "stopping" (an exit was refused) or "exited"
  events,
  bootPc, tries,
  size,      \* descriptors of the map the loader asks for
  map_key,   \* the key it got with the map
  room,      \* descriptors it really has room for
  buffer,    \* page of that buffer, NumPages when there is none
  file,      \* what was read of the kernel file
  cluster,
  mem,       \* the half pages of the kernel, as loaded
  info,      \* BootInfo: mmap, kernel_start_pa, kernel_end_pa
  free,      \* pages the allocator was given, one entry for each time
  seen,      \* typ when the map was recorded
  fault, overrun

bootDisk == <<image, placed>>
firmware == <<typ, key, services, events>>
bootVars == <<loader, bootDisk, typ, key, services, events, bootPc, tries, size, map_key, room, buffer, file, cluster,
          mem, info, free, seen, fault, overrun>>

Usable == {"conv", "bs"}

BootInit ==
  /\ loader \in Loaders
  /\ image \in {KernelFile, <<"other">> \o Tail(KernelFile)}
  /\ placed \in IF loader = "bios" THEN Placements ELSE {<<5, 2>>}
  /\ typ \in [Pages -> {"conv", "bs", "rt", "none"}]
  /\ typ[InfoPage] = "conv" /\ \A p \in KernelPages : typ[p] = "conv"
  /\ loader = "bios" => typ = [p \in Pages |-> "conv"]
  /\ key = 0 /\ services = "on" /\ events = 0
  /\ bootPc = IF loader = "bios" THEN "find" ELSE "query_map"
  /\ tries = 0 /\ size = 0 /\ map_key = 0 /\ room = 0 /\ buffer = NumPages
  /\ file = <<>> /\ cluster = 0
  /\ mem = [a \in 2 .. 5 |-> "stale"]
  /\ info \in [mmap : IF loader = "bios" THEN BiosMaps ELSE {<<>>}, start : {0}, end : {0}]
  /\ free = <<>> /\ seen = typ /\ fault = FALSE /\ overrun = FALSE

(***************************************************************************)
(* The firmware                                                            *)
(***************************************************************************)

(* Memory is handed out from the top.  Nothing reserves the page of        *)
(* BootInfo, nor, on x86, the kernel's: the firmware is taken to have      *)
(* memory above them.                                                      *)
Free == {p \in Pages : typ[p] = "conv" /\ p > IF loader = "uefi_x86" THEN Max(KernelPages) ELSE InfoPage}
SetType(p, t) == typ' = [typ EXCEPT ![p] = t] /\ key' = key + 1

\* It takes the highest free page, until the exit or for good, or gives one of
\* its pages back.
FirmwareWorks ==
  /\ services = "on" /\ loader # "bios" /\ events < MaxEvents /\ events' = events + 1
  /\ \/ Free # {} /\ SetType(Max(Free), "bs")
     \/ Free # {} /\ SetType(Max(Free), "rt")
     \/ \E p \in Pages : typ[p] = "bs" /\ SetType(p, "conv")
  /\ UNCHANGED <<loader, bootDisk, services, bootPc, tries, size, map_key, room, buffer, file, cluster, mem, info,
                 free, seen, fault, overrun>>

\* GetMemoryMap: one descriptor for each run of pages of one type.
Starts == {p \in Pages : p = 0 \/ typ[p - 1] # typ[p]}
RunFrom(p) == Min({q \in Starts \cup {NumPages} : q > p}) - p
GetMemoryMap ==
  LET starts == {p \in Starts : typ[p] # "none"}
  IN [i \in 1 .. Cardinality(starts) |->
        LET p == CHOOSE p \in starts : Cardinality({q \in starts : q <= p}) = i
        IN [first |-> p, pages |-> RunFrom(p), type |-> typ[p]]]

Fails(stage) == bootPc = stage /\ bootPc' = "error" /\ fault' = TRUE

(***************************************************************************)
(* uefi_get_memory_map                                                     *)
(***************************************************************************)

\* The size of the map, with room for two more descriptors.
query_map ==
  /\ bootPc = "query_map" /\ size' = Len(GetMemoryMap) + 2 /\ bootPc' = "pool_map"
  /\ UNCHANGED <<loader, bootDisk, firmware, tries, map_key, room, buffer, file, cluster, mem, info, free, seen,
                 fault, overrun>>

\* AllocatePool(EfiLoaderData).
AllocatePool(next) ==
  /\ Free # {} /\ SetType(Max(Free), "loader") /\ buffer' = Max(Free) /\ bootPc' = next

pool_map ==
  /\ \/ bootPc = "pool_map" /\ AllocatePool("get_map") /\ UNCHANGED fault
     \/ Fails("pool_map") /\ UNCHANGED <<typ, key, buffer>>
  /\ UNCHANGED <<loader, bootDisk, services, events, tries, size, map_key, room, file, cluster, mem, info, free,
                 seen, overrun>>

EntryType(t) == IF t \in Usable THEN "available" ELSE "reserved"
MapEntry(d) == [base |-> d.first * BOOT_PG_SIZE, size |-> d.pages * BOOT_PG_SIZE, type |-> EntryType(d.type)]

\* Mutant of Merge: entries that touch are merged whatever they are.
MergeAny(entries, e) ==
  IF entries # <<>> /\ Last(entries).base + Last(entries).size = e.base
  THEN [entries EXCEPT ![Len(entries)].size = @ + e.size] ELSE Append(entries, e)
Merge(entries, e) ==
  IF entries # <<>> /\ Last(entries).type = e.type /\ Last(entries).base + Last(entries).size = e.base
  THEN [entries EXCEPT ![Len(entries)].size = @ + e.size] ELSE Append(entries, e)

\* The map is converted, as far as there is room for it, and merged; the
\* buffer is freed.  A map that has outgrown the buffer ends the boot.
get_map ==
  /\ bootPc = "get_map"
  /\ LET map  == GetMemoryMap
         kept == [i \in 1 .. Min({Len(map), Capacity}) |-> MapEntry(map[i])]
     IN IF Len(map) > size
        THEN bootPc' = "error" /\ fault' = (events > 0) /\ UNCHANGED <<info, seen>>
        ELSE /\ info' = [info EXCEPT !.mmap = FoldLeft(Merge, <<>>, kept)]
             /\ seen' = [p \in Pages |-> IF \E i \in DOMAIN kept :
                           p * BOOT_PG_SIZE >= kept[i].base /\ p * BOOT_PG_SIZE < kept[i].base + kept[i].size
                         THEN typ[p] ELSE "none"]
             /\ bootPc' = "load" /\ UNCHANGED fault
  /\ SetType(buffer, "conv") /\ buffer' = NumPages
  /\ UNCHANGED <<loader, bootDisk, services, events, tries, size, map_key, room, file, cluster, mem, free, overrun>>

(***************************************************************************)
(* The kernel is read and put in its place                                 *)
(***************************************************************************)

\* uefi_load_kernel_file: any of its calls may fail.
uefi_load_kernel_file ==
  /\ \/ bootPc = "load" /\ AllocatePool("place") /\ file' = image /\ UNCHANGED fault
     \/ Fails("load") /\ UNCHANGED <<typ, key, buffer, file>>
  /\ UNCHANGED <<loader, bootDisk, services, events, tries, size, map_key, room, cluster, mem, info, free, seen, overrun>>

\* AllocatePages(AllocateAddress), where the loader is configured to.
AllocatePages ==
  /\ \/ bootPc = "place" /\ loader = "uefi_x86" /\ bootPc' = "elf" /\ UNCHANGED <<typ, key, fault>>
     \/ /\ bootPc = "place" /\ loader = "uefi" /\ \A p \in KernelPages : typ[p] = "conv"
        /\ typ' = [p \in Pages |-> IF p \in KernelPages THEN "loader" ELSE typ[p]]
        /\ key' = key + 1 /\ bootPc' = "elf" /\ UNCHANGED fault
     \/ Fails("place") /\ loader = "uefi" /\ UNCHANGED <<typ, key>>
  /\ UNCHANGED <<loader, bootDisk, services, events, tries, size, map_key, room, buffer, file, cluster, mem, info,
                 free, seen, overrun>>

(* fat_load_file: the file is looked up in the first cluster of the root   *)
(* directory and read cluster by cluster, on a disk that does not fail.    *)
fat_find_file ==
  /\ \/ bootPc = "find" /\ cluster' = Head(placed) /\ bootPc' = "cluster" /\ UNCHANGED fault
     \/ Fails("find") /\ UNCHANGED cluster
  /\ UNCHANGED <<loader, bootDisk, firmware, tries, size, map_key, room, buffer, file, mem, info, free, seen, overrun>>

ClusterData(c) ==
  IF \E i \in DOMAIN placed : placed[i] = c
  THEN LET i == CHOOSE i \in DOMAIN placed : placed[i] = c
       IN SubSeq(image, (i - 1) * ClusterUnits + 1, i * ClusterUnits)
  ELSE <<"other", "file">>
FatEntry(c) == IF c = placed[1] THEN placed[2] ELSE EndOfChain

\* A link that the file has been read over is any number.
fat_load_file ==
  /\ bootPc = "cluster"
  /\ IF cluster < EndOfChain
     THEN LET read == file \o ClusterData(cluster)
          IN /\ file' = read
             /\ cluster' \in IF cluster < FatRoom \/ cluster - FatRoom >= Len(read) THEN {FatEntry(cluster)}
                            ELSE IF Len(read) >= MaxRead THEN {EndOfChain} ELSE {2, 5, 7, 9, EndOfChain}
             /\ UNCHANGED bootPc
     ELSE bootPc' = "elf" /\ UNCHANGED <<file, cluster>>
  /\ UNCHANGED <<loader, bootDisk, firmware, tries, size, map_key, room, buffer, mem, info, free, seen, fault, overrun>>

\* Behind the file's end is what was there before.
FileUnit(i) == IF i \in DOMAIN file THEN file[i] ELSE "stale"

segment_pa(s) == IF loader # "bios" /\ s.pa >= KERNEL_BASE THEN s.va - KERNEL_BASE ELSE s.pa
KernelSegments == SegmentsFor(loader)

\* Mutant of load_elf: the memory behind a segment's file bytes is not cleared.
load_elf_stale(m, s) ==
  [a \in DOMAIN m |-> LET i == a - segment_pa(s)
                      IN IF a >= segment_pa(s) /\ i < s.filesz THEN FileUnit(s.offset + i + 1) ELSE m[a]]
\* One LOAD segment: its file bytes are copied and the rest is cleared.
load_elf(m, s) ==
  [a \in DOMAIN m |-> LET i == a - segment_pa(s)
                      IN IF a < segment_pa(s) \/ i >= s.memsz THEN m[a]
                         ELSE IF i < s.filesz THEN FileUnit(s.offset + i + 1) ELSE "zero"]

\* The segments of a file with the magic of an ELF file, and of no other.
uefi_load_elf ==
  /\ \/ /\ bootPc = "elf" /\ FileUnit(1) = "header"
        /\ mem' = FoldLeft(load_elf, mem, KernelSegments)
        /\ info' = [info EXCEPT !.start = Min({segment_pa(s) : s \in Range(KernelSegments)}),
                                !.end = Max({segment_pa(s) + s.memsz : s \in Range(KernelSegments)})]
        /\ bootPc' = IF loader = "bios" THEN "kernel" ELSE "query_exit"
        /\ tries' = 1 /\ UNCHANGED fault
     \/ Fails("elf") /\ FileUnit(1) # "header" /\ UNCHANGED <<mem, info, tries>>
  /\ UNCHANGED <<loader, bootDisk, firmware, size, map_key, room, buffer, file, cluster, free, seen, overrun>>

(***************************************************************************)
(* uefi_exit_boot_services                                                 *)
(***************************************************************************)

query_exit ==
  /\ bootPc = "query_exit" /\ size' = Len(GetMemoryMap) + 2 /\ bootPc' = "pool_exit"
  /\ UNCHANGED <<loader, bootDisk, firmware, tries, map_key, room, buffer, file, cluster, mem, info, free, seen,
                 fault, overrun>>

\* Without memory the first try ends in GetMemoryMap, which wants a buffer; the
\* second goes on with the buffer of the first.
pool_exit ==
  /\ \/ bootPc = "pool_exit" /\ AllocatePool("get_exit") /\ room' = size /\ UNCHANGED fault
     \/ /\ bootPc = "pool_exit" /\ fault' = TRUE /\ bootPc' = IF tries = 1 THEN "error" ELSE "get_exit"
        /\ UNCHANGED <<typ, key, buffer, room>>
  /\ UNCHANGED <<loader, bootDisk, services, events, tries, size, map_key, file, cluster, mem, info, free,
                 seen, overrun>>

\* The second try does not look at the outcome of GetMemoryMap.
get_exit ==
  /\ bootPc = "get_exit"
  /\ LET count == Len(GetMemoryMap)
     IN \/ /\ count <= size /\ map_key' = key /\ overrun' = (overrun \/ count > room)
           /\ bootPc' = "exit" /\ UNCHANGED fault
        \/ /\ count > size /\ bootPc' = (IF tries = 1 THEN "error" ELSE "exit") /\ fault' = (fault \/ events > 0)
           /\ UNCHANGED <<map_key, overrun>>
  /\ UNCHANGED <<loader, bootDisk, firmware, tries, size, room, buffer, file, cluster, mem, info, free, seen>>

\* Mutant of ExitBootServices: a refused exit is not tried again.
ExitBootServicesOnce ==
  /\ bootPc = "exit"
  /\ \/ map_key = key /\ services' = "exited" /\ bootPc' = "kernel" /\ UNCHANGED tries
     \/ map_key # key /\ bootPc' = "error" /\ UNCHANGED <<tries, services>>
  /\ UNCHANGED <<loader, bootDisk, typ, key, events, size, map_key, room, buffer, file, cluster, mem, info,
                 free, seen, fault, overrun>>

\* The firmware refuses a stale key, and has then stopped working by itself.
ExitBootServices ==
  /\ bootPc = "exit"
  /\ \/ map_key = key /\ services' = "exited" /\ bootPc' = "kernel" /\ UNCHANGED tries
     \/ /\ map_key # key /\ services' = "stopping" /\ tries' = tries + 1
        /\ bootPc' = IF tries = 1 THEN "query_exit" ELSE "error"
  /\ UNCHANGED <<loader, bootDisk, typ, key, events, size, map_key, room, buffer, file, cluster, mem, info,
                 free, seen, fault, overrun>>

(***************************************************************************)
(* pmm::init                                                               *)
(***************************************************************************)

RoundDown(a) == (a \div BOOT_PG_SIZE) * BOOT_PG_SIZE
RoundUp(a) == RoundDown(a + BOOT_PG_SIZE - 1)
PagesIn(begin, limit) == [i \in 1 .. (limit - begin) \div BOOT_PG_SIZE |-> (begin \div BOOT_PG_SIZE) + i - 1]
MaxOf(a, b) == IF a < b THEN b ELSE a

\* Mutant of normalize_available_range: the first page may begin before the
\* range does.
normalize_available_range_low(e, min_pa) ==
  LET begin == RoundDown(MaxOf(e.base, min_pa))
      limit == RoundDown(e.base + e.size)
  IN IF e.size = 0 \/ begin >= limit THEN <<>> ELSE PagesIn(begin, limit)
\* The whole pages of an entry at or above min_pa.
normalize_available_range(e, min_pa) ==
  LET begin == RoundUp(MaxOf(e.base, min_pa))
      limit == RoundDown(e.base + e.size)
  IN IF e.size = 0 \/ begin >= limit THEN <<>> ELSE PagesIn(begin, limit)

Available == SelectSeq(info.mmap, LAMBDA e : e.type = "available")

\* Descriptors for every page up to the highest available one lie behind the
\* kernel; the pages behind them go to the allocator, entry by entry.
page_init ==
  /\ bootPc = "kernel"
  /\ LET max_pa     == Max({0} \cup {e.base + e.size : e \in Range(Available)})
         page_count == RoundUp(max_pa) \div BOOT_PG_SIZE
         valid_mem  == RoundUp(KERNEL_END)
                         + ((page_count + DescriptorsPerUnit - 1) \div DescriptorsPerUnit)
         given      == FoldLeft(LAMBDA s, e : s \o normalize_available_range(e, valid_mem),
                                <<>>, Available)
     IN IF max_pa = 0 \/ given = <<>>
        THEN bootPc' = "error" /\ fault' = TRUE /\ UNCHANGED free
        ELSE bootPc' = "run" /\ free' = given /\ UNCHANGED fault
  /\ UNCHANGED <<loader, bootDisk, firmware, tries, size, map_key, room, buffer, file, cluster, mem, info, seen,
                 overrun>>

Done == bootPc \in {"run", "error"} /\ UNCHANGED bootVars

\* uefi_boot_setup, or the second stage of bootload.cpp, in the order bootPc
\* gives, up to the kernel's page_init().
BootNext ==
  \/ FirmwareWorks \/ query_map \/ pool_map \/ get_map
  \/ uefi_load_kernel_file \/ AllocatePages \/ fat_find_file \/ fat_load_file \/ uefi_load_elf
  \/ query_exit \/ pool_exit \/ get_exit \/ ExitBootServices \/ page_init \/ Done

BootSpec == BootInit /\ [][BootNext]_bootVars

(***************************************************************************)
(* Properties                                                              *)
(***************************************************************************)

\* The BIOS loader follows no link that the file was read over before.
LinksKept == \A i \in DOMAIN placed : placed[i] < FatRoom \/ placed[i] - FatRoom >= i * ClusterUnits

\* Pages that the map the loader recorded has as available.
Recorded(p) == IF loader = "bios"
               THEN \E e \in Range(info.mmap) : /\ e.type = "available" /\ e.base <= p * BOOT_PG_SIZE
                                                /\ (p + 1) * BOOT_PG_SIZE <= e.base + e.size
               ELSE seen[p] \in Usable

\* A kernel that runs was an ELF file and has its image in place, every byte
\* of it, with the memory behind each segment cleared, provided that reading it
\* did not overwrite the links still to be followed; the firmware is gone; and
\* the page allocator was given whole pages, each once, and exactly those that
\* the recorded map has as usable behind the kernel and the page descriptors.
\* A boot fails only when a service did, when the file is not ELF, when there
\* is no memory, or when the map outgrew its buffer: never because the firmware
\* was at work, which takes the second try.  The map is never written past its
\* buffer, unless there was no memory for the second try's buffer.  The map is
\* recorded before the file is read: a page the firmware has taken for good
\* since is given to the allocator all the same.  (uefi_boot_setup, bootmain,
\* page_init.)
BootExact ==
  /\ bootPc = "run" =>
       /\ loader # "bios" => services = "exited"
       /\ image = KernelFile
       /\ (loader = "bios" => LinksKept) =>
            \A s \in Range(KernelSegments), i \in 0 .. 1 : i < s.memsz =>
              mem[s.va - KERNEL_BASE + i] = IF i < s.filesz THEN KernelFile[s.offset + i + 1] ELSE "zero"
       /\ mem[5] = "stale" /\ info.start = 2 /\ info.end = KERNEL_END
       /\ \A i, j \in DOMAIN free : free[i] = free[j] => i = j
       /\ Range(free) = {p \in ArrayPage + 1 .. NumPages - 1 : Recorded(p)}
  /\ bootPc = "error" => fault
  /\ overrun => fault
=============================================================================
