----------------------------- MODULE FatVolume -----------------------------
(***************************************************************************)
(* FatInfo::mount (kernel/fs/fat/fat_core.cpp): where the volume starts on *)
(* the device, which boot sectors are accepted, and the layout that later  *)
(* sector arithmetic is built on.  Sector numbers are 32 bits wide: here   *)
(* they wrap at Span.                                                      *)
(***************************************************************************)
EXTENDS Naturals, FiniteSets

CONSTANTS
  Span,         \* 2^32, scaled
  PerSector,    \* links in a FAT sector (128)
  ReservedMin,  \* FAT32_RESERVED_MIN, scaled
  MaxCluster,   \* the largest sectors_per_cluster accepted (128)
  MaxReserved,  \* reserved sectors a boot sector may name
  MaxRoot,      \* clusters it may name as the root
  Blocks,       \* the sizes of the device
  Partitions    \* what a partition table may lead to: its kind, its first sector

ASSUME FatVolumeAssumption ==
  /\ {Span, PerSector} \subseteq Nat \ {0}
  /\ {MaxCluster, MaxReserved, MaxRoot} \subseteq Nat
  /\ Blocks \subseteq 0 .. Span - 1
  /\ Partitions \subseteq {"gpt", "fat32"} \X Nat

U32 == 0 .. Span - 1
None == [mounted |-> FALSE]

VARIABLES
  disk,    \* the device's size, its partition table and the boot sector
  vol      \* what do_init_state stored, or None

volumeVars == <<disk, vol>>

BootSectors ==
  [total : U32, reserved : 0 .. MaxReserved, fats : 0 .. 3, fatSize : U32,
   perCluster : 0 .. 2 * MaxCluster, root : 1 .. MaxRoot, usable : BOOLEAN]

\* Sector 0, with the first sector of the partition it leads to.
Tables == {<<"bad", 0>>, <<"gpt no esp", 0>>, <<"none", 0>>} \cup Partitions

Disks == [blocks : Blocks, table : Tables, bs : BootSectors]

\* find_partition_start: the EFI system partition of a GPT, the first partition
\* of an MBR when it is FAT32, or the whole device.
Fails == Span
find_partition_start(d) ==
  IF d.table[1] \in {"bad", "gpt no esp"} THEN Fails ELSE d.table[2]

IsPowerOf2(n) == n \in {1, 2, 4, 8, 16, 32, 64, 128}

\* Mutant of Accepted: the FAT need only hold the clusters, not entries 0 and 1.
AcceptedShortFat(d, start) ==
  LET bs == d.bs
      dataStart == bs.reserved + bs.fats * bs.fatSize
      clusters == (bs.total - dataStart) \div bs.perCluster IN
  /\ bs.usable
  /\ bs.perCluster # 0 /\ bs.perCluster <= MaxCluster /\ IsPowerOf2(bs.perCluster)
  /\ bs.reserved # 0 /\ bs.fats # 0 /\ bs.fats <= 2 /\ bs.fatSize # 0
  /\ dataStart < bs.total
  /\ start + bs.total <= d.blocks
  /\ clusters # 0 /\ clusters + 2 <= ReservedMin
  /\ clusters <= bs.fatSize * PerSector
  /\ bs.root >= 2 /\ bs.root < clusters + 2

\* The checks of mount, in its order and without wrapping (they use 64 bits).
\* "usable" stands for the signature, sector size, version and flags.
Accepted(d, start) ==
  LET bs == d.bs
      dataStart == bs.reserved + bs.fats * bs.fatSize
      clusters == (bs.total - dataStart) \div bs.perCluster IN
  /\ bs.usable
  /\ bs.perCluster # 0 /\ bs.perCluster <= MaxCluster /\ IsPowerOf2(bs.perCluster)
  /\ bs.reserved # 0 /\ bs.fats # 0 /\ bs.fats <= 2 /\ bs.fatSize # 0
  /\ dataStart < bs.total
  /\ start + bs.total <= d.blocks
  /\ clusters # 0 /\ clusters + 2 <= ReservedMin
  /\ clusters + 2 <= bs.fatSize * PerSector
  /\ bs.root >= 2 /\ bs.root < clusters + 2

\* do_init_state, in 32 bits.
do_init_state(bs, start) ==
  LET dataStart == (bs.reserved + bs.fats * bs.fatSize) % Span IN
  [start |-> start, perCluster |-> bs.perCluster, fats |-> bs.fats,
   fatSize |-> bs.fatSize, fatStart |-> bs.reserved, dataStart |-> dataStart,
   root |-> bs.root,
   count |-> ((bs.total + Span - dataStart) % Span) \div bs.perCluster]

VolumeInit == disk \in Disks /\ vol = None

Mount ==
  LET start == find_partition_start(disk) IN
  /\ vol = None
  /\ start # Fails
  /\ Accepted(disk, start)
  /\ vol' = do_init_state(disk.bs, start)
  /\ UNCHANGED disk

Unmount ==
  /\ vol # None
  /\ vol' = None
  /\ UNCHANGED disk

VolumeNext == Mount \/ Unmount

VolumeSpec == VolumeInit /\ [][VolumeNext]_volumeVars

\* read_entry, write_entry: the device sector of copy i of c's link.
FatSector(c, i) == (vol.start + vol.fatStart + (c \div PerSector) + i * vol.fatSize) % Span

\* cluster_to_sector: the device sector s of a data cluster.
cluster_to_sector(c, s) == (vol.start + vol.dataStart + (c - 2) * vol.perCluster + s) % Span

DataClusters == 2 .. vol.count + 1
FatCopies == 0 .. vol.fats - 1
LinkSectors(i) == {FatSector(c, i) : c \in DataClusters}
DataSectors == {cluster_to_sector(c, s) : c \in DataClusters, s \in 0 .. vol.perCluster - 1}

\* On a mounted volume every sector number the driver computes is on the device
\* and in the volume, and no two of them meet by accident: the data sectors of
\* different clusters are different, none is a sector of a FAT copy, a sector of
\* one copy is none of the other, and none is the boot sector (mount's checks
\* against read_entry, write_entry and cluster_to_sector).
VolumeFits ==
  vol # None =>
    /\ vol.root \in DataClusters
    /\ Cardinality(DataSectors) = vol.count * vol.perCluster
    /\ \A i \in FatCopies : LinkSectors(i) \cap DataSectors = {}
    /\ \A i, j \in FatCopies : i # j => LinkSectors(i) \cap LinkSectors(j) = {}
    /\ DataSectors \cup UNION {LinkSectors(i) : i \in FatCopies}
         \subseteq (vol.start + 1) .. (vol.start + disk.bs.total - 1)
    /\ vol.start + disk.bs.total <= disk.blocks
=============================================================================
