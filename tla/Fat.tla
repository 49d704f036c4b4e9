-------------------------------- MODULE Fat --------------------------------
(***************************************************************************)
(* The FAT32 driver (kernel/fs/fat/fat_core.cpp, fat_dir.cpp) as it        *)
(* changes a volume: mkdir, create_file, unlink and rmdir, the allocator   *)
(* and the one-sector FAT cache below them.  Every write of a sector is a  *)
(* step of its own, because the device may fail it (with or without the    *)
(* sector having reached the medium) and the power may go before the next  *)
(* one.  Reads are part of the step that uses them, and may fail too.      *)
(*                                                                         *)
(* One task at a time is in the file system: the code has no lock here and *)
(* docs/ERROR_HANDLING.md claims none.  A cluster is one sector long.      *)
(***************************************************************************)
EXTENDS Naturals, Sequences, SequencesExt, FiniteSets

CONSTANTS
  ClusterCount,       \* cluster_count_
  LinksPerSector,   \* links in a sector of the FAT
  Slots,       \* entries in a directory sector (Sector::COUNT)
  Copies,      \* fat_count_
  Names,       \* names of files and directories
  Old,         \* the name of the file the volume holds at first
  Parents,     \* directories operated in: "/" and names
  MaxOps,      \* operations begun in a behaviour
  MaxFaults    \* failing device calls and power losses in a behaviour

FatClusters == 2 .. ClusterCount + 1
Free == 0
EndOfChain == ClusterCount + 2
Root == 2
CopyIds == 0 .. Copies - 1
SectorOf(c) == c \div LinksPerSector
InSector(s) == {c \in FatClusters : SectorOf(c) = s}
NoSector == ClusterCount

Slot == [kind : {"end", "deleted", "dot", "file", "dir"}, name : Names \cup {Old, "."},
         cluster : FatClusters \cup {0}]
EndSlot == [kind |-> "end", name |-> ".", cluster |-> 0]
Deleted == [EndSlot EXCEPT !.kind = "deleted"]
Dot(c) == [kind |-> "dot", name |-> ".", cluster |-> c]
Blank == [j \in 1 .. Slots |-> EndSlot]

VARIABLES
  fats,       \* the FAT copies on the medium: [CopyIds -> [Clusters -> link]]
  dirs,      \* the data clusters, read as directory sectors
  buf,       \* buffer_, buffer_sector_, buffer_dirty_
  op,        \* the running operation: where it is and what it remembers
  leaving,   \* history: the entries <<cluster, slot>> whose chain unlink or rmdir
             \* began to free, and that are still there
  strayed,   \* history: such an entry was used after it had lost its clusters
  promised,  \* history: the names <<directory, name>> successfully created
  faults, ops

fatVars == <<fats, dirs, buf, op, leaving, strayed, promised, faults, ops>>

NoBuf == [sector |-> NoSector, data |-> <<>>, dirty |-> FALSE]
Idle == [pc |-> "idle"]

FatInit ==
  /\ fats = [k \in CopyIds |-> [c \in FatClusters |->
              IF c \in {Root, 5} THEN EndOfChain ELSE IF c = 3 THEN 5 ELSE Free]]
  /\ dirs = [[c \in FatClusters |-> Blank] EXCEPT ![Root][1] =
               [kind |-> "file", name |-> Old, cluster |-> 3]]
  /\ buf = NoBuf /\ op = Idle /\ leaving = {} /\ strayed = FALSE
  /\ promised = {<<Root, Old>>} /\ faults = 0 /\ ops = 0

Fault == faults < MaxFaults /\ faults' = faults + 1
Goto(pc) == [op EXCEPT !.pc = pc]
Finish(result) ==
  /\ op' = Idle
  /\ promised' = IF result = "ok" /\ op.kind \in {"mkdir", "create"}
                 THEN promised \cup {<<op.dir, op.name>>} ELSE promised

(***************************************************************************)
(* Reading                                                                 *)
(***************************************************************************)

\* read_entry: a miss overwrites buffer_ without writing it back and leaves
\* buffer_dirty_ as it is; the first copy is the one that is read.
Load(b, c) ==
  IF b.sector = SectorOf(c) THEN b
  ELSE [sector |-> SectorOf(c), data |-> [x \in InSector(SectorOf(c)) |-> fats[0][x]],
        dirty |-> b.dirty]

\* The clusters a ClusterChain returns from path on, up to the first one in
\* stops; "ok" is FALSE for a bad link or a cycle (module ClusterChain).
RECURSIVE Walk(_, _, _)
Walk(b, path, stops) ==
  LET c == Last(path)
      after == Load(b, c)
      link == after.data[c] IN
  IF c \in stops \/ link = EndOfChain
  THEN [buf |-> IF c \in stops THEN b ELSE after, path |-> path, ok |-> TRUE]
  ELSE IF link \notin FatClusters \/ link \in ToSet(path)
  THEN [buf |-> after, path |-> path, ok |-> FALSE]
  ELSE Walk(after, Append(path, link), stops)

\* The slot of a directory sector that holds a name: no slot after the end mark.
Visible(c) == {j \in 1 .. Slots : \A i \in 1 .. j : dirs[c][i].kind # "end"}
Holds(c, name) ==
  {j \in Visible(c) : dirs[c][j].kind \in {"file", "dir"} /\ dirs[c][j].name = name}
HasEnd(c) == Visible(c) # 1 .. Slots

\* find_entry: the walk stops at the cluster with the name or with an end mark.
FoundAt(w, c, name) ==
  LET found == w.ok /\ Holds(c, name) # {} IN
  [buf |-> w.buf, ok |-> w.ok, found |-> found, cluster |-> c,
   slot |-> IF found THEN CHOOSE j \in Holds(c, name) : TRUE ELSE 0]
FoundBy(w, name) == FoundAt(w, Last(w.path), name)
Find(b, dir, name) ==
  FoundBy(Walk(b, <<dir>>, {c \in FatClusters : HasEnd(c) \/ Holds(c, name) # {}}), name)

\* The scan of alloc_cluster: the first cluster whose link reads free, or Eoc.
RECURSIVE Scan(_, _)
Scan(b, c) ==
  LET after == Load(b, c) IN
  IF after.data[c] = Free THEN [buf |-> after, cluster |-> c]
  ELSE IF c = ClusterCount + 1 THEN [buf |-> after, cluster |-> EndOfChain]
  ELSE Scan(after, c + 1)

(***************************************************************************)
(* Writing one sector                                                      *)
(***************************************************************************)

\* dev_->write of a directory sector, in the middle of an operation.
WriteDir(c, sector, then, otherwise) ==
  LET written == [dirs EXCEPT ![c] = sector] IN
  \/ dirs' = written /\ then /\ UNCHANGED faults
  \/ dirs' \in {dirs, written} /\ otherwise /\ Fault

\* dev_->write of buffer_ to copy k of its sector.
WriteFat(k, then, otherwise) ==
  LET written == [fats EXCEPT ![k] = [c \in FatClusters |->
                    IF c \in DOMAIN buf.data THEN buf.data[c] ELSE @[c]]] IN
  \/ fats' = written /\ then /\ UNCHANGED faults
  \/ fats' \in {fats, written} /\ otherwise /\ Fault

(***************************************************************************)
(* write_entry(c, v), called as op.w with the places to go on from         *)
(***************************************************************************)

Calling(c, v, ok, bad) ==
  [op EXCEPT !.pc = "entry", !.w = [c |-> c, v |-> v, k |-> 0], !.ok = ok, !.bad = bad]

MustFlush == buf.sector # SectorOf(op.w.c) /\ buf.dirty /\ buf.sector # NoSector

NextCopy == [op EXCEPT !.w.k = @ + 1]

\* The dirty sector goes to every copy before another one is loaded.
Flush ==
  /\ op.pc = "entry" /\ MustFlush
  /\ WriteFat(op.w.k,
       IF op.w.k + 1 < Copies
       THEN op' = NextCopy /\ UNCHANGED buf
       ELSE op' = [op EXCEPT !.w.k = 0] /\ buf' = [buf EXCEPT !.dirty = FALSE],
       op' = Goto(op.bad) /\ UNCHANGED buf)
  /\ UNCHANGED <<dirs, leaving, strayed, promised>>

\* The link changes in the cache first.
Modify ==
  /\ op.pc = "entry" /\ ~MustFlush
  /\ \/ /\ buf' = [Load(buf, op.w.c) EXCEPT !.data[op.w.c] = op.w.v, !.dirty = TRUE]
        /\ op' = Goto("copy")
        /\ UNCHANGED faults
     \/ /\ buf.sector # SectorOf(op.w.c)
        /\ op' = Goto(op.bad) /\ Fault /\ UNCHANGED buf
  /\ UNCHANGED <<fats, dirs, leaving, strayed, promised>>

\* ... and is written through to every copy.
Copy ==
  /\ op.pc = "copy"
  /\ WriteFat(op.w.k,
       IF op.w.k + 1 < Copies
       THEN op' = NextCopy /\ UNCHANGED buf
       ELSE op' = Goto(op.ok) /\ buf' = [buf EXCEPT !.dirty = FALSE],
       op' = Goto(op.bad) /\ UNCHANGED buf)
  /\ UNCHANGED <<dirs, leaving, strayed, promised>>

(***************************************************************************)
(* mkdir and create_file                                                   *)
(***************************************************************************)

Operation(kind, dir, name, pc) ==
  [pc |-> pc, kind |-> kind, dir |-> dir, name |-> name, new |-> 0, ext |-> 0,
   which |-> "new", tail |-> 0, chain |-> <<>>,
   w |-> [c |-> 0, v |-> 0, k |-> 0], ok |-> "idle", bad |-> "idle"]

\* resolve_parent for a path of one or two parts.
DirectoryIn(f) ==
  [buf |-> f.buf, entry |-> <<f.cluster, f.slot>>,
   cluster |-> IF f.found /\ dirs[f.cluster][f.slot].kind = "dir"
               THEN dirs[f.cluster][f.slot].cluster ELSE 0]
Resolve(at) ==
  IF at = "/" THEN [buf |-> buf, entry |-> <<Root, 0>>, cluster |-> Root]
  ELSE DirectoryIn(Find(buf, Root, at))

BeginAdd(kind, at, name) ==
  LET parent == Resolve(at)
      f == Find(parent.buf, parent.cluster, name) IN
  /\ op.pc = "idle"
  /\ ops < MaxOps /\ ops' = ops + 1
  /\ parent.cluster # 0
  /\ buf' = f.buf
  /\ strayed' = (strayed \/ parent.entry \in leaving)
  /\ IF f.found \/ ~f.ok
     THEN Finish("error")
     ELSE /\ op' = Operation(kind, parent.cluster, name,
                             IF kind = "mkdir" THEN "alloc" ELSE "insert")
          /\ UNCHANGED promised
  /\ UNCHANGED <<fats, dirs, leaving, faults>>

\* What follows when add_dir_entry or alloc_cluster failed and left nothing
\* that may refer to the clusters allocated so far.
Unwind ==
  IF op.which = "ext" /\ op.kind = "mkdir"
  THEN op' = [op EXCEPT !.which = "new", !.pc = "undo"] /\ UNCHANGED promised
  ELSE Finish("error")

\* alloc_cluster: mark the first free cluster as the end of a chain ...
Alloc ==
  LET s == Scan(buf, 2) IN
  /\ op.pc = "alloc"
  /\ \/ /\ buf' = s.buf /\ UNCHANGED faults
        /\ IF s.cluster = EndOfChain THEN Unwind
           ELSE /\ op' = [Calling(s.cluster, EndOfChain, "zero", "undo")
                            EXCEPT ![op.which] = s.cluster]
                /\ UNCHANGED promised
     \/ Fault /\ Unwind /\ UNCHANGED buf
  /\ UNCHANGED <<fats, dirs, leaving, strayed>>

\* ... and clear it.
Zero ==
  /\ op.pc = "zero"
  /\ WriteDir(op[op.which], Blank,
       op' = Goto(IF op.which = "new" THEN "dots" ELSE "extend"), op' = Goto("undo"))
  /\ UNCHANGED <<fats, buf, leaving, strayed, promised>>

Dots ==
  /\ op.pc = "dots"
  /\ WriteDir(op.new,
       [Blank EXCEPT ![1] = Dot(op.new), ![2] = Dot(IF op.dir = Root THEN 0 ELSE op.dir)],
       op' = Goto("insert"), op' = Goto("undo"))
  /\ UNCHANGED <<fats, buf, leaving, strayed, promised>>

NewEntry ==
  [kind |-> IF op.kind = "mkdir" THEN "dir" ELSE "file", name |-> op.name, cluster |-> op.new]

Vacant(c) == {j \in 1 .. Slots : dirs[c][j].kind \in {"end", "deleted"}}

\* The sector with the entry in slot j; a slot that was the end mark passes
\* the mark on to the next slot of the sector.
Inserted(c, j) ==
  [i \in 1 .. Slots |->
     IF i = j THEN NewEntry
     ELSE IF i = j + 1 /\ dirs[c][j].kind = "end" THEN EndSlot ELSE dirs[c][i]]

\* add_dir_entry: the first vacant slot of the directory, or a new cluster
\* after its last one.  A failed write may have published the entry: what it
\* refers to is kept.
Insert ==
  LET w == Walk(buf, <<op.dir>>, {c \in FatClusters : Vacant(c) # {}})
      c == Last(w.path)
      j == CHOOSE x \in Vacant(c) : \A y \in Vacant(c) : x <= y
      undo == IF op.kind = "mkdir" THEN op' = Goto("undo") /\ UNCHANGED promised
                                   ELSE Finish("error") IN
  /\ op.pc = "insert"
  /\ \/ /\ w.ok /\ Vacant(c) # {}
        /\ buf' = w.buf
        /\ WriteDir(c, Inserted(c, j), Finish("ok"), Finish("error"))
     \/ /\ w.ok /\ Vacant(c) = {}
        /\ buf' = w.buf
        /\ op' = [op EXCEPT !.pc = "alloc", !.which = "ext", !.tail = c]
        /\ UNCHANGED <<dirs, promised, faults>>
     \/ ~w.ok /\ buf' = w.buf /\ undo /\ UNCHANGED <<dirs, faults>>
     \/ Fault /\ undo /\ UNCHANGED <<buf, dirs>>
  /\ UNCHANGED <<fats, leaving, strayed>>

\* Mutant of Extend: the new cluster joins the chain before it is filled.
ExtendLate ==
  /\ op.pc = "extend"
  /\ op' = Calling(op.tail, op.ext, "done", "restore")
  /\ UNCHANGED <<fats, dirs, buf, leaving, strayed, promised, faults>>

\* The extension is filled before it joins the chain.
Extend ==
  /\ op.pc = "extend"
  /\ WriteDir(op.ext, [Blank EXCEPT ![1] = NewEntry],
       op' = Calling(op.tail, op.ext, "done", "restore"), op' = Goto("undo"))
  /\ UNCHANGED <<fats, buf, leaving, strayed, promised>>

\* Mutant of Restore: the extension is freed whatever became of the old tail.
RestoreCareless ==
  /\ op.pc = "restore"
  /\ op' = Calling(op.tail, EndOfChain, "undo", "undo")
  /\ UNCHANGED <<fats, dirs, buf, leaving, strayed, promised, faults>>

\* The failed link is taken back before its target is freed; when that fails
\* too, everything the link may lead to is kept.
Restore ==
  /\ op.pc = "restore"
  /\ op' = Calling(op.tail, EndOfChain, "undo", "keep")
  /\ UNCHANGED <<fats, dirs, buf, leaving, strayed, promised, faults>>

Done ==
  /\ op.pc \in {"done", "keep"}
  /\ Finish(IF op.pc = "done" THEN "ok" ELSE "error")
  /\ UNCHANGED <<fats, dirs, buf, leaving, strayed, faults>>

(***************************************************************************)
(* The volume a reader of the first FAT copy finds                         *)
(***************************************************************************)

\* Clusters <<c, is-directory>> an entry or a link of p leads to; an entry whose
\* chain is being freed, or was when its removal failed, no longer counts.
Entries(p) ==
  IF p[2]
  THEN {j \in Visible(p[1]) : /\ dirs[p[1]][j].kind \in {"file", "dir"}
                              /\ dirs[p[1]][j].cluster # 0
                              /\ <<p[1], j>> \notin leaving}
  ELSE {}
Leads(p) ==
  {<<dirs[p[1]][j].cluster, dirs[p[1]][j].kind = "dir">> : j \in Entries(p)}
    \cup IF fats[0][p[1]] \in FatClusters THEN {<<fats[0][p[1]], p[2]>>} ELSE {}

RECURSIVE Close(_)
Close(S) ==
  LET new == UNION {Leads(p) : p \in S} \ S IN IF new = {} THEN S ELSE Close(S \cup new)

Live == Close({<<Root, TRUE>>})

\* A chain that leads to a cluster of a name that is still whole.
Taken(path) == \E p \in Live : p[1] \in ToSet(path)

(***************************************************************************)
(* free_chain, rollback_new_chain, unlink and rmdir                        *)
(***************************************************************************)

Removes == {"unlink", "rmdir"}

\* rollback_new_chain: free_chain first checks the whole chain.
Undo ==
  LET w == Walk(buf, <<op[op.which]>>, {}) IN
  /\ op.pc = "undo"
  /\ \/ /\ buf' = w.buf /\ UNCHANGED faults
        /\ op' = IF w.ok THEN [op EXCEPT !.pc = "free", !.chain = w.path]
                        ELSE Goto("undone")
     \/ Fault /\ op' = Goto("undone") /\ UNCHANGED buf
  /\ UNCHANGED <<fats, dirs, leaving, strayed, promised>>

Undone ==
  /\ op.pc = "undone"
  /\ Unwind
  /\ UNCHANGED <<fats, dirs, buf, leaving, strayed, faults>>

\* The loop of free_chain: each link is read once more, then cleared.
FreeLink ==
  LET failed == IF op.kind \in Removes THEN "torn" ELSE "undone" IN
  /\ op.pc = "free" /\ op.chain # <<>>
  /\ \/ /\ buf' = Load(buf, Head(op.chain)) /\ UNCHANGED faults
        /\ op' = [Calling(Head(op.chain), Free, "free", failed)
                    EXCEPT !.chain = Tail(@)]
     \/ /\ buf.sector # SectorOf(Head(op.chain))
        /\ Fault /\ op' = Goto(failed) /\ UNCHANGED buf
  /\ UNCHANGED <<fats, dirs, leaving, strayed, promised>>

Freed ==
  /\ op.pc = "free" /\ op.chain = <<>>
  /\ op' = Goto(IF op.kind \in Removes THEN "remove" ELSE "undone")
  /\ UNCHANGED <<fats, dirs, buf, leaving, strayed, promised, faults>>

\* rmdir's test; each cluster is read up to its own end mark.
Occupied(path) ==
  \E i \in 1 .. Len(path) : \E j \in Visible(path[i]) :
    dirs[path[i]][j].kind \in {"file", "dir"}

\* unlink and rmdir up to the first write: the chain is freed before the
\* entry that refers to it goes.
BeginRemove(kind, at, name) ==
  LET parent == Resolve(at)
      f == Find(parent.buf, parent.cluster, name)
      e == dirs[f.cluster][f.slot]
      w == Walk(f.buf, <<e.cluster>>, {})
      entry == <<f.cluster, f.slot>>
      through == strayed \/ parent.entry \in leaving IN
  /\ op.pc = "idle"
  /\ ops < MaxOps /\ ops' = ops + 1
  /\ parent.cluster # 0
  /\ IF ~f.found \/ (e.kind = "dir") # (kind = "rmdir")
     THEN buf' = f.buf /\ Finish("error") /\ strayed' = through /\ UNCHANGED leaving
     ELSE IF e.cluster = 0
     THEN /\ op' = Operation(kind, parent.cluster, name, "remove")
          /\ promised' = promised \ {<<parent.cluster, name>>}
          /\ buf' = f.buf /\ strayed' = through /\ UNCHANGED leaving
     ELSE IF ~w.ok \/ (kind = "rmdir" /\ Occupied(w.path))
     THEN buf' = w.buf /\ Finish("error") /\ strayed' = through /\ UNCHANGED leaving
     ELSE /\ op' = [Operation(kind, parent.cluster, name, "free") EXCEPT !.chain = w.path]
          /\ leaving' = leaving \cup {entry}
          /\ strayed' = (through \/ (entry \in leaving /\ Taken(w.path)))
          /\ promised' = promised \ {<<parent.cluster, name>>}
          /\ buf' = w.buf
  /\ UNCHANGED <<fats, dirs, faults>>

\* remove_dir_entry
RemoveEntry ==
  LET f == Find(buf, op.dir, op.name)
      sector == [dirs[f.cluster] EXCEPT ![f.slot] = Deleted] IN
  /\ op.pc = "remove"
  /\ \/ /\ buf' = f.buf
        /\ IF f.found THEN WriteDir(f.cluster, sector, Finish("ok"), Finish("error"))
                      ELSE Finish("error") /\ UNCHANGED <<dirs, faults>>
     \/ Fault /\ Finish("error") /\ UNCHANGED <<dirs, buf>>
  /\ leaving' = {x \in leaving : dirs'[x[1]][x[2]].kind # "deleted"}
  /\ UNCHANGED <<fats, strayed>>

Torn ==
  /\ op.pc = "torn"
  /\ Finish("error")
  /\ UNCHANGED <<fats, dirs, buf, leaving, strayed, faults>>

(***************************************************************************)
(* Unmounting and losing power                                             *)
(***************************************************************************)

\* unmount writes a dirty sector to every copy and carries on after an error.
FatUnmount ==
  /\ op.pc = "idle" /\ buf # NoBuf
  /\ IF buf.dirty
     THEN \E done \in SUBSET CopyIds :
            /\ fats' = [k \in CopyIds |-> [c \in FatClusters |->
                         IF k \in done /\ c \in DOMAIN buf.data THEN buf.data[c]
                                                               ELSE fats[k][c]]]
            /\ IF done = CopyIds THEN UNCHANGED faults ELSE Fault
     ELSE UNCHANGED <<fats, faults>>
  /\ buf' = NoBuf
  /\ UNCHANGED <<dirs, op, leaving, strayed, promised>>

PowerLoss ==
  /\ op.pc # "idle" /\ Fault
  /\ Finish("error")
  /\ buf' = NoBuf
  /\ UNCHANGED <<fats, dirs, leaving, strayed>>

FatNext ==
  \/ \E at \in Parents, name \in Names : \E kind \in {"mkdir", "create"} :
       BeginAdd(kind, at, name)
  \/ \E at \in Parents, name \in Names \cup {Old} : \E kind \in Removes :
       BeginRemove(kind, at, name)
  \/ /\ \/ Flush \/ Modify \/ Copy
        \/ Alloc \/ Zero \/ Dots \/ Insert \/ Extend \/ Restore \/ Done
        \/ Undo \/ Undone \/ FreeLink \/ Freed \/ RemoveEntry \/ Torn
        \/ FatUnmount \/ PowerLoss
     /\ UNCHANGED ops

FatSpec == FatInit /\ [][FatNext]_fatVars

(***************************************************************************)
(* What the properties speak of                                            *)
(***************************************************************************)

References(live, c) ==
  {<<p, 0>> : p \in {q \in live : fats[0][q[1]] = c}}
    \cup {<<p, j>> \in live \X (1 .. Slots) : j \in Entries(p) /\ dirs[p[1]][j].cluster = c}

\* The names in the tree: <<first cluster of the directory, name>>.
RECURSIVE Chain(_)
Chain(c) == IF fats[0][c] \in FatClusters THEN <<c>> \o Chain(fats[0][c]) ELSE <<c>>
InDir(c) ==
  LET path == Chain(c) IN
  {dirs[path[i]][j].name : <<i, j>> \in {x \in (1 .. Len(path)) \X (1 .. Slots) :
     /\ x[2] \in Visible(path[x[1]])
     /\ dirs[path[x[1]]][x[2]].kind \in {"file", "dir"}
     /\ \A i \in 1 .. x[1] - 1 : ~HasEnd(path[i])}}

Tree ==
  UNION {{<<c, n>> : n \in InDir(c)} : c \in {Root} \cup
    UNION {{dirs[p[1]][j].cluster : j \in {x \in Entries(p) : dirs[p[1]][x].kind = "dir"}} :
             p \in Live}}

\* Between operations, while no device call has failed, no cluster is lost, the
\* copies of the FAT are equal and the cached sector is the one on the medium.
NothingLost(live) ==
  op.pc = "idle" /\ faults = 0 =>
    /\ {c \in FatClusters : fats[0][c] # Free} = {p[1] : p \in live}
    /\ \A k \in CopyIds : fats[k] = fats[0]
    /\ ~buf.dirty
    /\ \A c \in DOMAIN buf.data : buf.data[c] = fats[0][c]

\* At every moment, so also after power losses and failed device calls, what is
\* on the medium is sound: each cluster that can be reached from the root is
\* allocated in the first FAT copy and referred to once, and no directory hides
\* a cluster behind an end mark (the order of alloc_cluster, mkdir and
\* add_dir_entry, and their rollbacks).  Without a failing call nothing is lost
\* either (write_entry, free_chain).  unlink and rmdir free a chain before they
\* delete its entry, so an interrupted removal leaves a name without clusters:
\* other names stay sound beside it, also when they get those clusters, until
\* an operation goes through that name and reaches the clusters' new owner.
FatSound ==
  LET live == Live IN
  ~strayed =>
    /\ \A p \in live : /\ fats[0][p[1]] # Free
                       /\ Cardinality(References(live, p[1])) = IF p[1] = Root THEN 0 ELSE 1
                       /\ p[2] /\ fats[0][p[1]] # EndOfChain => ~HasEnd(p[1])
    /\ NothingLost(live)

\* A name whose creation returned success is in the tree until its own removal
\* begins, whatever fails in the meantime and however operations go on after
\* it, short of one through the name of an interrupted removal (see FatSound);
\* and while no device call has failed the tree holds exactly those names, so
\* no operation half happens and none touches another's entry (add_dir_entry,
\* remove_dir_entry, rmdir's test).
NamesKept ==
  ~strayed =>
    /\ promised \subseteq Tree
    /\ op.pc = "idle" /\ faults = 0 => Tree = promised
=============================================================================
