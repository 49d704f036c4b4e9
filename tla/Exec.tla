-------------------------------- MODULE Exec --------------------------------
(***************************************************************************)
(* exec: a program is read, checked, loaded into a new address space and   *)
(* handed to a new task (kernel/exec/exec.cpp, kernel/exec/elf_loader.cpp). *)
(*                                                                         *)
(* A byte is the position in the file it came from, 0, or Stale, what a    *)
(* fresh frame holds.  The tables below an address space are PageTable's;  *)
(* here a page has its entry, encoded as the architecture does.  Every     *)
(* allocation, the file's reads and fork may fail.                         *)
(***************************************************************************)
EXTENDS Naturals, FiniteSets, PageEntry

CONSTANTS
  ElfSize,     \* bytes of the file that follow its headers
  e_phnum,     \* number of its program headers
  Segments,    \* the program headers a file may have
  Entries,     \* entry points a file may name
  PG_SIZE, USER_STACK_SIZE, USER_STACK_TOP, USER_SPACE_TOP

\* The static_asserts of exec.cpp, and the alignment page.h gives the stack.
StackLayout ==
  /\ USER_STACK_TOP < USER_SPACE_TOP /\ USER_STACK_TOP % PG_SIZE = 0
  /\ USER_STACK_TOP > USER_STACK_SIZE + PG_SIZE /\ USER_STACK_SIZE % PG_SIZE = 0

ProgramHeaders ==
  [load : BOOLEAN, va : Nat, memsz : Nat, filesz : Nat, offset : Nat, flags : SUBSET {"R", "W", "X"}]

ASSUME ExecAssumption ==
  /\ PG_SIZE \in Nat \ {0} /\ USER_STACK_SIZE \in Nat /\ USER_STACK_TOP \in Nat /\ USER_SPACE_TOP \in Nat
  /\ ElfSize \in Nat /\ e_phnum \in Nat
  /\ Segments \subseteq ProgramHeaders /\ Entries \subseteq Nat /\ StackLayout

Stale == ElfSize + 1
PageOf(va) == va \div PG_SIZE
StackPages == PageOf(USER_STACK_TOP - USER_STACK_SIZE) .. PageOf(USER_STACK_TOP - 1)

VARIABLES
  execArch,
  elf,       \* the file: [valid, entry, headers]
  execPc, seg,   \* where exec is; the program header it is at
  next,      \* the next page of the segment or stack
  pages,     \* the image's pages: page |-> [entry, bytes]
  frames,    \* allocations exec holds or has handed over: buffer, records, pages
  guard,     \* whether intr::Guard is held
  child      \* the new task: [state, memory]

execVars == <<execArch, elf, execPc, seg, next, pages, frames, guard, child>>

\* The allocations, by what they are for.
Buffer == <<"buffer", 0>>
Desc == <<"desc", 0>>
RootTable == <<"root", 0>>
UserPage(p) == <<"page", p>>

NoChild == [state |-> "none", memory |-> FALSE]

ExecInit ==
  /\ execArch \in Arches
  /\ elf \in [valid : BOOLEAN, entry : Entries, headers : [1 .. e_phnum -> Segments]]
  /\ execPc = "open" /\ seg = 1 /\ next = 0 /\ pages = <<>> /\ frames = {}
  /\ guard = FALSE /\ child = NoChild

Header == elf.headers[seg]

(***************************************************************************)
(* elf::validate                                                           *)
(***************************************************************************)

Ends(h) == h.va + h.memsz
Loads(h) == h.load /\ h.memsz # 0

segment_valid(h) ==
  h.load => /\ h.filesz <= h.memsz
            /\ h.offset <= ElfSize /\ h.filesz <= ElfSize - h.offset
            /\ h.memsz # 0 => /\ h.va >= PG_SIZE /\ h.va < USER_SPACE_TOP
                              /\ h.memsz <= USER_SPACE_TOP - h.va
                              /\ \/ Ends(h) <= USER_STACK_TOP - USER_STACK_SIZE
                                 \/ h.va >= USER_STACK_TOP

validate ==
  /\ elf.valid /\ elf.entry >= PG_SIZE /\ elf.entry < USER_SPACE_TOP
  /\ \A i \in 1 .. e_phnum : segment_valid(elf.headers[i])
  /\ \E i \in 1 .. e_phnum : LET h == elf.headers[i]
                       IN Loads(h) /\ "X" \in h.flags /\ elf.entry \in h.va .. Ends(h) - 1

(***************************************************************************)
(* exec up to the image: the file, its buffer, the empty address space     *)
(***************************************************************************)

\* Open, stat, the size's limits and the buffer.
OpenFile ==
  /\ execPc = "open"
  /\ \/ execPc' = "read" /\ frames' = {Buffer}
     \/ execPc' = "failed" /\ UNCHANGED frames
  /\ UNCHANGED <<execArch, elf, seg, next, pages, guard, child>>

ReadFile ==
  /\ execPc = "read" /\ execPc' \in {"desc", "failed"}
  /\ UNCHANGED <<execArch, elf, seg, next, pages, frames, guard, child>>

\* UserImage::load: the MemoryDesc, then its root table.
NewMemory ==
  /\ execPc \in {"desc", "root"}
  /\ \/ /\ frames' = frames \cup {IF execPc = "desc" THEN Desc ELSE RootTable} /\ execPc' = IF execPc = "desc" THEN "root" ELSE "validate"
     \/ execPc' = "failed" /\ UNCHANGED frames
  /\ UNCHANGED <<execArch, elf, seg, next, pages, guard, child>>

FirstPage(s) == IF s \in 1 .. e_phnum THEN PageOf(elf.headers[s].va) ELSE PageOf(USER_STACK_TOP - USER_STACK_SIZE)

Validate ==
  /\ execPc = "validate" /\ execPc' = (IF validate THEN "load" ELSE "failed")
  /\ next' = FirstPage(1)
  /\ UNCHANGED <<execArch, elf, seg, pages, frames, guard, child>>

(***************************************************************************)
(* elf::load                                                               *)
(***************************************************************************)

Put(f, k, v) == [x \in DOMAIN f \cup {k} |-> IF x = k THEN v ELSE f[x]]

\* Mutant of MapZeroed: the page keeps what the frame held.
MapStale(perm) ==
  \/ /\ pages' = Put(pages, next, [entry |-> make_pte_page(execArch, next, perm),
                                   bytes |-> [i \in 0 .. PG_SIZE - 1 |-> Stale]])
     /\ frames' = frames \cup {UserPage(next)} /\ next' = next + 1 /\ UNCHANGED execPc
  \/ execPc' = "failed" /\ UNCHANGED <<pages, frames, next>>

\* alloc_and_map_page and the memset after it.
MapZeroed(perm) ==
  \/ /\ pages' = Put(pages, next, [entry |-> make_pte_page(execArch, next, perm),
                                   bytes |-> [i \in 0 .. PG_SIZE - 1 |-> 0]])
     /\ frames' = frames \cup {UserPage(next)} /\ next' = next + 1 /\ UNCHANGED execPc
  \/ execPc' = "failed" /\ UNCHANGED <<pages, frames, next>>

SegmentPerm(h) == user_page_perm("W" \in h.flags, "X" \in h.flags)

\* Mutant of MergePage: the later segment's rights replace the earlier's.
MergePageReplaces(h) == make_pte_page(execArch, next, SegmentPerm(h))
\* A page two segments share keeps the rights of both.
MergePage(h) ==
  make_pte_page(execArch, next, merge_user_page_perm(execArch, pages[next].entry, SegmentPerm(h)))

LoadPage ==
  /\ execPc = "load" /\ Loads(Header) /\ next * PG_SIZE < Ends(Header)
  /\ IF next \in DOMAIN pages
     THEN /\ pages' = [pages EXCEPT ![next].entry = MergePage(Header)]
          /\ next' = next + 1 /\ UNCHANGED <<execPc, frames>>
     ELSE MapZeroed(SegmentPerm(Header))
  /\ UNCHANGED <<execArch, elf, seg, guard, child>>

\* iterate_pages over the segment's file bytes; then the next header, or
\* the stack.
CopySegment ==
  /\ execPc = "load" /\ (~Loads(Header) \/ next * PG_SIZE >= Ends(Header))
  /\ LET h == Header
         From(va) == IF Loads(h) /\ va \in h.va .. h.va + h.filesz - 1
                     THEN h.offset + va - h.va + 1 ELSE 0
     IN pages' = [p \in DOMAIN pages |->
                   [pages[p] EXCEPT !.bytes = [i \in 0 .. PG_SIZE - 1 |->
                      IF From(p * PG_SIZE + i) # 0 THEN From(p * PG_SIZE + i) ELSE @[i]]]]
  /\ IF seg < e_phnum THEN seg' = seg + 1 /\ next' = FirstPage(seg + 1) /\ UNCHANGED execPc
     ELSE seg' = seg + 1 /\ next' = FirstPage(seg + 1) /\ execPc' = "stack"
  /\ UNCHANGED <<execArch, elf, frames, guard, child>>

\* validate keeps the segments off the stack: its pages are new.
setup_user_stack ==
  /\ execPc = "stack"
  /\ \/ next \in StackPages \ DOMAIN pages /\ MapZeroed(VM_USER_RW)
     \/ next \notin StackPages /\ execPc' = "fork" /\ UNCHANGED <<pages, frames, next>>
  /\ UNCHANGED <<execArch, elf, seg, guard, child>>

(***************************************************************************)
(* The handoff                                                             *)
(***************************************************************************)

\* Mutant of ForkTask: interrupts stay enabled.
ForkUnguarded ==
  /\ execPc = "fork"
  /\ \/ execPc' = "adopt" /\ child' = [state |-> "runnable", memory |-> FALSE]
     \/ execPc' = "failed" /\ UNCHANGED child
  /\ UNCHANGED <<execArch, elf, seg, next, pages, frames, guard>>

\* fork, with interrupts off: the child is runnable, with no memory yet.
ForkTask ==
  /\ execPc = "fork"
  /\ \/ /\ execPc' = "adopt" /\ guard' = TRUE
        /\ child' = [state |-> "runnable", memory |-> FALSE]
     \/ execPc' = "failed" /\ UNCHANGED <<guard, child>>
  /\ UNCHANGED <<execArch, elf, seg, next, pages, frames>>

\* adopt_memory, then the guard's end.  The buffer goes when exec returns.
adopt_memory ==
  /\ execPc = "adopt" /\ execPc' = "return" /\ guard' = FALSE
  /\ child' = [child EXCEPT !.memory = TRUE]
  /\ UNCHANGED <<execArch, elf, seg, next, pages, frames>>

Return ==
  /\ execPc = "return" /\ execPc' = "done" /\ frames' = frames \ {Buffer}
  /\ UNCHANGED <<execArch, elf, seg, next, pages, guard, child>>

\* An error: what exec owns is released as its scopes end.
Release ==
  /\ execPc = "failed" /\ execPc' = "error"
  /\ frames' = frames \ ({Buffer, Desc, RootTable} \cup {UserPage(p) : p \in DOMAIN pages})
  /\ pages' = <<>>
  /\ UNCHANGED <<execArch, elf, seg, next, guard, child>>

\* The scheduler may pick the child whenever interrupts are enabled.
RunChild ==
  /\ ~guard /\ child.state = "runnable" /\ child' = [child EXCEPT !.state = "running"]
  /\ UNCHANGED <<execArch, elf, execPc, seg, next, pages, frames, guard>>

Finished == execPc \in {"done", "error"} /\ child.state # "runnable" /\ UNCHANGED execVars

ExecNext ==
  \/ OpenFile \/ ReadFile \/ NewMemory \/ Validate \/ LoadPage \/ CopySegment
  \/ setup_user_stack \/ ForkTask \/ adopt_memory \/ Return \/ Release \/ RunChild \/ Finished

ExecSpec == ExecInit /\ [][ExecNext]_execVars

(***************************************************************************)
(* Properties                                                              *)
(***************************************************************************)

\* What the file says of a page's rights, of a byte, and which pages it needs.
Loaded == {i \in 1 .. e_phnum : Loads(elf.headers[i])}
Touch(p) == {i \in Loaded : p \in PageOf(elf.headers[i].va) .. PageOf(Ends(elf.headers[i]) - 1)}
ExpectedPages == StackPages \cup {p \in 0 .. USER_SPACE_TOP : Touch(p) # {}}
FlagsOf(S) == UNION {elf.headers[i].flags : i \in S}
ExpectedRights(p) == IF p \in StackPages THEN {"W"} ELSE FlagsOf(Touch(p)) \cap {"W", "X"}
Carriers(va) == {i \in Loaded : va \in elf.headers[i].va .. elf.headers[i].va + elf.headers[i].filesz - 1}
Latest(S) == CHOOSE i \in S : \A j \in S : j <= i
ExpectedByte(va) ==
  LET h == elf.headers[Latest(Carriers(va))]
  IN IF Carriers(va) = {} THEN 0 ELSE h.offset + va - h.va + 1

Rights(e) == On(pte(execArch, e).write, {"W"}) \cup On(pte(execArch, e).exec, {"X"})

\* A task that exec started runs only with its memory, and that memory is
\* what the file describes: every byte of every segment at its address, the
\* rest of their pages and the stack zero, each page with the rights of the
\* segments on it and no others, and an entry point that can be executed.
\* An exec that fails starts nothing and holds nothing.
ExecExact ==
  /\ child.state = "running" => child.memory
  /\ child.memory =>
       /\ DOMAIN pages = ExpectedPages
       /\ \A p \in DOMAIN pages :
            /\ Rights(pages[p].entry) = ExpectedRights(p) /\ pte(execArch, pages[p].entry).user
            /\ \A i \in 0 .. PG_SIZE - 1 : pages[p].bytes[i] = ExpectedByte(p * PG_SIZE + i)
       /\ "X" \in Rights(pages[PageOf(elf.entry)].entry)
  /\ execPc = "done" => frames = {Desc, RootTable} \cup {UserPage(p) : p \in DOMAIN pages}
  /\ execPc = "error" => frames = {} /\ child = NoChild
=============================================================================
