------------------------------ MODULE MCKernel ------------------------------
(***************************************************************************)
(* Parts of the kernel that have nothing to wait for each other, for model *)
(* checking: the boot, the log and the screen, and what is done for a user *)
(* program: starting it, taking its traps, serving its reads and writes.   *)
(* The first state decides which of them a behaviour exercises; the others *)
(* stay as they are at their own beginning.                                *)
(***************************************************************************)
EXTENDS Boot, KernelLog, Fbcons, Trap, Exec, FileIo

VARIABLE part

vars == <<part, bootVars, logVars, fbVars, trapVars, execVars, ioVars>>

\* Ranges that begin and end within a page, touch, are empty, or leave a hole
\* between the memory of the kernel and the memory behind it.
MCBiosMaps ==
  {<< [base |-> 0, size |-> 1, type |-> "available"], [base |-> 1, size |-> 1, type |-> "reserved"],
      [base |-> 2, size |-> b - 2, type |-> "available"], [base |-> b, size |-> c - b, type |-> "reserved"],
      [base |-> c, size |-> d - c, type |-> "available"] >> :
    <<b, c, d>> \in {x \in (8 .. 14) \X (8 .. 14) \X (8 .. 14) : x[1] <= x[2] /\ x[2] <= x[3]}}

\* Segments in the first two pages, across them, in the unmapped page, up to
\* and into the stack and above it; of no bytes, of file bytes, of file and
\* zero bytes, and with more file bytes than memory.
MCSegments ==
  {[load |-> TRUE, va |-> v, memsz |-> s[1], filesz |-> s[2], offset |-> s[3], flags |-> f] :
     v \in {1, 2, 3, 5, 8},
     s \in {<<0, 0, 0>>, <<1, 1, 1>>, <<2, 1, 3>>, <<3, 3, 1>>, <<1, 2, 0>>, <<3, 2, 3>>},
     f \in {{"R", "X"}, {"R", "W"}}}
  \cup {[load |-> FALSE, va |-> 0, memsz |-> 1, filesz |-> 1, offset |-> 0, flags |-> {"R"}],
        [load |-> TRUE, va |-> 4, memsz |-> 2, filesz |-> 0, offset |-> 0, flags |-> {"R"}]}

\* Five bytes in clusters of two: a chain in disk order, one out of order and
\* one that is too short.  Cluster 4, or 3 and 4, belong to others.
MCChains == {<<1, 2, 3>>, <<3, 1, 2>>, <<2, 1>>}

BootAside ==
  /\ loader = "bios"
  /\ info = [mmap |-> CHOOSE m \in BiosMaps : TRUE, start |-> 0, end |-> 0]
  /\ image = KernelFile /\ placed = <<5, 2>> /\ typ = [p \in Pages |-> "conv"]
  /\ BootInit
LogAside == console_level = 0 /\ LogInit
TrapAside == arch = "x86" /\ TrapInit
ExecAside ==
  /\ execArch = "x86"
  /\ LET h == CHOOSE s \in Segments : ~s.load
     IN elf = [valid |-> FALSE, entry |-> CHOOSE e \in Entries : TRUE, headers |-> <<h, h>>]
  /\ ExecInit
IoAside == chain = <<1, 2, 3>> /\ IoInit

Init ==
  \/ part = "boot" /\ LogAside /\ FbInit /\ TrapAside /\ ExecAside /\ IoAside /\ BootInit
  \/ part = "log" /\ BootAside /\ FbInit /\ TrapAside /\ ExecAside /\ IoAside /\ LogInit
  \/ part = "screen" /\ BootAside /\ LogAside /\ TrapAside /\ ExecAside /\ IoAside /\ FbInit
  \/ part = "trap" /\ BootAside /\ LogAside /\ FbInit /\ ExecAside /\ IoAside /\ TrapInit
  \/ part = "exec" /\ BootAside /\ LogAside /\ FbInit /\ TrapAside /\ IoAside /\ ExecInit
  \/ part = "io" /\ BootAside /\ LogAside /\ FbInit /\ TrapAside /\ ExecAside /\ IoInit

Next ==
  \/ part = "boot" /\ BootNext /\ UNCHANGED <<part, logVars, fbVars, trapVars, execVars, ioVars>>
  \/ part = "log" /\ LogNext /\ UNCHANGED <<part, bootVars, fbVars, trapVars, execVars, ioVars>>
  \/ part = "screen" /\ FbNext /\ UNCHANGED <<part, bootVars, logVars, trapVars, execVars, ioVars>>
  \/ part = "trap" /\ TrapNext /\ UNCHANGED <<part, bootVars, logVars, fbVars, execVars, ioVars>>
  \/ part = "exec" /\ ExecNext /\ UNCHANGED <<part, bootVars, logVars, fbVars, trapVars, ioVars>>
  \/ part = "io" /\ IoNext /\ UNCHANGED <<part, bootVars, logVars, fbVars, trapVars, execVars>>

Spec == Init /\ [][Next]_vars
=============================================================================
