----------------------------- MODULE PciProofs -----------------------------
(***************************************************************************)
(* The two PCI devices with queues in memory.  The AHCI driver implements  *)
(* the block device of blk.h, for every number of tasks and sectors, every *)
(* size of the bounce buffer and every set of requests.  The VirtIO        *)
(* keyboard keeps its buffers apart and its keys in order, for every size  *)
(* of the queue.                                                           *)
(***************************************************************************)
EXTENDS Ahci, VirtioKbd, TLAPS


(***************************************************************************)
(* The inductive invariant of the AHCI disk                                *)
(***************************************************************************)

Written == Tasks \cup {Blank}
Halting == {"halt", "haltCR", "haltFR", "stuck"}

TypeOK ==
  /\ state \in {"Offline", "Initializing", "Ready", "Quarantined"}
  /\ published \in BOOLEAN
  /\ at \in Nat /\ moved \in Nat
  /\ call \in [Tasks -> Calls \cup {None}]
  /\ \A t \in Tasks : call[t] # None => published
  /\ buf \in [Tasks -> [Sectors -> Written \cup {None}]]
  /\ st \in BOOLEAN /\ cr \in BOOLEAN /\ fre \in BOOLEAN /\ fr \in BOOLEAN
  /\ ci \in BOOLEAN /\ err \in BOOLEAN
  /\ dma \in [0 .. MaxSectors - 1 -> Written \cup {None}]
  /\ media \in [Sectors -> Written]

\* Nobody holds io_mutex_: the port of a Ready device waits for a command, that
\* of an Offline one does not change any more.
FreeOK ==
  /\ owner = None /\ step = None /\ state # "Initializing"
  /\ state = "Ready" => ~ci /\ st /\ cr
  /\ state = "Offline" => ~ci /\ (cr => st) /\ (fr => fre)

\* detect, or the shutdown of a port that is not published.
ProbeOK ==
  /\ owner = Probe /\ ~published
  /\ state \in {"Initializing", "Ready"}
  /\ step \in Halting \/ (state = "Initializing" /\ step \in {"stop", "stopCR", "stopFR", "issue", "wait"})
  /\ step \in {"stop", "stopCR", "stopFR", "issue"} => ~ci
  /\ ci => slot.count = 0

\* transfer_blocks.
ServeOK ==
  /\ owner \in Tasks /\ state = "Ready" /\ published
  /\ call[owner] \in Calls
  /\ at <= call[owner].count
  /\ call[owner].first + call[owner].count <= blocks
  /\ step \in Halting \cup {"loop", "issue", "wait"}
  /\ step \in {"loop", "issue"} => ~ci
  /\ step = "issue" \/ step = "wait" \/ ci => at < call[owner].count
  /\ step = "wait" \/ ci => slot = Command
  /\ step = "issue" /\ call[owner].write => \A k \in 0 .. Chunk - 1 : dma[k] = owner

\* What stop_engine and setup_memory have made of the port.
EngineOK ==
  /\ ci => cr
  /\ step \in {"loop", "issue", "wait"} => st /\ cr
  /\ step \in {"stopCR", "haltCR"} => ~st
  /\ step \in {"stopFR", "haltFR"} => ~st /\ ~cr
  /\ step = "wait" /\ ~ci => moved = slot.count
  /\ state = "Ready" => blocks = Max(Sectors) + 1

\* A command, also one that was given up, stays in the disk and in dma_buf_,
\* and writes what a task has put there.
CommandOK ==
  ci \/ step = "wait" =>
    /\ slot.count \in 0 .. MaxSectors /\ slot.lba \in Nat
    /\ \A k \in 0 .. slot.count - 1 : slot.lba + k \in Sectors
    /\ slot.op = "write" => \A k \in 0 .. slot.count - 1 : dma[k] \in Tasks

\* What the command and the request have moved so far.
MovedOK ==
  owner \in Tasks =>
    /\ \A s \in Sectors : call[owner].first <= s /\ s < call[owner].first + at =>
         IF call[owner].write THEN media[s] = owner ELSE buf[owner][s] = media[s]
    /\ ci \/ step = "wait" =>
         /\ call[owner].write => \A k \in 0 .. slot.count - 1 : dma[k] = owner
         /\ \A k \in 0 .. moved - 1 :
              IF call[owner].write THEN media[slot.lba + k] = owner ELSE dma[k] = media[slot.lba + k]

IInv ==
  /\ TypeOK
  /\ FreeOK \/ ProbeOK \/ ServeOK
  /\ EngineOK
  /\ CommandOK
  /\ MovedOK

LEMMA Holders ==
  ASSUME IInv
  PROVE  /\ owner = None => FreeOK
         /\ owner = Probe => ProbeOK
         /\ Moving => ServeOK
         /\ step \in {"stop", "stopCR", "stopFR"} => ProbeOK
         /\ step = "loop" => ServeOK
         /\ step \in Steps => ProbeOK \/ ServeOK
         /\ ProbeOK => ~Moving /\ owner # None
         /\ ServeOK => Moving /\ owner # None /\ owner # Probe
BY AhciAssumption, Zenon DEF IInv, FreeOK, ProbeOK, ServeOK, Steps, Halting, Moving

LEMMA CallFields ==
  ASSUME NEW r \in Calls
  PROVE  r # None /\ r.write \in BOOLEAN /\ r.first \in Nat /\ r.count \in Nat
BY AhciAssumption, Zenon

\* A request of a Ready device is a run of its sectors.
LEMMA RequestSectors ==
  ASSUME IInv, ServeOK, NEW s \in Nat, s < call[owner].first + call[owner].count
  PROVE  s \in Sectors
<1>1. call[owner].first \in Nat /\ call[owner].count \in Nat
  BY CallFields, Zenon DEF ServeOK
<1>2. call[owner].first + call[owner].count <= Max(Sectors) + 1
  BY Zenon DEF IInv, ServeOK, EngineOK
<1>3. Max(Sectors) \in Nat /\ Sectors = 0 .. Max(Sectors)
  BY AhciAssumption, Zenon
<1>4. PICK m : m = Max(Sectors)
  BY Zenon
<1> QED BY <1>1, <1>2, <1>3, <1>4

LEMMA ChunkIs ==
  ASSUME IInv, ServeOK, at < call[owner].count
  PROVE  Chunk \in 1 .. MaxSectors /\ at + Chunk \in Nat /\ at + Chunk <= call[owner].count
<1>1. PICK a, b : a = call[owner].count - at /\ b = MaxSectors
  BY Zenon
<1>2. at \in Nat /\ call[owner].count \in Nat
  BY CallFields, Zenon DEF IInv, TypeOK, ServeOK
<1>3. a \in Nat \ {0} /\ b \in Nat \ {0}
  BY <1>1, <1>2, AhciAssumption
<1>4. PICK c : c = Min({a, b})
  BY Zenon
<1>5. c \in {a, b} /\ c <= a /\ c <= b
  <2>1. \E x \in {a, b} : \A y \in {a, b} : x <= y
    BY <1>3
  <2> QED BY <1>4, <2>1, Zenon DEF Min
<1>6. Chunk = c
  BY <1>1, <1>4, Zenon DEF Chunk
<1> QED BY <1>1, <1>2, <1>3, <1>5, <1>6

LEMMA SameCommand ==
  ASSUME call' = call, owner' = owner, at' = at
  PROVE  Command' = Command /\ Chunk' = Chunk /\ Moving' = Moving
BY Zenon DEF Command, Chunk, Moving

LEMMA StutterInv == ASSUME IInv, UNCHANGED ahciVars PROVE IInv'
<1> USE DEF ahciVars, driverVars, holderVars, engineVars
<1>1. TypeOK' /\ EngineOK' /\ CommandOK' /\ MovedOK'
  BY DEF IInv, TypeOK, EngineOK, CommandOK, MovedOK
<1>2. FreeOK' \/ ProbeOK' \/ ServeOK'
  BY SameCommand, Zenon DEF IInv, FreeOK, ProbeOK, ServeOK
<1> QED BY <1>1, <1>2, Zenon DEF IInv

\* Steps of the holder that change its step and, of the port, at most ST and
\* FRE, which are not set.
LEMMA GotoInv ==
  ASSUME IInv, UNCHANGED <<driverVars, owner, at, inits, published, call, buf, dma, media>>,
         UNCHANGED <<cr, fr, clb, ci, err, bsy, slot, moved>>, st' \in BOOLEAN, fre' \in BOOLEAN,
         FreeOK' \/ ProbeOK' \/ ServeOK', EngineOK', step' # "wait"
  PROVE  IInv'
<1>1. TypeOK'
  BY Zenon DEF IInv, TypeOK, driverVars
<1>2. CommandOK'
  BY Zenon DEF IInv, CommandOK
<1>3. MovedOK'
  BY Zenon DEF IInv, MovedOK
<1> QED BY <1>1, <1>2, <1>3, Zenon DEF IInv

LEMMA StopCommandsInv == ASSUME IInv, StopCommands PROVE IInv'
<1> USE DEF StopCommands, Goto, driverVars
<1>1. step' = IF step = "stop" THEN "stopCR" ELSE "haltCR"
  BY Zenon
<1>2. ProbeOK' \/ ServeOK'
  BY <1>1, Holders, SameCommand, Zenon DEF ProbeOK, ServeOK, Halting, Steps
<1>3. EngineOK'
  BY <1>1, Zenon DEF IInv, EngineOK
<1> QED BY <1>1, <1>2, <1>3, GotoInv, Zenon DEF IInv, TypeOK

LEMMA StopFisInv == ASSUME IInv, StopFis PROVE IInv'
<1> USE DEF StopFis, Goto, driverVars
<1>1. step' = IF step = "stopCR" THEN "stopFR" ELSE "haltFR"
  BY Zenon
<1>2. ProbeOK' \/ ServeOK'
  BY <1>1, Holders, SameCommand, Zenon DEF ProbeOK, ServeOK, Halting, Steps
<1>3. EngineOK'
  BY <1>1, Zenon DEF IInv, EngineOK
<1> QED BY <1>1, <1>2, <1>3, GotoInv, Zenon DEF IInv, TypeOK

LEMMA StopTimeoutInv == ASSUME IInv, StopTimeout PROVE IInv'
<1> USE DEF StopTimeout, Goto, driverVars, engineVars
<1>1. /\ step \in {"stopCR", "haltCR", "stopFR", "haltFR"}
      /\ step' = IF step \in {"stopCR", "stopFR"} THEN "halt" ELSE "stuck"
  BY Zenon
<1>2. ProbeOK' \/ ServeOK'
  BY <1>1, Holders, SameCommand, Zenon DEF ProbeOK, ServeOK, Halting, Steps
<1>3. EngineOK'
  BY <1>1, Zenon DEF IInv, EngineOK
<1> QED BY <1>1, <1>2, <1>3, GotoInv, Zenon DEF IInv, TypeOK

LEMMA GiveUpInv == ASSUME IInv, step \in {"issue", "wait"}, Goto("halt"), UNCHANGED engineVars PROVE IInv'
<1> USE DEF Goto, driverVars, engineVars
<1>2. ProbeOK' \/ ServeOK'
  BY Holders, SameCommand, Zenon DEF ProbeOK, ServeOK, Halting, Steps
<1>3. EngineOK'
  BY Zenon DEF IInv, EngineOK
<1> QED BY <1>2, <1>3, GotoInv, Zenon DEF IInv, TypeOK

LEMMA SetupMemoryInv == ASSUME IInv, SetupMemory PROVE IInv'
<1> USE DEF SetupMemory
<1>1. ProbeOK
  BY Holders, Zenon
<1>2. TypeOK'
  BY Zenon DEF IInv, TypeOK
<1>3. ProbeOK'
  BY <1>1, Zenon DEF ProbeOK, Halting
<1>4. EngineOK'
  BY Zenon DEF IInv, EngineOK
<1>5. CommandOK' /\ MovedOK'
  BY <1>1, AhciAssumption, Zenon DEF ProbeOK, CommandOK, MovedOK
<1> QED BY <1>2, <1>3, <1>4, <1>5, Zenon DEF IInv

LEMMA BeginInitInv == ASSUME IInv, BeginInit PROVE IInv'
<1> USE DEF BeginInit, engineVars
<1>1. FreeOK
  BY Holders, Zenon
<1>2. TypeOK'
  BY Zenon DEF IInv, TypeOK
<1>3. ProbeOK'
  BY <1>1, Zenon DEF FreeOK, ProbeOK
<1>4. EngineOK'
  BY <1>1, Zenon DEF IInv, FreeOK, EngineOK
<1>5. CommandOK' /\ MovedOK'
  BY <1>1, AhciAssumption, Zenon DEF FreeOK, CommandOK, MovedOK
<1> QED BY <1>2, <1>3, <1>4, <1>5, Zenon DEF IInv

LEMMA ReturnType ==
  ASSUME TypeOK, NEW t \in Tasks, Return(t)
  PROVE  /\ call' \in [Tasks -> Calls \cup {None}]
         /\ \A u \in Tasks : call'[u] # None => published
         /\ buf' \in [Tasks -> [Sectors -> Written \cup {None}]]
BY Zenon DEF TypeOK, Return, Empty

\* The holder leaves, with the port as it is.
LEMMA LeaveInv ==
  ASSUME IInv, Leave, state' \in {"Offline", "Ready", "Quarantined"}, UNCHANGED <<blocks, st, cr, fre, fr, ci, err, slot, moved>>,
         owner # None, step # "wait",
         state' = "Ready" => state = "Ready" /\ ~ci /\ st /\ cr,
         state' = "Offline" => ~cr /\ ~fr
  PROVE  IInv'
<1> USE DEF Leave, Release
<1>1. TypeOK'
  <2>1. CASE Moving
    BY <2>1, ReturnType, Zenon DEF IInv, TypeOK, Moving
  <2>2. CASE ~Moving
    BY <2>2, Zenon DEF IInv, TypeOK
  <2> QED BY <2>1, <2>2, Zenon
<1>2. FreeOK'
  BY Zenon DEF IInv, TypeOK, EngineOK, FreeOK
<1>3. EngineOK'
  BY AhciAssumption, Zenon DEF IInv, EngineOK, Steps
<1>4. CommandOK'
  BY AhciAssumption, Zenon DEF IInv, CommandOK, Steps
<1>5. MovedOK'
  BY AhciAssumption, Zenon DEF MovedOK
<1> QED BY <1>1, <1>2, <1>3, <1>4, <1>5, Zenon DEF IInv

LEMMA HaltedInv == ASSUME IInv, Halted PROVE IInv'
<1>1. owner # None
  BY Holders, Zenon DEF Halted, Steps
<1> QED BY <1>1, LeaveInv, Zenon DEF Halted, IInv, EngineOK

LEMMA StuckInv == ASSUME IInv, Stuck PROVE IInv'
<1>1. owner # None
  BY Holders, Zenon DEF Stuck, Steps
<1> QED BY <1>1, LeaveInv, Zenon DEF Stuck, engineVars

LEMMA EndInv == ASSUME IInv, End PROVE IInv'
<1>1. ServeOK /\ owner # None
  BY Holders, Zenon DEF End
<1> QED BY <1>1, LeaveInv, Zenon DEF End, ServeOK, driverVars, engineVars, IInv, EngineOK

LEMMA CallInv == ASSUME IInv, NEW t \in Tasks, Call(t) PROVE IInv'
<1> USE DEF Call, driverVars, holderVars, engineVars
<1>1. PICK r \in Calls : call' = [call EXCEPT ![t] = r]
  BY Zenon
<1>2. Moving => owner # t /\ call'[owner] = call[owner]
  BY <1>1, Holders, CallFields, Zenon DEF IInv, TypeOK, ServeOK, Moving
<1>3. TypeOK'
  BY <1>1, Zenon DEF IInv, TypeOK
<1>4. FreeOK' \/ ProbeOK' \/ ServeOK'
  <2>1. FreeOK => FreeOK'
    BY Zenon DEF FreeOK
  <2>2. ProbeOK => ProbeOK'
    BY Zenon DEF ProbeOK
  <2>3. ServeOK => ServeOK'
    BY <1>2, Zenon DEF ServeOK, Moving, Command, Chunk
  <2> QED BY <2>1, <2>2, <2>3, Zenon DEF IInv
<1>5. EngineOK' /\ CommandOK'
  BY Zenon DEF IInv, EngineOK, CommandOK
<1>6. MovedOK'
  BY <1>2, Zenon DEF IInv, MovedOK, Moving
<1> QED BY <1>3, <1>4, <1>5, <1>6, Zenon DEF IInv

LEMMA BeginInv == ASSUME IInv, NEW t \in Tasks, Begin(t) PROVE IInv'
<1> USE DEF Begin, driverVars, engineVars
<1>1. FreeOK /\ call[t] \in Calls
  BY Holders, Zenon DEF IInv, TypeOK
<1>2. CASE Serves(call[t])
  <2>1. owner' = t /\ step' = "loop" /\ at' = 0 /\ call' = call /\ buf' = buf /\ state = "Ready"
    BY <1>2, Zenon DEF Serves
  <2>2. call[t].first \in Nat /\ call[t].count \in Nat /\ blocks \in Nat
    BY <1>1, <2>1, CallFields, AhciAssumption DEF IInv, EngineOK
  <2>3. TypeOK'
    BY <2>1, Zenon DEF IInv, TypeOK
  <2>4. published
    BY <1>1, CallFields, Zenon DEF IInv, TypeOK
  <2>5. ServeOK'
    BY <1>1, <1>2, <2>1, <2>2, <2>4 DEF ServeOK, FreeOK, Serves
  <2>6. EngineOK' /\ CommandOK'
    BY <1>1, <2>1, Zenon DEF IInv, EngineOK, CommandOK, FreeOK
  <2>7. MovedOK'
    BY <1>1, <2>1, <2>2, AhciAssumption DEF MovedOK, FreeOK
  <2> QED BY <2>3, <2>5, <2>6, <2>7, Zenon DEF IInv
<1>3. CASE ~Serves(call[t])
  <2>1. Return(t) /\ UNCHANGED holderVars
    BY <1>3, Zenon
  <2>2. TypeOK'
    BY <2>1, ReturnType, Zenon DEF IInv, TypeOK, holderVars
  <2>3. FreeOK'
    BY <1>1, <2>1, Zenon DEF FreeOK, holderVars
  <2>4. EngineOK' /\ CommandOK'
    BY <2>1, Zenon DEF IInv, EngineOK, CommandOK, holderVars
  <2>5. MovedOK'
    BY <1>1, <2>1, AhciAssumption, Zenon DEF MovedOK, FreeOK, holderVars
  <2> QED BY <2>2, <2>3, <2>4, <2>5, Zenon DEF IInv
<1> QED BY <1>2, <1>3, Zenon

LEMMA CopyInInv == ASSUME IInv, CopyIn PROVE IInv'
<1> USE DEF CopyIn, driverVars, engineVars
<1>1. ServeOK
  BY Holders, Zenon
<1>2. Command' = Command /\ Chunk' = Chunk
  BY SameCommand, Zenon
<1>3. Chunk \in 1 .. MaxSectors
  BY <1>1, ChunkIs, Zenon
<1>4. ~ci /\ call[owner].write \in BOOLEAN
  BY <1>1, CallFields, Zenon DEF ServeOK
<1>5. /\ dma' \in [0 .. MaxSectors - 1 -> Written \cup {None}]
      /\ call[owner].write => \A k \in 0 .. Chunk - 1 : dma'[k] = owner
  <2>1. CASE call[owner].write
    <3>1. dma' = [k \in 0 .. MaxSectors - 1 |-> IF k < Chunk THEN owner ELSE dma[k]]
      BY <2>1, Zenon DEF IInv, TypeOK
    <3>2. owner \in Written /\ \A k \in 0 .. Chunk - 1 : k \in 0 .. MaxSectors - 1 /\ k < Chunk
      BY <1>1, <1>3, AhciAssumption DEF ServeOK, Written
    <3> QED BY <3>1, <3>2, Zenon DEF IInv, TypeOK
  <2>2. CASE ~call[owner].write
    BY <2>2, Zenon DEF IInv, TypeOK
  <2> QED BY <2>1, <2>2, Zenon
<1>6. TypeOK'
  BY <1>5, Zenon DEF IInv, TypeOK
<1>7. ServeOK'
  BY <1>1, <1>2, <1>4, <1>5, Zenon DEF ServeOK
<1>8. EngineOK' /\ CommandOK' /\ MovedOK'
  BY <1>4, Zenon DEF IInv, EngineOK, CommandOK, MovedOK
<1> QED BY <1>6, <1>7, <1>8, Zenon DEF IInv

LEMMA IssueCmdInv == ASSUME IInv, IssueCmd PROVE IInv'
<1>1. CASE Goto("halt") /\ UNCHANGED engineVars
  BY <1>1, GiveUpInv, Zenon DEF IssueCmd
<1>2. CASE ~(Goto("halt") /\ UNCHANGED engineVars)
  <2>1. /\ step = "issue" /\ ~ci /\ slot' = Command /\ moved' = 0 /\ ci' = TRUE /\ err' = FALSE /\ step' = "wait"
        /\ UNCHANGED <<state, attached, configured, blocks, owner, at, inits, published, call, buf, dma, media,
                       st, cr, fre, fr, clb, bsy>>
    BY <1>2, Zenon DEF IssueCmd, Goto, driverVars
  <2>2. Command' = Command /\ Chunk' = Chunk /\ Moving' = Moving
    BY <2>1, SameCommand, Zenon
  <2>3. TypeOK'
    BY <2>1, Zenon DEF IInv, TypeOK
  <2>4. EngineOK'
    BY <2>1, Zenon DEF IInv, EngineOK
  <2>5. CASE ProbeOK
    <3>1. Command = [op |-> "identify", lba |-> 0, count |-> 0]
      BY <2>5, Holders, Zenon DEF Command
    <3>2. slot'.op = "identify" /\ slot'.lba = 0 /\ slot'.count = 0
      BY <2>1, <3>1, Zenon
    <3>3. ProbeOK'
      BY <2>1, <2>5, <3>2, Zenon DEF ProbeOK, Halting
    <3>4. CommandOK'
      BY <3>2, AhciAssumption DEF CommandOK
    <3>5. MovedOK'
      BY <2>1, <2>5, AhciAssumption, Zenon DEF ProbeOK, MovedOK
    <3> QED BY <2>3, <2>4, <3>3, <3>4, <3>5, Zenon DEF IInv
  <2>6. CASE ServeOK
    <3>0. at < call[owner].count /\ owner \in Tasks /\ call[owner] \in Calls
      BY <2>1, <2>6, Zenon DEF ServeOK
    <3>1. Chunk \in 1 .. MaxSectors /\ at + Chunk \in Nat /\ at + Chunk <= call[owner].count
      BY <2>6, <3>0, ChunkIs, Zenon
    <3>2. /\ slot'.op = IF call[owner].write THEN "write" ELSE "read"
          /\ slot'.lba = call[owner].first + at /\ slot'.count = Chunk
      BY <2>1, <3>0, Zenon DEF Command, Moving
    <3>3. call[owner].first \in Nat /\ call[owner].count \in Nat /\ at \in Nat /\ MaxSectors \in Nat
      BY <3>0, CallFields, AhciAssumption, Zenon DEF IInv, TypeOK
    <3>4. ServeOK'
      BY <2>1, <2>2, <2>6, Zenon DEF ServeOK
    <3>5. \A k \in 0 .. Chunk - 1 : slot'.lba + k \in Sectors
      <4> TAKE k \in 0 .. Chunk - 1
      <4>1. slot'.lba + k \in Nat /\ slot'.lba + k < call[owner].first + call[owner].count
        BY <3>1, <3>2, <3>3
      <4> QED BY <2>6, <4>1, RequestSectors, Zenon
    <3>6. call[owner].write => \A k \in 0 .. Chunk - 1 : dma'[k] = owner
      BY <2>1, <2>6, Zenon DEF ServeOK
    <3>7. CommandOK'
      <4>1. slot'.count \in 0 .. MaxSectors /\ slot'.lba \in Nat
        BY <3>1, <3>2, <3>3
      <4>2. slot'.op = "write" => call[owner].write
        BY <3>2, Zenon
      <4> QED BY <3>0, <3>2, <3>5, <3>6, <4>1, <4>2, Zenon DEF CommandOK
    <3>8. MovedOK'
      BY <2>1, <3>2, <3>6 DEF IInv, MovedOK
    <3> QED BY <2>3, <2>4, <3>4, <3>7, <3>8, Zenon DEF IInv
  <2> QED BY <2>1, <2>5, <2>6, Holders, Zenon DEF Steps
<1> QED BY <1>1, <1>2, Zenon

LEMMA WaitFailsInv == ASSUME IInv, WaitFails PROVE IInv'
BY GiveUpInv, Zenon DEF WaitFails

LEMMA IdentifiedInv == ASSUME IInv, Identified PROVE IInv'
<1> USE DEF Identified, engineVars
<1>1. ProbeOK
  BY Holders, Zenon DEF Steps, Moving
<1>2. TypeOK'
  BY DEF IInv, TypeOK, Release
<1>3. CASE state' = "Ready" /\ Release /\ blocks' = Max(Sectors) + 1
  <2>1. FreeOK'
    BY <1>3, Zenon DEF IInv, EngineOK, Release, FreeOK
  <2>2. EngineOK'
    BY <1>3, AhciAssumption, Zenon DEF IInv, EngineOK, Release, Steps
  <2>3. CommandOK' /\ MovedOK'
    BY <1>3, AhciAssumption, Zenon DEF Release, CommandOK, MovedOK, Steps
  <2> QED BY <1>2, <2>1, <2>2, <2>3, Zenon DEF IInv
<1>4. CASE step' = "halt" /\ UNCHANGED <<state, owner, at>>
  <2>1. state = "Initializing"
    BY <1>1, Zenon DEF ProbeOK, Halting
  <2>2. ProbeOK'
    BY <1>1, <1>4, Zenon DEF ProbeOK, Halting
  <2>3. EngineOK'
    BY <1>4, <2>1, Zenon DEF IInv, EngineOK
  <2>4. CommandOK' /\ MovedOK'
    BY <1>1, <1>4, AhciAssumption, Zenon DEF ProbeOK, CommandOK, MovedOK
  <2> QED BY <1>2, <2>2, <2>3, <2>4, Zenon DEF IInv
<1> QED BY <1>3, <1>4, Zenon

LEMMA TransferredInv == ASSUME IInv, Transferred PROVE IInv'
<1> USE DEF Transferred, driverVars, engineVars
<1>1. ServeOK /\ step = "wait" /\ ~ci /\ slot = Command
  BY Holders, Zenon DEF ServeOK
<1>2. PICK t, r, a, c : t = owner /\ r = call[owner] /\ a = at /\ c = Chunk
  BY Zenon
<1>3. /\ t \in Tasks /\ r \in Calls /\ r.first \in Nat /\ r.count \in Nat /\ r.write \in BOOLEAN
      /\ a \in Nat /\ a < r.count /\ MaxSectors \in Nat
  BY <1>1, <1>2, CallFields, AhciAssumption, Zenon DEF ServeOK, IInv, TypeOK
<1>4. c \in 1 .. MaxSectors /\ a + c \in Nat /\ a + c <= r.count
  BY <1>1, <1>2, <1>3, ChunkIs, Zenon
<1>5. /\ slot.op = IF r.write THEN "write" ELSE "read"
      /\ slot.lba = r.first + a /\ slot.count = c
  BY <1>1, <1>2, Zenon DEF Command, ServeOK, Moving
<1>6. moved = c
  BY <1>1, <1>5, Zenon DEF IInv, EngineOK
<1>7. \A k \in 0 .. c - 1 : IF r.write THEN media[r.first + a + k] = t ELSE dma[k] = media[r.first + a + k]
  BY <1>1, <1>2, <1>3, <1>5, <1>6, Zenon DEF IInv, MovedOK
<1>8. \A s \in Sectors : r.first <= s /\ s < r.first + a => IF r.write THEN media[s] = t ELSE buf[t][s] = media[s]
  BY <1>1, <1>2, <1>3, Zenon DEF IInv, MovedOK
<1>9. /\ buf' \in [Tasks -> [Sectors -> Written \cup {None}]]
      /\ ~r.write => \A s \in Sectors : buf'[t][s] = IF s \in r.first + a .. r.first + a + c - 1
                                                     THEN dma[s - (r.first + a)] ELSE buf[t][s]
  <2>1. CASE r.write
    BY <1>2, <2>1, Zenon DEF IInv, TypeOK
  <2>2. CASE ~r.write
    <3> DEFINE F == [s \in Sectors |-> IF s \in r.first + a .. r.first + a + c - 1
                                       THEN dma[s - (r.first + a)] ELSE buf[t][s]]
    <3>1. buf' = [buf EXCEPT ![t] = F]
      BY <1>2, <2>2, Zenon
    <3>2. \A s \in Sectors : s \in r.first + a .. r.first + a + c - 1 => s - (r.first + a) \in 0 .. MaxSectors - 1
      BY <1>3, <1>4, AhciAssumption
    <3>3. F \in [Sectors -> Written \cup {None}]
      BY <1>3, <3>2 DEF IInv, TypeOK
    <3>4. \A s \in Sectors : F[s] = IF s \in r.first + a .. r.first + a + c - 1
                                    THEN dma[s - (r.first + a)] ELSE buf[t][s]
      BY Zenon
    <3> HIDE DEF F
    <3> QED BY <1>3, <3>1, <3>3, <3>4, Zenon DEF IInv, TypeOK
  <2> QED BY <2>1, <2>2, Zenon
<1>10. at' = a + c /\ owner' = t /\ call' = call /\ step' = "loop" /\ media' = media
  BY <1>2, Zenon
<1>11. TypeOK'
  BY <1>4, <1>9, <1>10, Zenon DEF IInv, TypeOK
<1>12. ServeOK'
  BY <1>1, <1>2, <1>4, <1>10, Zenon DEF ServeOK
<1>13. EngineOK'
  BY <1>1, <1>10, Zenon DEF IInv, EngineOK
<1>14. CommandOK'
  BY <1>1, <1>10, Zenon DEF CommandOK
<1>15. MovedOK'
  <2>1. ASSUME NEW s \in Sectors, r.first <= s, s < r.first + (a + c)
        PROVE  IF r.write THEN media[s] = t ELSE buf'[t][s] = media[s]
    <3>0. s \in Nat
      BY AhciAssumption
    <3>1. CASE s < r.first + a
      <4>1. s \notin r.first + a .. r.first + a + c - 1
        BY <1>3, <1>4, <3>0, <3>1
      <4> QED BY <1>8, <1>9, <2>1, <3>1, <4>1, Zenon
    <3>2. CASE s >= r.first + a
      <4>1. PICK k \in 0 .. c - 1 : k = s - (r.first + a) /\ s = r.first + a + k
        BY <1>3, <1>4, <2>1, <3>0, <3>2
      <4>2. s \in r.first + a .. r.first + a + c - 1
        BY <1>3, <1>4, <4>1
      <4> QED BY <1>7, <1>9, <4>1, <4>2, Zenon
    <3> QED BY <1>3, <3>0, <3>1, <3>2
  <2> QED BY <1>1, <1>2, <1>10, <2>1, Zenon DEF MovedOK
<1> QED BY <1>11, <1>12, <1>13, <1>14, <1>15, Zenon DEF IInv

LEMMA EngineStopsInv == ASSUME IInv, EngineStops PROVE IInv'
<1> USE DEF EngineStops, driverVars, holderVars
<1>1. TypeOK'
  BY Zenon DEF IInv, TypeOK
<1>2. FreeOK' \/ ProbeOK' \/ ServeOK'
  <2>1. FreeOK => FreeOK'
    BY Zenon DEF FreeOK
  <2>2. ProbeOK => ProbeOK'
    BY Zenon DEF ProbeOK
  <2>3. ServeOK => ServeOK'
    BY SameCommand, Zenon DEF ServeOK
  <2> QED BY <2>1, <2>2, <2>3, Zenon DEF IInv
<1>3. EngineOK'
  BY Zenon DEF IInv, EngineOK
<1>4. CommandOK' /\ MovedOK'
  BY Zenon DEF IInv, CommandOK, MovedOK
<1> QED BY <1>1, <1>2, <1>3, <1>4, Zenon DEF IInv

LEMMA FisStopsInv == ASSUME IInv, FisStops PROVE IInv'
<1> USE DEF FisStops, driverVars, holderVars
<1>1. TypeOK'
  BY Zenon DEF IInv, TypeOK
<1>2. FreeOK' \/ ProbeOK' \/ ServeOK'
  <2>1. FreeOK => FreeOK'
    BY Zenon DEF FreeOK
  <2>2. ProbeOK => ProbeOK'
    BY Zenon DEF ProbeOK
  <2>3. ServeOK => ServeOK'
    BY SameCommand, Zenon DEF ServeOK
  <2> QED BY <2>1, <2>2, <2>3, Zenon DEF IInv
<1>3. EngineOK' /\ CommandOK' /\ MovedOK'
  BY Zenon DEF IInv, EngineOK, CommandOK, MovedOK
<1> QED BY <1>1, <1>2, <1>3, Zenon DEF IInv

LEMMA SpinUpInv == ASSUME IInv, SpinUp PROVE IInv'
<1> USE DEF SpinUp, driverVars, holderVars
<1>1. TypeOK'
  BY Zenon DEF IInv, TypeOK
<1>2. FreeOK' \/ ProbeOK' \/ ServeOK'
  BY SameCommand, Zenon DEF IInv, FreeOK, ProbeOK, ServeOK
<1>3. EngineOK' /\ CommandOK' /\ MovedOK'
  BY Zenon DEF IInv, EngineOK, CommandOK, MovedOK
<1> QED BY <1>1, <1>2, <1>3, Zenon DEF IInv

LEMMA CompleteInv == ASSUME IInv, Complete PROVE IInv'
<1> USE DEF Complete, driverVars, holderVars
<1>1. TypeOK'
  BY Zenon DEF IInv, TypeOK
<1>2. FreeOK' \/ ProbeOK' \/ ServeOK'
  <2>1. FreeOK => FreeOK'
    BY Zenon DEF FreeOK
  <2>2. ProbeOK => ProbeOK'
    BY Zenon DEF ProbeOK
  <2>3. ServeOK => ServeOK'
    BY SameCommand, Zenon DEF ServeOK
  <2> QED BY <2>1, <2>2, <2>3, Zenon DEF IInv
<1>3. EngineOK'
  BY Zenon DEF IInv, EngineOK
<1>4. CommandOK' /\ MovedOK'
  BY Zenon DEF IInv, CommandOK, MovedOK
<1> QED BY <1>1, <1>2, <1>3, <1>4, Zenon DEF IInv

\* What one sector's worth of DMA does.
LEMMA DmaEffect ==
  ASSUME IInv, Dma
  PROVE  /\ ci /\ moved \in 0 .. slot.count - 1 /\ moved' = moved + 1 /\ slot.count \in 0 .. MaxSectors
         /\ moved \in DOMAIN dma /\ slot.lba + moved \in Sectors /\ slot.lba \in Nat
         /\ slot.op = "write" => dma' = dma /\ media' = [media EXCEPT ![slot.lba + moved] = dma[moved]]
                                 /\ dma[moved] \in Tasks
         /\ slot.op # "write" => media' = media /\ dma' = [dma EXCEPT ![moved] = media[slot.lba + moved]]
<1>1. ci /\ moved \in Nat /\ moved < slot.count /\ moved' = moved + 1
  BY Zenon DEF Dma, IInv, TypeOK
<1>2. /\ slot.count \in 0 .. MaxSectors /\ slot.lba \in Nat
      /\ \A k \in 0 .. slot.count - 1 : slot.lba + k \in Sectors
      /\ slot.op = "write" => \A k \in 0 .. slot.count - 1 : dma[k] \in Tasks
  BY <1>1, Zenon DEF IInv, CommandOK
<1>3. moved \in 0 .. slot.count - 1 /\ moved \in 0 .. MaxSectors - 1
  BY <1>1, <1>2, AhciAssumption
<1>4. moved \in DOMAIN dma
  BY <1>3, Zenon DEF IInv, TypeOK
<1> QED BY <1>1, <1>2, <1>3, <1>4, Zenon DEF Dma

LEMMA DmaInv == ASSUME IInv, Dma PROVE IInv'
<1>0. /\ UNCHANGED <<state, attached, configured, blocks, owner, step, at, published, call, buf, st, cr, fre, fr,
                     ci, err, slot>>
      /\ ci
  BY Zenon DEF Dma, driverVars, holderVars
<1>1. PICK m, n, l : m = moved /\ n = slot.count /\ l = slot.lba
  BY Zenon
<1>2. /\ m \in 0 .. n - 1 /\ moved' = m + 1 /\ n \in Nat /\ n <= MaxSectors /\ l \in Nat /\ MaxSectors \in Nat
      /\ m \in DOMAIN dma /\ l + m \in Sectors
      /\ slot.op = "write" => dma' = dma /\ media' = [media EXCEPT ![l + m] = dma[m]] /\ dma[m] \in Tasks
      /\ slot.op # "write" => media' = media /\ dma' = [dma EXCEPT ![m] = media[l + m]]
  BY <1>1, DmaEffect, AhciAssumption
<1>3. TypeOK'
  <2>1. dma' \in [0 .. MaxSectors - 1 -> Written \cup {None}] /\ media' \in [Sectors -> Written]
    BY <1>2, Zenon DEF IInv, TypeOK, Written
  <2> QED BY <1>0, <1>2, <2>1 DEF IInv, TypeOK
<1>4. CommandOK'
  <2>1. slot.op = "write" => dma' = dma
    BY <1>2, Zenon
  <2> QED BY <1>0, <2>1, Zenon DEF IInv, CommandOK
<1>5. EngineOK'
  BY <1>0, <1>1, <1>2, Zenon DEF IInv, EngineOK
<1>6. FreeOK => FreeOK'
  BY <1>0, Zenon DEF FreeOK
<1>7. ProbeOK => ProbeOK'
  BY <1>0, Zenon DEF ProbeOK
<1>8. ServeOK => ServeOK'
  BY <1>0, SameCommand, Zenon DEF ServeOK
<1>9. MovedOK'
  <2> SUFFICES ASSUME owner \in Tasks PROVE MovedOK'
    BY <1>0, Zenon DEF MovedOK
  <2>1. ServeOK /\ slot = Command
    BY <1>0, Holders, Zenon DEF ServeOK, Moving
  <2>2. PICK t, r, a : t = owner /\ r = call[owner] /\ a = at
    BY Zenon
  <2>3. /\ t \in Tasks /\ r \in Calls /\ r.first \in Nat /\ r.write \in BOOLEAN /\ a \in Nat
    BY <2>1, <2>2, CallFields, Zenon DEF ServeOK, IInv, TypeOK
  <2>4. slot.op = (IF r.write THEN "write" ELSE "read") /\ l = r.first + a
    BY <1>1, <2>1, <2>2, Zenon DEF Command, ServeOK, Moving
  <2>5. /\ \A s \in Sectors : r.first <= s /\ s < r.first + a => IF r.write THEN media[s] = t ELSE buf[t][s] = media[s]
        /\ r.write => \A k \in 0 .. n - 1 : dma[k] = t
        /\ \A k \in 0 .. m - 1 : IF r.write THEN media[l + k] = t ELSE dma[k] = media[l + k]
    BY <1>0, <1>1, <2>2, <2>3, Zenon DEF IInv, MovedOK
  <2>6. CASE r.write
    <3>1. slot.op = "write" /\ dma' = dma /\ media' = [media EXCEPT ![l + m] = t]
      BY <1>2, <2>4, <2>5, <2>6, Zenon
    <3>2. \A s \in Sectors : media'[s] = IF s = l + m THEN t ELSE media[s]
      BY <3>1, Zenon DEF IInv, TypeOK
    <3>3. \A s \in Sectors : r.first <= s /\ s < r.first + a => media'[s] = t
      BY <2>5, <2>6, <3>2, Zenon
    <3>4. \A k \in 0 .. (m + 1) - 1 : media'[l + k] = t
      <4> TAKE k \in 0 .. (m + 1) - 1
      <4>1. CASE k = m
        BY <1>2, <3>2, <4>1, Zenon
      <4>2. CASE k # m
        <5>1. k \in 0 .. m - 1 /\ l + k # l + m
          BY <1>2, <4>2
        <5>2. media[l + k] = t
          BY <2>5, <2>6, <5>1, Zenon
        <5> QED BY <1>2, <3>1, <5>1, <5>2 DEF IInv, TypeOK
      <4> QED BY <4>1, <4>2, Zenon
    <3> QED BY <1>0, <1>1, <1>2, <2>2, <2>5, <2>6, <3>1, <3>3, <3>4 DEF MovedOK
  <2>7. CASE ~r.write
    <3>1. slot.op # "write" /\ media' = media /\ dma' = [dma EXCEPT ![m] = media[l + m]]
      BY <1>2, <2>4, <2>7, Zenon
    <3>2. \A k \in 0 .. (m + 1) - 1 : dma'[k] = media'[l + k]
      <4> TAKE k \in 0 .. (m + 1) - 1
      <4>1. CASE k = m
        BY <1>2, <3>1, <4>1, Zenon
      <4>2. CASE k # m
        <5>1. k \in 0 .. m - 1
          BY <1>2, <4>2
        <5>2. dma[k] = media[l + k]
          BY <2>5, <2>7, <5>1, Zenon
        <5> QED BY <1>2, <3>1, <4>2, <5>2 DEF IInv, TypeOK
      <4> QED BY <4>1, <4>2, Zenon
    <3> QED BY <1>0, <1>1, <1>2, <2>2, <2>5, <2>7, <3>1, <3>2, Zenon DEF MovedOK
  <2> QED BY <2>6, <2>7, Zenon
<1> QED BY <1>3, <1>4, <1>5, <1>6, <1>7, <1>8, <1>9, Zenon DEF IInv

LEMMA PublishInv == ASSUME IInv, Publish PROVE IInv'
<1> USE DEF Publish, driverVars, engineVars
<1>1. FreeOK
  BY Holders, Zenon
<1>2. TypeOK'
  BY Zenon DEF IInv, TypeOK, holderVars
<1>3. FreeOK' \/ ProbeOK'
  BY <1>1, Zenon DEF FreeOK, ProbeOK, Halting, holderVars
<1>4. EngineOK'
  BY <1>1, AhciAssumption, Zenon DEF IInv, EngineOK, FreeOK, holderVars
<1>5. CommandOK' /\ MovedOK'
  BY <1>1, AhciAssumption, Zenon DEF FreeOK, CommandOK, MovedOK, holderVars, Steps
<1> QED BY <1>2, <1>3, <1>4, <1>5, Zenon DEF IInv

LEMMA InitInv == AhciInit => IInv
<1> SUFFICES ASSUME AhciInit PROVE IInv
  BY Zenon
<1> USE DEF AhciInit
<1>1. TypeOK
  BY Zenon DEF TypeOK, Written, Empty
<1>2. FreeOK /\ EngineOK
  BY AhciAssumption, Zenon DEF FreeOK, EngineOK, Steps
<1>3. CommandOK /\ MovedOK
  BY AhciAssumption, Zenon DEF CommandOK, MovedOK, Steps
<1> QED BY <1>1, <1>2, <1>3, Zenon DEF IInv

LEMMA Inductive == IInv /\ [AhciNext]_ahciVars => IInv'
<1> SUFFICES ASSUME IInv, [AhciNext]_ahciVars PROVE IInv'
  BY Zenon
<1> QED BY StutterInv, BeginInitInv, StopCommandsInv, StopFisInv, StopTimeoutInv, SetupMemoryInv, HaltedInv, StuckInv,
           EndInv, CopyInInv, IssueCmdInv, WaitFailsInv, IdentifiedInv, TransferredInv, PublishInv, EngineStopsInv,
           FisStopsInv, SpinUpInv, DmaInv, CompleteInv, CallInv, BeginInv, Zenon DEF AhciNext

(***************************************************************************)
(* Every step is a step of the block device                                *)
(***************************************************************************)

CallOf == [t \in Tasks |-> IF call[t] = None THEN None
                           ELSE [write |-> call[t].write, range |-> Span(call[t])]]
ServerOf == IF Moving THEN owner ELSE None
QuietOf == ~cr /\ ~fr
DeviceStep == [Device!Next]_(Device!vars)

LEMMA DeviceStutter ==
  ASSUME state' = state, media' = media, QuietOf' = QuietOf, CallOf' = CallOf, buf' = buf, ServerOf' = ServerOf
  PROVE  DeviceStep
BY Zenon DEF DeviceStep, Device!vars, QuietOf, CallOf, ServerOf

\* A step of the driver or the port that the device does not show.
LEMMA HiddenStep ==
  ASSUME UNCHANGED <<state, media, call, buf>>, UNCHANGED <<cr, fr>>, ServerOf' = ServerOf
  PROVE  DeviceStep
<1>1. CallOf' = CallOf /\ QuietOf' = QuietOf
  BY Zenon DEF CallOf, QuietOf, Span
<1> QED BY <1>1, DeviceStutter, Zenon

LEMMA WorkStep ==
  ASSUME UNCHANGED <<state, media, call, buf, owner>>, state # "Offline"
  PROVE  DeviceStep
<1>1. CallOf' = CallOf /\ ServerOf' = ServerOf /\ QuietOf' \in BOOLEAN
  BY Zenon DEF CallOf, ServerOf, Moving, QuietOf, Span
<1>2. Device!Work
  BY <1>1, Zenon DEF Device!Work, CallOf, ServerOf, QuietOf
<1> QED BY <1>2, Zenon DEF DeviceStep, Device!Next

LEMMA MappedCall ==
  ASSUME NEW t \in Tasks, call[t] \in Calls
  PROVE  CallOf[t] # None /\ CallOf[t].write = call[t].write /\ CallOf[t].range = Span(call[t])
<1>1. call[t] # None /\ call[t].write \in BOOLEAN
  BY CallFields, Zenon
<1>2. CallOf[t] = [write |-> call[t].write, range |-> Span(call[t])]
  BY <1>1, Zenon DEF CallOf
<1>3. [write |-> call[t].write, range |-> Span(call[t])] \in [write : BOOLEAN, range : SUBSET Sectors]
  BY <1>1, Zenon DEF Span
<1> QED BY <1>2, <1>3, AhciAssumption

LEMMA MappedReturn ==
  ASSUME IInv, NEW t \in Tasks, Return(t)
  PROVE  /\ CallOf' = [CallOf EXCEPT ![t] = None]
         /\ buf' = [buf EXCEPT ![t] = [s \in Sectors |-> None]]
BY Zenon DEF Return, CallOf, Span, Empty, IInv, TypeOK

LEMMA CallStep == ASSUME IInv, NEW t \in Tasks, Call(t) PROVE DeviceStep
<1>1. PICK r \in Calls : call' = [call EXCEPT ![t] = r]
  BY Zenon DEF Call
<1>2. /\ call[t] = None /\ UNCHANGED <<state, media, buf>> /\ QuietOf' = QuietOf /\ ServerOf' = ServerOf
  BY Zenon DEF Call, driverVars, holderVars, engineVars, QuietOf, ServerOf, Moving
<1>3. \A u \in Tasks : call'[u] = IF u = t THEN r ELSE call[u]
  BY <1>1, Zenon DEF IInv, TypeOK
<1>4. r # None /\ r.write \in BOOLEAN
  BY CallFields, Zenon
<1> DEFINE q == [write |-> r.write, range |-> Span(r)]
<1>5. q \in [write : BOOLEAN, range : SUBSET Sectors]
  BY <1>4, Zenon DEF Span
<1>6. CallOf' = [CallOf EXCEPT ![t] = q]
  BY <1>2, <1>3, <1>4, Zenon DEF CallOf
<1>7. CallOf[t] = None
  BY <1>2, Zenon DEF CallOf
<1>8. Device!Request(t)
  BY <1>2, <1>5, <1>6, <1>7, Zenon DEF Device!Request, Device!Requests, CallOf, QuietOf, ServerOf
<1> QED BY <1>8, Zenon DEF DeviceStep, Device!Next

LEMMA BeginInitStep == ASSUME IInv, BeginInit PROVE DeviceStep
<1>1. CallOf' = CallOf /\ QuietOf' = QuietOf /\ QuietOf \in BOOLEAN
  BY Zenon DEF BeginInit, engineVars, CallOf, QuietOf, Span
<1>2. ServerOf = None /\ ServerOf' = None
  BY AhciAssumption, Zenon DEF BeginInit, ServerOf, Moving
<1>3. Device!BeginInit
  BY <1>1, <1>2, Zenon DEF BeginInit, Device!BeginInit, CallOf, QuietOf, ServerOf
<1> QED BY <1>3, Zenon DEF DeviceStep, Device!Next

LEMMA GotoStep == ASSUME NEW s, Goto(s), UNCHANGED <<cr, fr>> PROVE DeviceStep
<1>1. ServerOf' = ServerOf
  BY Zenon DEF Goto, ServerOf, Moving
<1> QED BY <1>1, HiddenStep, Zenon DEF Goto, driverVars

LEMMA SetupMemoryStep == ASSUME IInv, SetupMemory PROVE DeviceStep
<1>1. state # "Offline"
  BY Holders, Zenon DEF SetupMemory, ProbeOK
<1> QED BY <1>1, WorkStep, Zenon DEF SetupMemory

\* The holder leaves: the device is given up, in the request's answer if
\* there is one.
LEMMA LeaveStep ==
  ASSUME IInv, Leave, owner # None,
         \/ state' = "Offline" /\ ~cr' /\ ~fr'
         \/ state' = "Quarantined"
  PROVE  DeviceStep
<1>1. ProbeOK \/ ServeOK
  BY Zenon DEF IInv, FreeOK
<1>2. /\ state \in {"Initializing", "Ready"} /\ media' = media /\ ServerOf' = None
      /\ QuietOf' \in BOOLEAN /\ (state' = "Offline" => QuietOf') /\ state' \in {"Offline", "Quarantined"}
  BY <1>1, AhciAssumption, Zenon DEF ProbeOK, ServeOK, Leave, Release, ServerOf, Moving, QuietOf
<1>3. Device!GiveUp
  BY <1>2, Zenon DEF Device!GiveUp, QuietOf
<1>4. CASE Moving
  <2>1. PICK t \in Tasks : t = owner
    BY <1>4, Zenon DEF Moving
  <2>2. CallOf' = [CallOf EXCEPT ![t] = None] /\ buf' = [buf EXCEPT ![t] = [s \in Sectors |-> None]]
    BY <1>4, <2>1, MappedReturn, Zenon DEF Leave
  <2>3. ServerOf = t
    BY <1>4, <2>1, Zenon DEF ServerOf
  <2>4. Device!Return(t)
    BY <2>2, Zenon DEF Device!Return, CallOf
  <2>5. Device!Break(t)
    BY <1>2, <1>3, <2>3, <2>4, Zenon DEF Device!Break, ServerOf
  <2> QED BY <2>5, Zenon DEF DeviceStep, Device!Next
<1>5. CASE ~Moving
  <2>1. CallOf' = CallOf /\ buf' = buf /\ ServerOf = None
    BY <1>5, Zenon DEF Leave, CallOf, Span, ServerOf
  <2>2. Device!Abandon
    BY <1>2, <1>3, <2>1, Zenon DEF Device!Abandon, CallOf, ServerOf
  <2> QED BY <2>2, Zenon DEF DeviceStep, Device!Next
<1> QED BY <1>4, <1>5, Zenon

LEMMA HaltedStep == ASSUME IInv, Halted PROVE DeviceStep
<1>1. owner # None
  BY Holders, Zenon DEF Halted, Steps
<1>2. ~cr' /\ ~fr'
  BY Zenon DEF Halted, IInv, EngineOK
<1> QED BY <1>1, <1>2, LeaveStep, Zenon DEF Halted

LEMMA StuckStep == ASSUME IInv, Stuck PROVE DeviceStep
<1>1. owner # None
  BY Holders, Zenon DEF Stuck, Steps
<1> QED BY <1>1, LeaveStep, Zenon DEF Stuck

LEMMA BeginStep == ASSUME IInv, NEW t \in Tasks, Begin(t) PROVE DeviceStep
<1>0. call[t] \in Calls /\ owner = None /\ UNCHANGED <<state, media>> /\ QuietOf' = QuietOf
  BY Zenon DEF Begin, IInv, TypeOK, driverVars, engineVars, QuietOf
<1>1. ServerOf = None /\ CallOf[t] # None
  BY <1>0, MappedCall, AhciAssumption, Zenon DEF ServerOf, Moving
<1>2. CASE Serves(call[t])
  <2>1. ServerOf' = t /\ CallOf' = CallOf /\ buf' = buf /\ state = "Ready"
    BY <1>2, Zenon DEF Begin, Serves, ServerOf, Moving, CallOf, Span
  <2>2. Device!Start(t)
    BY <1>0, <1>1, <2>1, Zenon DEF Device!Start, CallOf, QuietOf, ServerOf
  <2> QED BY <2>2, Zenon DEF DeviceStep, Device!Next
<1>3. CASE ~Serves(call[t])
  <2>1. Return(t) /\ ServerOf' = None
    BY <1>0, <1>3, AhciAssumption, Zenon DEF Begin, ServerOf, Moving, holderVars
  <2>2. CallOf' = [CallOf EXCEPT ![t] = None] /\ buf' = [buf EXCEPT ![t] = [s \in Sectors |-> None]]
    BY <2>1, MappedReturn, Zenon
  <2>3. Device!Return(t)
    BY <2>2, Zenon DEF Device!Return, CallOf
  <2>4. t # None
    BY AhciAssumption, Zenon
  <2>5. Device!Refuse(t)
    BY <1>0, <1>1, <2>1, <2>3, <2>4, Zenon DEF Device!Refuse, CallOf, QuietOf, ServerOf
  <2> QED BY <2>5, Zenon DEF DeviceStep, Device!Next
<1> QED BY <1>2, <1>3, Zenon

LEMMA EndStep == ASSUME IInv, End PROVE DeviceStep
<1>1. ServeOK /\ Moving
  BY Holders, Zenon DEF End
<1>2. PICK t \in Tasks : t = owner
  BY <1>1, Zenon DEF ServeOK
<1>3. call[t] \in Calls /\ at = call[t].count /\ state = "Ready"
  BY <1>1, <1>2, Zenon DEF End, ServeOK
<1>4. CallOf[t].write = call[t].write /\ CallOf[t].range = Span(call[t])
  BY <1>3, MappedCall, Zenon
<1>5. \A s \in Span(call[t]) : IF call[t].write THEN media[s] = t ELSE buf[t][s] = media[s]
  BY <1>2, <1>3, Zenon DEF IInv, MovedOK, Span
<1>6. Return(t) /\ UNCHANGED <<state, media>> /\ QuietOf' = QuietOf /\ ServerOf = t /\ ServerOf' = None
  BY <1>1, <1>2, AhciAssumption, Zenon DEF End, Leave, Release, driverVars, engineVars, QuietOf, ServerOf, Moving
<1>7. CallOf' = [CallOf EXCEPT ![t] = None] /\ buf' = [buf EXCEPT ![t] = [s \in Sectors |-> None]]
  BY <1>6, MappedReturn, Zenon
<1>8. Device!Return(t)
  BY <1>7, Zenon DEF Device!Return, CallOf
<1>9. Device!Answer(t)
  BY <1>3, <1>4, <1>5, <1>6, <1>8, Zenon DEF Device!Answer, CallOf, QuietOf, ServerOf
<1> QED BY <1>9, Zenon DEF DeviceStep, Device!Next

LEMMA CopyInStep == ASSUME IInv, CopyIn PROVE DeviceStep
<1>1. ServerOf' = ServerOf
  BY Zenon DEF CopyIn, ServerOf, Moving
<1> QED BY <1>1, HiddenStep, Zenon DEF CopyIn, driverVars, engineVars

LEMMA IssueCmdStep == ASSUME IInv, IssueCmd PROVE DeviceStep
BY GotoStep, Zenon DEF IssueCmd, engineVars

LEMMA IdentifiedStep == ASSUME IInv, Identified PROVE DeviceStep
<1>1. ProbeOK /\ state = "Initializing" /\ UNCHANGED <<call, buf, media, cr, fr>>
  BY Holders, Zenon DEF Identified, Steps, Moving, ProbeOK, Halting, engineVars
<1>2. ServerOf = None /\ ServerOf' = None
  BY <1>1, AhciAssumption, Zenon DEF Identified, Release, ProbeOK, ServerOf, Moving
<1>3. CASE state' = "Ready"
  <2>1. CallOf' = CallOf /\ QuietOf' \in BOOLEAN
    BY <1>1, Zenon DEF CallOf, Span, QuietOf
  <2>2. Device!Publish
    BY <1>1, <1>2, <1>3, <2>1, Zenon DEF Device!Publish, CallOf, QuietOf, ServerOf
  <2> QED BY <2>2, Zenon DEF DeviceStep, Device!Next
<1>4. CASE state' # "Ready"
  BY <1>1, <1>2, <1>4, HiddenStep, Zenon DEF Identified
<1> QED BY <1>3, <1>4, Zenon

LEMMA TransferredStep == ASSUME IInv, Transferred PROVE DeviceStep
<1>1. ServeOK /\ step = "wait" /\ ~ci /\ slot = Command
  BY Holders, Zenon DEF Transferred, ServeOK
<1>2. PICK t, r, a, c : t = owner /\ r = call[owner] /\ a = at /\ c = Chunk
  BY Zenon
<1>3. /\ t \in Tasks /\ r \in Calls /\ r.first \in Nat /\ r.count \in Nat /\ r.write \in BOOLEAN
      /\ a \in Nat /\ a < r.count /\ call[t] = r /\ state = "Ready"
  BY <1>1, <1>2, CallFields, Zenon DEF ServeOK, IInv, TypeOK
<1>4. c \in 1 .. MaxSectors /\ a + c <= r.count
  BY <1>1, <1>2, <1>3, ChunkIs, Zenon
<1>5. /\ UNCHANGED <<state, media, call, cr, fr>> /\ owner' = owner
  BY Zenon DEF Transferred, driverVars, engineVars
<1>6. ServerOf = t /\ ServerOf' = t /\ CallOf' = CallOf /\ QuietOf' \in BOOLEAN
  BY <1>2, <1>3, <1>5, Zenon DEF ServerOf, Moving, CallOf, Span, QuietOf
<1>7. CASE r.write
  <2>1. buf' = buf
    BY <1>2, <1>7, Zenon DEF Transferred
  <2> QED BY <1>5, <1>6, <2>1, HiddenStep, Zenon
<1>8. CASE ~r.write
  <2> DEFINE R == {s \in Sectors : s \in r.first + a .. r.first + a + c - 1}
             F == [s \in Sectors |-> IF s \in R THEN media[s] ELSE buf[t][s]]
             G == [s \in Sectors |-> IF s \in r.first + a .. r.first + a + c - 1
                                     THEN dma[s - (r.first + a)] ELSE buf[t][s]]
  <2>1. buf' = [buf EXCEPT ![t] = G]
    BY <1>2, <1>8, Zenon DEF Transferred
  <2>2. slot.lba = r.first + a /\ slot.count = c
    BY <1>1, <1>2, Zenon DEF Command, ServeOK, Moving
  <2>3. moved = c
    BY <1>1, <2>2, Zenon DEF IInv, EngineOK
  <2>4. \A k \in 0 .. c - 1 : dma[k] = media[r.first + a + k]
    BY <1>1, <1>2, <1>3, <1>8, <2>2, <2>3, Zenon DEF IInv, MovedOK
  <2>5. \A s \in R : dma[s - (r.first + a)] = media[s]
    <3> TAKE s \in R
    <3>0. s \in Nat
      BY AhciAssumption
    <3>1. PICK k \in 0 .. c - 1 : k = s - (r.first + a) /\ s = r.first + a + k
      BY <1>3, <1>4, <3>0, AhciAssumption
    <3> QED BY <2>4, <3>1, Zenon
  <2>6. F = G
    BY <2>5, Zenon
  <2>7. R \in SUBSET CallOf[t].range /\ CallOf[t].write = r.write
    <3>1. CallOf[t].range = Span(r) /\ CallOf[t].write = r.write
      BY <1>3, MappedCall, Zenon
    <3>2. \A s \in R : s \in Nat /\ r.first <= s /\ s < r.first + r.count
      BY <1>3, <1>4, AhciAssumption
    <3> QED BY <3>1, <3>2, Zenon DEF Span
  <2>8. buf' = [buf EXCEPT ![t] = F]
    BY <2>1, <2>6, Zenon
  <2> HIDE DEF G, R
  <2>9. buf' = [buf EXCEPT ![t] = [s \in Sectors |-> IF s \in R THEN media[s] ELSE @[s]]]
    BY <1>3, <2>8, Zenon DEF IInv, TypeOK
  <2>10. \E Q \in SUBSET CallOf[t].range :
           buf' = [buf EXCEPT ![t] = [s \in Sectors |-> IF s \in Q THEN media[s] ELSE @[s]]]
    BY <2>7, <2>9, Zenon
  <2>11. Device!Move(t)
    BY <1>3, <1>5, <1>6, <1>8, <2>7, <2>10, Zenon DEF Device!Move, CallOf, ServerOf, QuietOf
  <2> QED BY <1>3, <2>11, Zenon DEF DeviceStep, Device!Next
<1> QED BY <1>7, <1>8, Zenon

LEMMA DmaStep == ASSUME IInv, IInv', Dma PROVE DeviceStep
<1>0. /\ UNCHANGED <<state, call, buf, owner, cr, fr>> /\ ci /\ cr /\ moved < slot.count
  BY Zenon DEF Dma, driverVars, holderVars
<1>1. CallOf' = CallOf /\ ServerOf' = ServerOf /\ QuietOf' = QuietOf /\ QuietOf' \in BOOLEAN
  BY <1>0, Zenon DEF CallOf, Span, ServerOf, Moving, QuietOf
<1>2. CASE media' = media
  BY <1>0, <1>1, <1>2, DeviceStutter, Zenon
<1>3. CASE media' # media
  <2>1. PICK m, l : m = moved /\ l = slot.lba
    BY Zenon
  <2>2. /\ slot.op = "write" /\ media' = [media EXCEPT ![l + m] = dma[m]] /\ l + m \in Sectors /\ l \in Nat
        /\ m \in 0 .. slot.count - 1 /\ slot.count \in 0 .. MaxSectors
    BY <1>3, <2>1, DmaEffect, Zenon
  <2>3. CASE ServeOK
    <3>1. slot = Command /\ at < call[owner].count
      BY <1>0, <2>3, Zenon DEF ServeOK
    <3>2. PICK t, r, a, c : t = owner /\ r = call[owner] /\ a = at /\ c = Chunk
      BY Zenon
    <3>3. /\ t \in Tasks /\ r \in Calls /\ r.first \in Nat /\ r.count \in Nat /\ r.write \in BOOLEAN
          /\ a \in Nat /\ a < r.count /\ call[t] = r /\ state = "Ready"
      BY <2>3, <3>1, <3>2, CallFields, Zenon DEF ServeOK, IInv, TypeOK
    <3>4. c \in 1 .. MaxSectors /\ a + c <= r.count
      BY <2>3, <3>1, <3>2, ChunkIs, Zenon
    <3>5. slot.op = (IF r.write THEN "write" ELSE "read") /\ l = r.first + a /\ slot.count = c
      BY <2>1, <2>3, <3>1, <3>2, Zenon DEF Command, ServeOK, Moving
    <3>6. r.write
      BY <2>2, <3>5, Zenon
    <3>7. dma[m] = t
      BY <1>0, <2>2, <3>2, <3>3, <3>6, Zenon DEF IInv, MovedOK
    <3>8. l + m \in Span(r)
      BY <2>2, <3>3, <3>4, <3>5, AhciAssumption DEF Span
    <3>9. CallOf[t].range = Span(r) /\ CallOf[t].write = r.write /\ ServerOf = t
      BY <3>2, <3>3, MappedCall, Zenon DEF ServerOf, Moving
    <3>10. \E s \in CallOf[t].range : media' = [media EXCEPT ![s] = t]
      BY <2>2, <3>7, <3>8, <3>9, Zenon
    <3>11. Device!Move(t)
      BY <1>0, <1>1, <3>3, <3>6, <3>9, <3>10, Zenon DEF Device!Move, CallOf, ServerOf, QuietOf
    <3> QED BY <3>3, <3>11, Zenon DEF DeviceStep, Device!Next
  <2>4. CASE ProbeOK
    BY <1>0, <2>2, <2>4 DEF ProbeOK
  <2>5. CASE FreeOK
    <3>1. state = "Quarantined"
      BY <1>0, <2>5, Zenon DEF FreeOK, IInv, TypeOK
    <3>2. media' \in [Sectors -> Tasks \cup {Blank}]
      BY Zenon DEF IInv, TypeOK, Written
    <3>3. Device!Drift
      BY <1>0, <1>1, <3>1, <3>2, Zenon DEF Device!Drift, CallOf, ServerOf, QuietOf
    <3> QED BY <3>3, Zenon DEF DeviceStep, Device!Next
  <2> QED BY <2>3, <2>4, <2>5, Zenon DEF IInv
<1> QED BY <1>2, <1>3, Zenon

\* The engines of an Offline device have stopped for good.
LEMMA EnginesStep ==
  ASSUME IInv, EngineStops \/ FisStops
  PROVE  DeviceStep
<1>1. state # "Offline"
  <2>1. state = "Offline" => FreeOK
    BY Zenon DEF IInv, ProbeOK, ServeOK
  <2> QED BY <2>1, Zenon DEF FreeOK, EngineStops, FisStops
<1> QED BY <1>1, WorkStep, Zenon DEF EngineStops, FisStops, driverVars, holderVars

LEMMA PortStep == ASSUME IInv, SpinUp \/ Complete PROVE DeviceStep
<1>1. ServerOf' = ServerOf
  BY Zenon DEF SpinUp, Complete, holderVars, ServerOf, Moving
<1> QED BY <1>1, HiddenStep, Zenon DEF SpinUp, Complete, driverVars

LEMMA PublishStep == ASSUME IInv, Publish PROVE DeviceStep
<1>1. ServerOf' = ServerOf
  BY AhciAssumption, Zenon DEF Publish, holderVars, ServerOf, Moving
<1> QED BY <1>1, HiddenStep, Zenon DEF Publish, driverVars, engineVars

LEMMA DeviceSteps == IInv /\ IInv' /\ [AhciNext]_ahciVars => DeviceStep
<1> SUFFICES ASSUME IInv, IInv', [AhciNext]_ahciVars PROVE DeviceStep
  BY Zenon
<1>1. CASE UNCHANGED ahciVars
  <2>1. ServerOf' = ServerOf
    BY <1>1, Zenon DEF ahciVars, holderVars, ServerOf, Moving
  <2> QED BY <1>1, <2>1, HiddenStep, Zenon DEF ahciVars, driverVars, engineVars
<1>2. CASE StopCommands \/ StopFis \/ StopTimeout \/ WaitFails
  BY <1>2, GotoStep, Zenon DEF StopCommands, StopFis, StopTimeout, WaitFails, engineVars
<1> QED BY <1>1, <1>2, BeginInitStep, SetupMemoryStep, HaltedStep, StuckStep, EndStep, CopyInStep, IssueCmdStep,
           IdentifiedStep, TransferredStep, PublishStep, EnginesStep, PortStep, DmaStep, CallStep, BeginStep, Zenon DEF AhciNext

\* setup_memory and shutdown_locked set PORT_CLB and PORT_FB with both engines
\* stopped.
LEMMA AddressesStep == IInv /\ [AhciNext]_ahciVars => [clb' # clb => ~cr /\ ~fr]_ahciVars
<1> SUFFICES ASSUME IInv, AhciNext, clb' # clb PROVE ~cr /\ ~fr
  BY Zenon
<1>1. CASE SetupMemory
  BY <1>1, Zenon DEF SetupMemory, IInv, EngineOK
<1>2. CASE Halted
  BY <1>2, Zenon DEF Halted, IInv, EngineOK
<1> QED BY <1>1, <1>2, Zenon DEF AhciNext, BeginInit, StopCommands, StopFis, StopTimeout, Stuck, End, CopyIn, IssueCmd,
           WaitFails, Identified, Transferred, Publish, EngineStops, FisStops, SpinUp, Dma, Complete, Call, Begin,
           engineVars

\* For any tasks, any disk, any bounce buffer and any requests, the AHCI driver
\* implements the block device of blk.h, through failing and late commands and
\* engines that do not stop, and never moves the addresses of a running engine.
THEOREM AhciRefinement == AhciSpec => ImplementsAhciDevice
<1>1. AhciInit => Device!Init
  BY AhciAssumption, Zenon DEF AhciInit, Device!Init, Empty, Moving
<1>2. AhciSpec => []IInv
  BY InitInv, Inductive, PTL DEF AhciSpec
<1>3. IInv /\ IInv' /\ [AhciNext]_ahciVars => [Device!Next]_(Device!vars)
  BY DeviceSteps, Zenon DEF DeviceStep
<1> QED BY <1>1, <1>2, <1>3, AddressesStep, PTL DEF AhciSpec, ImplementsAhciDevice, Device!Spec


(***************************************************************************)
(* Ring indexes: uint16_t counters that are places of a smaller ring       *)
(***************************************************************************)

\* How far index y is ahead of index x, and the slot k places after x.
Dist(x, y) == (y + IndexSpan - x) % IndexSpan
At(x, k) == (x + k) % Size
Index == 0 .. IndexSpan - 1

LEMMA Ring ==
  /\ Size \in Nat \ {0} /\ IndexSpan \in Nat \ {0} /\ MaxEvents \in Nat \ {0}
  /\ IndexSpan % Size = 0 /\ Size < IndexSpan
BY VirtioAssumption, Zenon

LEMMA ModSmall == ASSUME NEW n \in Nat \ {0}, NEW a \in Nat, a < n PROVE a % n = a
OBVIOUS

LEMMA ModWrap ==
  ASSUME NEW n \in Nat \ {0}, NEW a \in Nat, n <= a, a < n + n PROVE a % n = a - n
OBVIOUS

LEMMA ModType == ASSUME NEW n \in Nat \ {0}, NEW a \in Nat PROVE a % n \in 0 .. n - 1
OBVIOUS

LEMMA ModParts ==
  ASSUME NEW n \in Nat \ {0}, NEW a \in Nat
  PROVE  a \div n \in Nat /\ a = n * (a \div n) + (a % n)
OBVIOUS

LEMMA Multiple == ASSUME NEW n \in Nat \ {0}, NEW d \in Nat \ {0} PROVE n * d >= n
OBVIOUS

\* Division with remainder has one result.
LEMMA ModUnique ==
  ASSUME NEW n \in Nat \ {0}, NEW p \in Nat, NEW q \in Nat, NEW r \in 0 .. n - 1,
         NEW s \in 0 .. n - 1, n * p + r = n * q + s
  PROVE  p = q /\ r = s
<1>1. CASE p = q
  BY <1>1
<1>2. CASE p > q
  <2>1. PICK d \in Nat \ {0} : p = q + d
    <3>1. p - q \in Nat \ {0} /\ p = q + (p - q)
      BY <1>2
    <3> QED BY <3>1, Zenon
  <2>2. n * p = n * q + n * d
    BY <2>1
  <2>3. n * d >= n
    BY Multiple, Zenon
  <2> QED BY <2>2, <2>3
<1>3. CASE q > p
  <2>1. PICK d \in Nat \ {0} : q = p + d
    <3>1. q - p \in Nat \ {0} /\ q = p + (q - p)
      BY <1>3
    <3> QED BY <3>1, Zenon
  <2>2. n * q = n * p + n * d
    BY <2>1
  <2>3. n * d >= n
    BY Multiple, Zenon
  <2> QED BY <2>2, <2>3
<1> QED BY <1>1, <1>2, <1>3

LEMMA ModCycle ==
  ASSUME NEW n \in Nat \ {0}, NEW m \in Nat, m % n = 0, NEW a \in Nat
  PROVE  (a + m) % n = a % n
<1> DEFINE p == (a + m) \div n
           q == (a \div n) + (m \div n)
<1>1. p \in Nat /\ (a + m) = n * p + ((a + m) % n)
  BY ModParts
<1>2. a \div n \in Nat /\ a = n * (a \div n) + (a % n)
  BY ModParts, Zenon
<1>3. m \div n \in Nat /\ m = n * (m \div n)
  BY ModParts
<1>4. q \in Nat /\ n * q = n * (a \div n) + n * (m \div n)
  BY <1>2, <1>3
<1>5. n * q \in Nat /\ n * p \in Nat /\ a % n \in 0 .. n - 1 /\ (a + m) % n \in 0 .. n - 1
  BY <1>1, <1>4, ModType
<1>6. n * p + ((a + m) % n) = n * q + (a % n)
  BY <1>1, <1>2, <1>3, <1>4, <1>5
<1> DEFINE r == (a + m) % n
           s == a % n
<1>7. r \in 0 .. n - 1 /\ s \in 0 .. n - 1 /\ n * p + r = n * q + s
  BY <1>5, <1>6, Zenon
<1> HIDE DEF p, q, r, s
<1>8. p \in Nat /\ q \in Nat
  BY <1>1, <1>4, Zenon
<1>9. r = s
  BY <1>7, <1>8, ModUnique
<1> QED BY <1>9, Zenon DEF r, s

LEMMA ModRest ==
  ASSUME NEW n \in Nat \ {0}, NEW p \in Nat, NEW q \in Nat, NEW d \in 0 .. n - 1,
         n * q + 0 = n * p + d
  PROVE  d = 0
<1>1. 0 \in 0 .. n - 1
  OBVIOUS
<1> DEFINE z == 0
<1>2. z \in 0 .. n - 1 /\ n * q + z = n * p + d
  BY <1>1, Zenon
<1> HIDE DEF z
<1>3. d = z
  BY <1>2, ModUnique
<1> QED BY <1>3, Zenon DEF z

LEMMA ModApartLe ==
  ASSUME NEW n \in Nat \ {0}, NEW a \in Nat, NEW j \in 0 .. n - 1, NEW k \in 0 .. n - 1,
         (a + j) % n = (a + k) % n, j <= k
  PROVE  j = k
<1> DEFINE p == (a + j) \div n
           q == (a + k) \div n
           r == (a + j) % n
<1>1. p \in Nat /\ a + j = n * p + r
  BY ModParts
<1>2. q \in Nat /\ a + k = n * q + r
  BY ModParts
<1>3. r \in Nat
  BY ModType
<1> HIDE DEF p, q, r
<1>4. k - j \in 0 .. n - 1 /\ 0 \in 0 .. n - 1
  OBVIOUS
<1>5. n * p \in Nat /\ n * q \in Nat
  BY <1>1, <1>2
<1>6. n * q + 0 = n * p + (k - j)
  BY <1>1, <1>2, <1>3, <1>4, <1>5
<1>7. k - j = 0
  BY <1>1, <1>2, <1>4, <1>6, ModRest, Zenon
<1> QED BY <1>7

LEMMA ModApart ==
  ASSUME NEW n \in Nat \ {0}, NEW a \in Nat, NEW j \in 0 .. n - 1, NEW k \in 0 .. n - 1,
         (a + j) % n = (a + k) % n
  PROVE  j = k
<1>1. CASE j <= k
  BY <1>1, ModApartLe, Zenon
<1>2. CASE k <= j
  BY <1>2, ModApartLe, Zenon
<1> QED BY <1>1, <1>2

\* An index moves on by one, from the last back to the first.
LEMMA Advance ==
  ASSUME NEW x \in Index
  PROVE  /\ (x + 1) % IndexSpan \in Index
         /\ (x + 1) % IndexSpan = IF x + 1 = IndexSpan THEN 0 ELSE x + 1
<1>1. x + 1 \in Nat /\ x \in Nat /\ x + 1 <= IndexSpan
  BY Ring DEF Index
<1>2. CASE x + 1 = IndexSpan
  <2>1. (x + 1) % IndexSpan = 0
    BY <1>2, Ring
  <2> QED BY <1>2, <2>1, Ring DEF Index
<1>3. CASE x + 1 < IndexSpan
  <2>1. (x + 1) % IndexSpan = x + 1
    BY <1>1, <1>3, Ring, ModSmall, Zenon
  <2> QED BY <1>1, <1>3, <2>1, Ring DEF Index
<1> QED BY <1>1, <1>2, <1>3, Ring

LEMMA DistCases ==
  ASSUME NEW x \in Index, NEW y \in Index
  PROVE  /\ Dist(x, y) = IF x <= y THEN y - x ELSE y + IndexSpan - x
         /\ Dist(x, y) \in Index
<1> DEFINE a == y + IndexSpan - x
<1>1. a \in Nat /\ a < IndexSpan + IndexSpan /\ x \in Nat /\ y \in Nat /\ y < IndexSpan
  BY Ring DEF Index
<1>2. CASE x <= y
  <2>1. IndexSpan <= a
    BY <1>1, <1>2, Ring
  <2>2. a % IndexSpan = a - IndexSpan
    BY <1>1, <2>1, Ring, ModWrap, Zenon
  <2> QED BY <1>1, <1>2, <2>2, Ring DEF Index, Dist
<1>3. CASE ~(x <= y)
  <2>1. a < IndexSpan
    BY <1>1, <1>3, Ring
  <2>2. a % IndexSpan = a
    BY <1>1, <2>1, Ring, ModSmall, Zenon
  <2> QED BY <1>1, <1>3, <2>1, <2>2, Ring DEF Index, Dist
<1> QED BY <1>2, <1>3, Zenon

LEMMA DistUp ==
  ASSUME NEW x \in Index, NEW y \in Index, Dist(x, y) + 1 < IndexSpan
  PROVE  Dist(x, (y + 1) % IndexSpan) = Dist(x, y) + 1
<1> DEFINE z == (y + 1) % IndexSpan
<1>1. z \in Index /\ z = IF y + 1 = IndexSpan THEN 0 ELSE y + 1
  BY Advance, Zenon
<1> HIDE DEF z
<1>2. Dist(x, z) = IF x <= z THEN z - x ELSE z + IndexSpan - x
  BY <1>1, DistCases, Zenon
<1>3. Dist(x, y) = IF x <= y THEN y - x ELSE y + IndexSpan - x
  BY DistCases, Zenon
<1>4. Dist(x, z) = Dist(x, y) + 1
  BY <1>1, <1>2, <1>3, Ring DEF Index
<1> QED BY <1>4, Zenon DEF z

LEMMA DistDown ==
  ASSUME NEW x \in Index, NEW y \in Index, Dist(x, y) # 0
  PROVE  Dist((x + 1) % IndexSpan, y) = Dist(x, y) - 1
<1> DEFINE z == (x + 1) % IndexSpan
<1>1. z \in Index /\ z = IF x + 1 = IndexSpan THEN 0 ELSE x + 1
  BY Advance, Zenon
<1> HIDE DEF z
<1>2. Dist(z, y) = IF z <= y THEN y - z ELSE y + IndexSpan - z
  BY <1>1, DistCases, Zenon
<1>3. Dist(x, y) = IF x <= y THEN y - x ELSE y + IndexSpan - x
  BY DistCases, Zenon
<1>4. Dist(z, y) = Dist(x, y) - 1
  BY <1>1, <1>2, <1>3, Ring DEF Index
<1> QED BY <1>4, Zenon DEF z

LEMMA AtSlot == ASSUME NEW x \in Index, NEW k \in Nat PROVE At(x, k) \in Slots
BY Ring, ModType DEF Index, At, Slots

LEMMA IndexSlot == ASSUME NEW x \in Index PROVE x % Size \in Slots
BY Ring, ModType DEF Index, Slots

LEMMA AtNext ==
  ASSUME NEW x \in Index, NEW k \in Nat
  PROVE  At((x + 1) % IndexSpan, k) = At(x, k + 1)
<1>1. CASE x + 1 = IndexSpan
  <2>1. At((x + 1) % IndexSpan, k) = k % Size
    BY <1>1, Advance DEF At, Index
  <2>2. At(x, k + 1) = (k + IndexSpan) % Size
    BY <1>1, Ring DEF At, Index
  <2> QED BY <2>1, <2>2, Ring, ModCycle, Zenon
<1>2. CASE x + 1 # IndexSpan
  BY <1>2, Advance, Ring DEF At, Index
<1> QED BY <1>1, <1>2, Zenon

LEMMA AtApart ==
  ASSUME NEW x \in Index, NEW j \in 0 .. Size - 1, NEW k \in 0 .. Size - 1, j # k
  PROVE  At(x, j) # At(x, k)
<1>1. x \in Nat
  BY Ring DEF Index
<1> QED BY <1>1, Ring, ModApart, Zenon DEF At

LEMMA AtEnd ==
  ASSUME NEW x \in Index, NEW y \in Index
  PROVE  y % Size = At(x, Dist(x, y))
<1>1. CASE x <= y
  <2>1. x + Dist(x, y) = y
    BY <1>1, DistCases, Ring DEF Index
  <2> QED BY <2>1, Zenon DEF At
<1>2. CASE ~(x <= y)
  <2>1. x + Dist(x, y) = y + IndexSpan
    BY <1>2, DistCases, Ring DEF Index
  <2>2. y \in Nat
    BY Ring DEF Index
  <2>3. (y + IndexSpan) % Size = y % Size
    BY <2>2, ModCycle, Ring, Zenon
  <2> QED BY <2>1, <2>3, Zenon DEF At
<1> QED BY <1>1, <1>2, Zenon

(***************************************************************************)
(* The inductive invariant of the VirtIO keyboard                          *)
(***************************************************************************)

Entries == [id : Slots, ok : BOOLEAN]
Preparing == {"initialize", "awaitReset", "negotiate", "allocate", "pin"}
Stopping == {"stop", "awaitStop"}
Handling == {"pop", "deliver", "submit", "notify"}

KbdTypeOK ==
  /\ kbdState \in {"Uninitialized", "Ready", "Quarantined"}
  /\ pc \in {"idle"} \cup Preparing \cup Stopping \cup Handling
  /\ mapped \in BOOLEAN /\ enabled \in BOOLEAN
  /\ size \in {0, Size}
  /\ last \in Index /\ avail \in Index /\ used \in Index /\ seen \in Index
  /\ ring \in [Slots -> Slots \cup {Nil}]
  /\ done \in [Slots -> Entries \cup {Nil}]
  /\ events \in [Slots -> Nat \cup {Nil}]
  /\ delivered \in Seq(Nat)
  /\ status \in {"zero", "setup", "ok", "resetting"}
  /\ queueOn \in BOOLEAN /\ posted \in BOOLEAN /\ isr \in BOOLEAN
  /\ pressed \in Nat /\ keys \in Nat

\* What start, stop and intr know of the device at each step.
ControlOK ==
  /\ queueOn => size = Size /\ mapped /\ enabled /\ status # "zero"
  /\ status = "ok" => queueOn
  /\ pc \in Preparing => kbdState = "Uninitialized" /\ enabled
  /\ pc \in Preparing \ {"initialize"} => mapped
  /\ pc = "allocate" => status = "setup"
  /\ pc = "pin" => status = "setup" /\ queueOn
  /\ pc \in Handling => kbdState = "Ready"
  /\ kbdState = "Ready" /\ pc \notin Stopping => status = "ok"
  /\ completed \in IF pc \in {"deliver", "submit"} THEN Slots ELSE {Nil}

\* The k-th buffer lent, the k-th returned, counted from 0, and its key.
LentAt(k) == ring[At(seen, k)]
BackAt(k) == done[At(last, k)].id
KeyAt(k) == events[BackAt(k)]
LentCount == Dist(seen, avail)
BackCount == Dist(last, used)
LentPlaces == 0 .. LentCount - 1
BackPlaces == 0 .. BackCount - 1

\* Every buffer is in one place.
BuffersOK ==
  /\ LentCount + BackCount + (IF completed = Nil THEN 0 ELSE 1) = Size
  /\ \A j \in LentPlaces : LentAt(j) \in Slots /\ LentAt(j) # completed
  /\ \A j \in BackPlaces : done[At(last, j)] \in Entries /\ BackAt(j) # completed
  /\ \A j, k \in LentPlaces : LentAt(j) = LentAt(k) => j = k
  /\ \A j, k \in BackPlaces : BackAt(j) = BackAt(k) => j = k
  /\ \A j \in LentPlaces, k \in BackPlaces : LentAt(j) # BackAt(k)

\* The keys on the used ring are those after the ones delivered or about to
\* be, each once and in order.
Before == Len(delivered) + (IF pc = "deliver" /\ events[completed] # 0 THEN 1 ELSE 0)
KeysOK ==
  /\ Before <= keys
  /\ \A j \in BackPlaces : KeyAt(j) \in {0} \cup (Before + 1 .. keys)
  /\ \A j, k \in BackPlaces : j < k /\ KeyAt(j) # 0 /\ KeyAt(k) # 0 => KeyAt(j) < KeyAt(k)
  /\ \A n \in Before + 1 .. keys : \E j \in BackPlaces : KeyAt(j) = n

\* The device has broken the protocol and has stopped taking buffers.
Corrupted == pressed = MaxEvents /\ \A i \in Slots : done[i] \in Entries /\ ~done[i].ok

QueueOK == status = "ok" \/ pc = "pin" => Corrupted \/ (BuffersOK /\ KeysOK)

DeliveredOK ==
  /\ \A i \in 1 .. Len(delivered) : delivered[i] = i
  /\ pc = "deliver" => events[completed] \in {0, Len(delivered) + 1}

InterruptOK ==
  /\ pc = "pin" => BackCount = 0
  /\ kbdState = "Ready" /\ pc \in {"idle", "notify"} /\ BackCount # 0 => isr \/ posted

KbdInv == KbdTypeOK /\ ControlOK /\ QueueOK /\ DeliveredOK /\ InterruptOK

queue == <<last, avail, ring, used, done, events, seen, keys, completed, delivered>>

LEMMA BuffersKept == ASSUME UNCHANGED queue PROVE BuffersOK = BuffersOK'
BY DEF queue, BuffersOK, LentAt, BackAt, LentCount, BackCount, LentPlaces, BackPlaces

LEMMA KeysKept ==
  ASSUME UNCHANGED queue, pc = "deliver" <=> pc' = "deliver"
  PROVE  KeysOK = KeysOK'
<1>1. Before = Before'
  BY Zenon DEF queue, Before
<1> QED BY <1>1, Zenon DEF queue, KeysOK, KeyAt, BackAt, BackCount, BackPlaces

LEMMA QueueKept ==
  ASSUME QueueOK, UNCHANGED queue, pressed' = pressed, pc = "deliver" <=> pc' = "deliver",
         status' = "ok" \/ pc' = "pin" => status = "ok" \/ pc = "pin"
  PROVE  QueueOK'
<1>1. Corrupted = Corrupted'
  BY Zenon DEF Corrupted, queue
<1> QED BY <1>1, BuffersKept, KeysKept, Zenon DEF QueueOK

LEMMA DeliveredKept ==
  ASSUME DeliveredOK, UNCHANGED queue, pc = "deliver" <=> pc' = "deliver"
  PROVE  DeliveredOK'
BY Zenon DEF DeliveredOK, queue

LEMMA InterruptKept ==
  ASSUME InterruptOK, UNCHANGED queue, isr \/ posted => isr' \/ posted', pc' # "pin",
         kbdState' = "Ready" /\ pc' \in {"idle", "notify"} =>
           kbdState = "Ready" /\ pc \in {"idle", "notify"}
  PROVE  InterruptOK'
BY Zenon DEF InterruptOK, queue, BackCount

LEMMA KbdInitInv == KbdInit => KbdInv
<1> SUFFICES ASSUME KbdInit PROVE KbdInv
  BY Zenon
<1> USE DEF KbdInit
<1>1. KbdTypeOK
  <2>1. 0 \in Index /\ <<>> \in Seq(Nat)
    BY Ring DEF Index
  <2> QED BY <2>1, Zenon DEF KbdTypeOK
<1>2. ControlOK
  BY Zenon DEF ControlOK, Preparing, Handling
<1>3. QueueOK /\ DeliveredOK /\ InterruptOK
  BY DEF QueueOK, DeliveredOK, InterruptOK
<1> QED BY <1>1, <1>2, <1>3, Zenon DEF KbdInv

(***************************************************************************)
(* start and stop                                                          *)
(***************************************************************************)

LEMMA StartInv == ASSUME KbdInv, Start PROVE KbdInv'
<1> USE DEF KbdInv
<1>1. /\ UNCHANGED queue /\ pressed' = pressed /\ kbdState' = kbdState /\ pc' = "initialize"
      /\ status' = status /\ pc = "idle"
  BY Zenon DEF Start, queue, queueVars, deviceVars
<1>2. KbdTypeOK'
  BY Zenon DEF KbdTypeOK, Start, queueVars, deviceVars, Preparing
<1>3. ControlOK'
  BY Zenon DEF ControlOK, Start, queueVars, deviceVars, Preparing, Stopping, Handling
<1>4. QueueOK' /\ DeliveredOK'
  BY <1>1, QueueKept, DeliveredKept, Zenon
<1>5. InterruptOK'
  BY <1>1, Zenon DEF InterruptOK
<1> QED BY <1>2, <1>3, <1>4, <1>5, Zenon

LEMMA PrepareFailsInv == ASSUME KbdInv, PrepareFails PROVE KbdInv'
<1> USE DEF KbdInv
<1>1. /\ UNCHANGED queue /\ pressed' = pressed /\ kbdState' = kbdState /\ pc' = "stop"
      /\ status' = status /\ pc # "deliver"
  BY Zenon DEF PrepareFails, queue, queueVars, deviceVars
<1>2. KbdTypeOK'
  BY Zenon DEF KbdTypeOK, PrepareFails, queueVars, deviceVars, Stopping
<1>3. ControlOK'
  BY Zenon DEF ControlOK, PrepareFails, queueVars, deviceVars, Preparing, Stopping, Handling
<1>4. QueueOK' /\ DeliveredOK'
  BY <1>1, QueueKept, DeliveredKept, Zenon
<1>5. InterruptOK'
  BY <1>1, Zenon DEF InterruptOK
<1> QED BY <1>2, <1>3, <1>4, <1>5, Zenon

LEMMA InitializeInv == ASSUME KbdInv, Initialize PROVE KbdInv'
<1> USE DEF KbdInv
<1>1. /\ UNCHANGED queue /\ pressed' = pressed /\ pc' = "awaitReset" /\ status' # "ok"
      /\ pc # "deliver"
  BY Zenon DEF Initialize, queue, queueVars
<1>2. KbdTypeOK'
  BY Zenon DEF KbdTypeOK, Initialize, queueVars, Preparing
<1>3. ControlOK'
  BY Zenon DEF ControlOK, Initialize, queueVars, Preparing, Stopping, Handling
<1>4. QueueOK' /\ DeliveredOK'
  BY <1>1, QueueKept, DeliveredKept, Zenon
<1>5. InterruptOK'
  BY <1>1, Zenon DEF InterruptOK
<1> QED BY <1>2, <1>3, <1>4, <1>5, Zenon

LEMMA AwaitResetInv == ASSUME KbdInv, AwaitReset PROVE KbdInv'
<1> USE DEF KbdInv
<1>1. /\ UNCHANGED queue /\ pressed' = pressed /\ pc' \in {"negotiate", "stop"}
      /\ status' = status /\ pc # "deliver"
  BY Zenon DEF AwaitReset, queue, queueVars, deviceVars
<1>2. KbdTypeOK'
  BY Zenon DEF KbdTypeOK, AwaitReset, queueVars, deviceVars, Preparing, Stopping
<1>3. ControlOK'
  BY Zenon DEF ControlOK, AwaitReset, queueVars, deviceVars, Preparing, Stopping, Handling
<1>4. QueueOK' /\ DeliveredOK'
  BY <1>1, QueueKept, DeliveredKept, Zenon
<1>5. InterruptOK'
  BY <1>1, Zenon DEF InterruptOK
<1> QED BY <1>2, <1>3, <1>4, <1>5, Zenon

LEMMA NegotiateInv == ASSUME KbdInv, Negotiate PROVE KbdInv'
<1> USE DEF KbdInv
<1>1. /\ UNCHANGED queue /\ pressed' = pressed /\ pc' = "allocate" /\ status' = "setup"
      /\ pc # "deliver"
  BY Zenon DEF Negotiate, queue, queueVars
<1>2. KbdTypeOK'
  BY Zenon DEF KbdTypeOK, Negotiate, queueVars, Preparing
<1>3. ControlOK'
  BY Zenon DEF ControlOK, Negotiate, queueVars, Preparing, Stopping, Handling
<1>4. QueueOK' /\ DeliveredOK'
  BY <1>1, QueueKept, DeliveredKept, Zenon
<1>5. InterruptOK'
  BY <1>1, Zenon DEF InterruptOK
<1> QED BY <1>2, <1>3, <1>4, <1>5, Zenon

LEMMA GoReadyInv == ASSUME KbdInv, GoReady PROVE KbdInv'
<1> USE DEF KbdInv
<1>1. UNCHANGED queue /\ pressed' = pressed /\ pc' = "idle" /\ pc = "pin"
  BY Zenon DEF GoReady, queue, queueVars
<1>2. KbdTypeOK'
  BY Zenon DEF KbdTypeOK, GoReady, queueVars
<1>3. ControlOK'
  BY Zenon DEF ControlOK, GoReady, queueVars, Preparing, Stopping, Handling
<1>4. QueueOK' /\ DeliveredOK'
  BY <1>1, QueueKept, DeliveredKept, Zenon
<1>5. InterruptOK'
  BY <1>1, Zenon DEF InterruptOK, queue, BackCount
<1> QED BY <1>2, <1>3, <1>4, <1>5, Zenon

\* allocate lends every buffer, in order.
LEMMA AllocateQueue == ASSUME KbdInv, Allocate PROVE BuffersOK' /\ KeysOK'
<1>1. /\ seen' = 0 /\ avail' = Size /\ last' = 0 /\ used' = 0 /\ completed' = Nil
      /\ ring' = [i \in Slots |-> i] /\ keys' = 0 /\ delivered' = <<>> /\ pc' = "pin"
  BY Zenon DEF Allocate, KbdInv, ControlOK, Preparing
<1>2. 0 \in Index /\ Size \in Index
  BY Ring DEF Index
<1>3. LentCount' = Size /\ BackCount' = 0
  BY <1>1, <1>2, DistCases, Ring DEF LentCount, BackCount
<1>4. ASSUME NEW j \in 0 .. Size - 1 PROVE LentAt(j)' = j /\ j \in Slots /\ j # Nil
  <2>1. At(0, j) = j
    BY ModSmall, Ring DEF At
  <2>2. j \in Slots /\ j # Nil
    BY VirtioAssumption, Ring DEF Slots
  <2> QED BY <1>1, <2>1, <2>2, Zenon DEF LentAt
<1>5. LentPlaces' = 0 .. Size - 1 /\ BackPlaces' = {}
  BY <1>3, Ring DEF LentPlaces, BackPlaces
<1>6. BuffersOK'
  <2>1. (LentCount + BackCount + (IF completed = Nil THEN 0 ELSE 1) = Size)'
    BY <1>1, <1>3, Ring
  <2> QED BY <1>1, <1>4, <1>5, <2>1, Zenon DEF BuffersOK
<1>7. Before' = 0
  BY <1>1 DEF Before
<1>8. KeysOK'
  BY <1>1, <1>5, <1>7 DEF KeysOK
<1> QED BY <1>6, <1>8, Zenon

LEMMA AllocateInv == ASSUME KbdInv, Allocate PROVE KbdInv'
<1> USE DEF KbdInv
<1>1. KbdTypeOK'
  <2>1. 0 \in Index /\ Size \in Index /\ <<>> \in Seq(Nat)
    BY Ring DEF Index
  <2> QED BY <2>1, Zenon DEF KbdTypeOK, Allocate, Preparing
<1>2. ControlOK'
  BY Zenon DEF ControlOK, Allocate, Preparing, Stopping, Handling
<1>3. QueueOK'
  BY AllocateQueue, Zenon DEF QueueOK
<1>4. DeliveredOK'
  BY DEF Allocate, DeliveredOK
<1>5. InterruptOK'
  <2>1. Dist(0, 0) = 0
    BY DistCases, Ring DEF Index
  <2> QED BY <2>1, Zenon DEF Allocate, InterruptOK, BackCount
<1> QED BY <1>1, <1>2, <1>3, <1>4, <1>5, Zenon

LEMMA StopInv == ASSUME KbdInv, Stop PROVE KbdInv'
<1> USE DEF KbdInv
<1>1. /\ UNCHANGED queue /\ pressed' = pressed /\ pc' = "awaitStop" /\ pc = "stop"
      /\ status' = "ok" => status = "ok"
  BY Zenon DEF Stop, queue, queueVars
<1>2. KbdTypeOK'
  BY Zenon DEF KbdTypeOK, Stop, queueVars, Stopping
<1>3. ControlOK'
  BY Zenon DEF ControlOK, Stop, queueVars, Preparing, Stopping, Handling
<1>4. QueueOK' /\ DeliveredOK'
  BY <1>1, QueueKept, DeliveredKept, Zenon
<1>5. InterruptOK'
  BY <1>1, Zenon DEF InterruptOK
<1> QED BY <1>2, <1>3, <1>4, <1>5, Zenon

LEMMA StoppedInv == ASSUME KbdInv, Stopped PROVE KbdInv'
<1> USE DEF KbdInv
<1>1. KbdTypeOK'
  <2>1. 0 \in Index /\ (enabled /\ caller # "start") \in BOOLEAN
    BY Ring DEF Index
  <2> QED BY <2>1, Zenon DEF KbdTypeOK, Stopped, deviceVars
<1>2. ControlOK'
  BY Zenon DEF ControlOK, Stopped, deviceVars, Preparing, Stopping, Handling
<1>3. QueueOK'
  <2>1. status # "ok"
    BY DEF ControlOK, Stopped
  <2>2. status' # "ok" /\ pc' # "pin"
    BY <2>1, Zenon DEF Stopped, deviceVars
  <2> QED BY <2>2, Zenon DEF QueueOK
<1>4. DeliveredOK'
  BY Zenon DEF Stopped, DeliveredOK, deviceVars
<1>5. InterruptOK'
  BY Zenon DEF Stopped, InterruptOK
<1> QED BY <1>1, <1>2, <1>3, <1>4, <1>5, Zenon

LEMMA ResetTimeoutInv == ASSUME KbdInv, ResetTimeout PROVE KbdInv'
<1> USE DEF KbdInv
<1>1. /\ UNCHANGED queue /\ pressed' = pressed /\ pc' = "idle" /\ pc = "awaitStop"
      /\ status' = status /\ kbdState' = "Quarantined"
  BY Zenon DEF ResetTimeout, queue, queueVars, deviceVars, ControlOK, Stopping
<1>2. KbdTypeOK'
  BY Zenon DEF KbdTypeOK, ResetTimeout, queueVars, deviceVars
<1>3. ControlOK'
  BY Zenon DEF ControlOK, ResetTimeout, queueVars, deviceVars, Preparing, Stopping, Handling
<1>4. QueueOK' /\ DeliveredOK'
  BY <1>1, QueueKept, DeliveredKept, Zenon
<1>5. InterruptOK'
  BY <1>1, Zenon DEF InterruptOK
<1> QED BY <1>2, <1>3, <1>4, <1>5, Zenon

(***************************************************************************)
(* intr                                                                    *)
(***************************************************************************)

LEMMA IntrInv == ASSUME KbdInv, Intr PROVE KbdInv'
<1> USE DEF KbdInv
<1>1. /\ UNCHANGED queue /\ pressed' = pressed /\ pc' \in {"idle", "pop"} /\ pc = "idle"
      /\ status' = status /\ kbdState' = kbdState /\ (kbdState = "Ready" => pc' = "pop")
  BY Zenon DEF Intr, queue, queueVars
<1>2. KbdTypeOK'
  BY Zenon DEF KbdTypeOK, Intr, queueVars, Handling
<1>3. ControlOK'
  BY Zenon DEF ControlOK, Intr, queueVars, Preparing, Stopping, Handling
<1>4. QueueOK' /\ DeliveredOK'
  BY <1>1, QueueKept, DeliveredKept, Zenon
<1>5. InterruptOK'
  BY <1>1, Zenon DEF InterruptOK
<1> QED BY <1>2, <1>3, <1>4, <1>5, Zenon

LEMMA DrainedInv == ASSUME KbdInv, Drained PROVE KbdInv'
<1> USE DEF KbdInv
<1>1. /\ UNCHANGED queue /\ pressed' = pressed /\ pc' = "notify" /\ pc = "pop"
      /\ status' = status /\ BackCount = 0
  BY Zenon DEF Drained, queue, queueVars, deviceVars, Pending, BackCount, Dist
<1>2. KbdTypeOK'
  BY Zenon DEF KbdTypeOK, Drained, queueVars, deviceVars, Handling
<1>3. ControlOK'
  BY Zenon DEF ControlOK, Drained, queueVars, deviceVars, Preparing, Stopping, Handling
<1>4. QueueOK' /\ DeliveredOK'
  BY <1>1, QueueKept, DeliveredKept, Zenon
<1>5. InterruptOK'
  BY <1>1, Zenon DEF InterruptOK, queue, BackCount
<1> QED BY <1>2, <1>3, <1>4, <1>5, Zenon

LEMMA NotifyInv == ASSUME KbdInv, Notify PROVE KbdInv'
<1> USE DEF KbdInv
<1>1. /\ UNCHANGED queue /\ pressed' = pressed /\ pc' = "idle" /\ pc = "notify"
      /\ status' = status /\ kbdState' = kbdState /\ isr' = isr /\ posted' = posted
  BY Zenon DEF Notify, queue, queueVars, deviceVars
<1>2. KbdTypeOK'
  BY Zenon DEF KbdTypeOK, Notify, queueVars, deviceVars
<1>3. ControlOK'
  BY Zenon DEF ControlOK, Notify, queueVars, deviceVars, Preparing, Stopping, Handling
<1>4. QueueOK' /\ DeliveredOK'
  BY <1>1, QueueKept, DeliveredKept, Zenon
<1>5. InterruptOK'
  BY <1>1, InterruptKept, Zenon
<1> QED BY <1>2, <1>3, <1>4, <1>5, Zenon

LEMMA RaiseInv == ASSUME KbdInv, Raise PROVE KbdInv'
<1> USE DEF KbdInv
<1>1. /\ UNCHANGED queue /\ pressed' = pressed /\ pc' = pc /\ kbdState' = kbdState
      /\ status' = status /\ isr'
  BY Zenon DEF Raise, queue, queueVars, kbdDriverVars
<1>2. KbdTypeOK'
  BY Zenon DEF KbdTypeOK, Raise, queueVars, kbdDriverVars
<1>3. ControlOK'
  BY Zenon DEF ControlOK, Raise, queueVars, kbdDriverVars
<1>4. QueueOK' /\ DeliveredOK'
  BY <1>1, QueueKept, DeliveredKept, Zenon
<1>5. InterruptOK'
  BY <1>1, Zenon DEF InterruptOK, queue, BackCount
<1> QED BY <1>2, <1>3, <1>4, <1>5, Zenon

LEMMA ResetDoneInv == ASSUME KbdInv, ResetDone PROVE KbdInv'
<1> USE DEF KbdInv
<1>1. /\ UNCHANGED queue /\ pressed' = pressed /\ pc' = pc /\ kbdState' = kbdState
      /\ status' = "zero" /\ status = "resetting"
  BY Zenon DEF ResetDone, queue, queueVars, kbdDriverVars
<1>2. KbdTypeOK'
  BY Zenon DEF KbdTypeOK, ResetDone, queueVars, kbdDriverVars
<1>3. ControlOK'
  BY Zenon DEF ControlOK, ResetDone, queueVars, kbdDriverVars, Stopping
<1>4. QueueOK' /\ DeliveredOK'
  BY <1>1, QueueKept, DeliveredKept, Zenon
<1>5. InterruptOK'
  <2>1. ~(kbdState = "Ready" /\ pc \in {"idle", "notify"})
    BY <1>1, Zenon DEF ControlOK, Stopping
  <2> QED BY <1>1, <2>1, Zenon DEF InterruptOK, queue, BackCount
<1> QED BY <1>2, <1>3, <1>4, <1>5, Zenon

\* A buffer index is no Nil, and counts are natural numbers.
LEMMA Counts ==
  ASSUME KbdTypeOK
  PROVE  /\ LentCount \in Nat /\ BackCount \in Nat
         /\ LentCount < IndexSpan /\ BackCount < IndexSpan
         /\ Nil \notin Slots /\ Nil \notin Entries
<1>1. LentCount \in Index /\ BackCount \in Index
  BY DistCases, Zenon DEF KbdTypeOK, LentCount, BackCount
<1>2. Slots \subseteq Nat /\ Entries \subseteq [id : Nat, ok : BOOLEAN]
  BY Ring DEF Slots, Entries
<1>3. Nil \notin Slots /\ Nil \notin Entries
  BY <1>2, VirtioAssumption, Zenon
<1> QED BY <1>1, <1>3, Ring DEF Index

\* The first returned buffer goes to the handler.
LEMMA PopQueue ==
  ASSUME KbdInv, BuffersOK, KeysOK, pc = "pop", BackCount # 0, completed' = BackAt(0),
         last' = (last + 1) % IndexSpan, pc' = "deliver",
         UNCHANGED <<avail, ring, used, done, events, seen, keys, delivered>>
  PROVE  /\ BuffersOK' /\ KeysOK' /\ completed' \in Slots
         /\ events[completed'] \in {0, Len(delivered) + 1}
<1> USE DEF KbdInv
<1>1. last \in Index /\ used \in Index
  BY Zenon DEF KbdTypeOK
<1>2. /\ LentCount \in Nat /\ BackCount \in Nat /\ BackCount - 1 \in Nat /\ Nil \notin Slots
      /\ completed = Nil
  BY Counts DEF ControlOK
<1>3. LentCount' = LentCount /\ BackCount' = BackCount - 1
  <2>1. Dist((last + 1) % IndexSpan, used) = Dist(last, used) - 1
    BY <1>1, DistDown, Zenon DEF BackCount
  <2> QED BY <2>1, Zenon DEF LentCount, BackCount
<1>4. /\ 0 \in BackPlaces /\ LentPlaces' = LentPlaces
      /\ BackPlaces = 0 .. BackCount - 1 /\ BackPlaces' = 0 .. BackCount - 2
  BY <1>2, <1>3 DEF LentPlaces, BackPlaces
<1>5. ASSUME NEW j \in BackPlaces'
      PROVE  /\ j + 1 \in BackPlaces /\ j \in BackPlaces /\ 0 < j + 1
             /\ At(last', j) = At(last, j + 1)
             /\ BackAt(j)' = BackAt(j + 1) /\ KeyAt(j)' = KeyAt(j + 1)
  <2>1. j \in Nat /\ j + 1 \in BackPlaces /\ j \in BackPlaces /\ 0 < j + 1
    BY <1>2, <1>4
  <2>2. At(last', j) = At(last, j + 1)
    BY <1>1, <2>1, AtNext, Zenon
  <2>3. BackAt(j)' = BackAt(j + 1)
    BY <2>2, Zenon DEF BackAt
  <2> QED BY <2>1, <2>2, <2>3, Zenon DEF KeyAt
<1>6. \A j \in Nat : LentAt(j)' = LentAt(j)
  BY Zenon DEF LentAt
<1>7. BackAt(0) \in Slots
  <2>1. done[At(last, 0)] \in Entries
    BY <1>4, Zenon DEF BuffersOK
  <2> QED BY <2>1, Zenon DEF BackAt, Entries
<1>8. BuffersOK'
  <2>1. (LentCount + BackCount + (IF completed = Nil THEN 0 ELSE 1) = Size)'
    <3>1. LentCount + BackCount = Size
      BY <1>2, Ring DEF BuffersOK
    <3>2. completed' # Nil
      BY <1>2, <1>7, Zenon
    <3> QED BY <1>2, <1>3, <3>1, <3>2
  <2>2. (\A j \in LentPlaces : LentAt(j) \in Slots /\ LentAt(j) # completed)'
    BY <1>4, <1>6, Zenon DEF BuffersOK, LentAt
  <2>3. (\A j \in BackPlaces : done[At(last, j)] \in Entries /\ BackAt(j) # completed)'
    <3> SUFFICES ASSUME NEW j \in BackPlaces'
                 PROVE  done'[At(last', j)] \in Entries /\ BackAt(j)' # completed'
      BY Zenon
    <3>1. done'[At(last', j)] \in Entries
      BY <1>5, Zenon DEF BuffersOK
    <3>2. BackAt(j + 1) # BackAt(0)
      BY <1>4, <1>5 DEF BuffersOK
    <3> QED BY <1>5, <3>1, <3>2, Zenon
  <2>4. (\A j, k \in LentPlaces : LentAt(j) = LentAt(k) => j = k)'
    BY <1>4, <1>6, Zenon DEF BuffersOK, LentAt
  <2>5. (\A j, k \in BackPlaces : BackAt(j) = BackAt(k) => j = k)'
    <3> SUFFICES ASSUME NEW j \in BackPlaces', NEW k \in BackPlaces', BackAt(j)' = BackAt(k)'
                 PROVE  j = k
      BY Zenon
    <3>1. BackAt(j + 1) = BackAt(k + 1)
      BY <1>5, Zenon
    <3>2. j + 1 = k + 1
      BY <1>5, <3>1, Zenon DEF BuffersOK
    <3>3. j \in Nat /\ k \in Nat
      BY <1>4
    <3> QED BY <3>2, <3>3
  <2>6. (\A j \in LentPlaces, k \in BackPlaces : LentAt(j) # BackAt(k))'
    BY <1>4, <1>5, <1>6 DEF BuffersOK, LentAt
  <2> QED BY <2>1, <2>2, <2>3, <2>4, <2>5, <2>6, Zenon DEF BuffersOK
<1>9. KeyAt(0) = events[completed'] /\ Len(delivered) \in Nat /\ keys \in Nat /\ Before = Len(delivered)
  BY DEF KeyAt, Before, KbdTypeOK
<1>10. KeyAt(0) \in {0, Len(delivered) + 1}
  <2> SUFFICES ASSUME KeyAt(0) # 0 PROVE KeyAt(0) = Len(delivered) + 1
    BY Zenon
  <2>1. KeyAt(0) \in Before + 1 .. keys
    BY <1>4, Zenon DEF KeysOK
  <2>2. Before + 1 \in Before + 1 .. keys
    BY <1>9, <2>1
  <2>3. PICK j \in BackPlaces : KeyAt(j) = Before + 1
    BY <2>2, Zenon DEF KeysOK
  <2>4. j = 0 \/ (0 < j /\ KeyAt(j) # 0)
    BY <1>9, <2>3 DEF BackPlaces
  <2>5. j = 0 \/ KeyAt(0) < KeyAt(j)
    BY <1>4, <2>4, Zenon DEF KeysOK
  <2> QED BY <1>9, <2>1, <2>3, <2>5
<1>11. Before' = IF KeyAt(0) = 0 THEN Len(delivered) ELSE Len(delivered) + 1
  BY <1>9, Zenon DEF Before
<1>12. KeysOK'
  <2>1. (\A j \in BackPlaces : KeyAt(j) \in {0} \cup (Before + 1 .. keys))'
    <3> SUFFICES ASSUME NEW j \in BackPlaces', KeyAt(j)' # 0
                 PROVE  KeyAt(j)' \in Before' + 1 .. keys'
      BY Zenon
    <3>1. KeyAt(j + 1) \in Before + 1 .. keys /\ KeyAt(j + 1) # 0
      BY <1>5, Zenon DEF KeysOK
    <3>2. KeyAt(0) # 0 => KeyAt(0) < KeyAt(j + 1)
      BY <1>4, <1>5, <3>1, Zenon DEF KeysOK
    <3> QED BY <1>5, <1>9, <1>10, <1>11, <3>1, <3>2
  <2>2. (\A j, k \in BackPlaces : j < k /\ KeyAt(j) # 0 /\ KeyAt(k) # 0 => KeyAt(j) < KeyAt(k))'
    <3> SUFFICES ASSUME NEW j \in BackPlaces', NEW k \in BackPlaces', j < k, KeyAt(j)' # 0,
                        KeyAt(k)' # 0
                 PROVE  KeyAt(j)' < KeyAt(k)'
      BY Zenon
    <3>1. j + 1 < k + 1
      BY <1>4
    <3> QED BY <1>5, <3>1, Zenon DEF KeysOK
  <2>3. (\A n \in Before + 1 .. keys : \E j \in BackPlaces : KeyAt(j) = n)'
    <3> SUFFICES ASSUME NEW n \in Before' + 1 .. keys'
                 PROVE  \E j \in BackPlaces' : KeyAt(j)' = n
      BY Zenon
    <3>1. n \in Before + 1 .. keys /\ (KeyAt(0) # 0 => n # KeyAt(0)) /\ n # 0
      BY <1>9, <1>10, <1>11
    <3>2. PICK k \in BackPlaces : KeyAt(k) = n
      BY <3>1, Zenon DEF KeysOK
    <3>3. k # 0
      BY <3>1, <3>2, Zenon
    <3>4. k - 1 \in BackPlaces' /\ (k - 1) + 1 = k
      BY <1>2, <1>4, <3>3
    <3>5. KeyAt(k - 1)' = n
      BY <1>5, <3>2, <3>4, Zenon
    <3> QED BY <3>4, <3>5, Zenon
  <2>4. Before' <= keys'
    <3>1. KeyAt(0) # 0 => KeyAt(0) \in Before + 1 .. keys
      BY <1>4, Zenon DEF KeysOK
    <3> QED BY <1>9, <1>10, <1>11, <3>1 DEF KeysOK
  <2> QED BY <2>1, <2>2, <2>3, <2>4, Zenon DEF KeysOK
<1> QED BY <1>7, <1>8, <1>9, <1>10, <1>12, Zenon

LEMMA PopUsedInv == ASSUME KbdInv, PopUsed PROVE KbdInv'
<1> USE DEF KbdInv
<1>1. /\ pc = "pop" /\ status = "ok" /\ queueOn /\ size = Size /\ kbdState = "Ready"
      /\ completed = Nil /\ BackCount # 0
  BY Zenon DEF PopUsed, ControlOK, Handling, Stopping, Pending, BackCount, Dist
<1>2. /\ UNCHANGED <<avail, ring, used, done, events, seen, keys, delivered>>
      /\ UNCHANGED <<kbdState, mapped, enabled, size, status, queueOn, posted, isr, pressed>>
  BY Zenon DEF PopUsed, deviceVars
<1>3. last % size = At(last, 0) /\ last \in Index
  BY <1>1, Ring DEF At, KbdTypeOK, Index
<1>4. CASE pc' = "stop" /\ UNCHANGED <<last, completed>>
  <2>1. KbdTypeOK'
    BY <1>2, <1>4, Zenon DEF KbdTypeOK, Stopping
  <2>2. ControlOK'
    BY <1>1, <1>2, <1>4, Zenon DEF ControlOK, Preparing, Stopping, Handling
  <2>3. UNCHANGED queue
    BY <1>2, <1>4, Zenon DEF queue
  <2>4. QueueOK' /\ DeliveredOK'
    BY <1>1, <1>2, <1>4, <2>3, QueueKept, DeliveredKept, Zenon
  <2>5. InterruptOK'
    BY <1>4, Zenon DEF InterruptOK
  <2> QED BY <2>1, <2>2, <2>4, <2>5, Zenon
<1>5. CASE /\ done[At(last, 0)].ok /\ completed' = BackAt(0)
           /\ last' = (last + 1) % IndexSpan /\ pc' = "deliver"
  <2>1. ~Corrupted
    BY <1>3, <1>5, AtSlot, Zenon DEF Corrupted
  <2>2. BuffersOK /\ KeysOK
    BY <1>1, <2>1, Zenon DEF QueueOK
  <2>3. /\ BuffersOK' /\ KeysOK' /\ completed' \in Slots
        /\ events[completed'] \in {0, Len(delivered) + 1}
    BY <1>1, <1>2, <1>5, <2>2, PopQueue, Zenon
  <2>4. KbdTypeOK'
    BY <1>2, <1>3, <1>5, Advance, Zenon DEF KbdTypeOK, Handling
  <2>5. ControlOK'
    BY <1>1, <1>2, <1>5, <2>3, Zenon DEF ControlOK, Preparing, Stopping, Handling
  <2>6. DeliveredOK'
    BY <1>2, <2>3, Zenon DEF DeliveredOK
  <2>7. InterruptOK'
    BY <1>5, Zenon DEF InterruptOK
  <2> QED BY <2>3, <2>4, <2>5, <2>6, <2>7, Zenon DEF QueueOK
<1>6. \/ pc' = "stop" /\ UNCHANGED <<last, completed>>
      \/ /\ done[At(last, 0)].ok /\ completed' = BackAt(0)
         /\ last' = (last + 1) % IndexSpan /\ pc' = "deliver"
  BY <1>3, Zenon DEF PopUsed, BackAt
<1> QED BY <1>4, <1>5, <1>6, Zenon

LEMMA DeliverInv == ASSUME KbdInv, Deliver PROVE KbdInv'
<1> USE DEF KbdInv
<1> DEFINE key == events[completed]
<1>1. /\ pc = "deliver" /\ pc' = "submit" /\ status = "ok" /\ completed \in Slots
      /\ UNCHANGED <<last, avail, ring, used, done, events, seen, keys, completed>>
      /\ UNCHANGED <<status, pressed, kbdState>>
  BY Zenon DEF Deliver, deviceVars, queueVars, ControlOK, Handling, Stopping
<1>2. /\ delivered' = IF key = 0 THEN delivered ELSE Append(delivered, key)
      /\ key \in {0, Len(delivered) + 1} /\ delivered \in Seq(Nat) /\ Len(delivered) \in Nat
  BY <1>1 DEF Deliver, DeliveredOK, KbdTypeOK
<1>3. /\ delivered' \in Seq(Nat)
      /\ \A i \in 1 .. Len(delivered') : delivered'[i] = i
      /\ Len(delivered') = Len(delivered) + (IF key = 0 THEN 0 ELSE 1)
  <2>1. CASE key = 0
    BY <1>2, <2>1 DEF DeliveredOK
  <2>2. CASE key = Len(delivered) + 1 /\ key # 0
    BY <1>2, <2>2 DEF DeliveredOK
  <2> QED BY <1>2, <2>1, <2>2, Zenon
<1>4. KbdTypeOK'
  BY <1>3, Zenon DEF KbdTypeOK, Deliver, queueVars, deviceVars, Handling
<1>5. ControlOK'
  BY Zenon DEF ControlOK, Deliver, queueVars, deviceVars, Preparing, Stopping, Handling
<1>6. Before' = Before
  BY <1>1, <1>3 DEF Before
<1>7. Corrupted' = Corrupted
  BY <1>1, Zenon DEF Corrupted
<1>8. BuffersOK' = BuffersOK
  BY <1>1 DEF BuffersOK, LentAt, BackAt, LentCount, BackCount, LentPlaces, BackPlaces
<1>9. KeysOK' = KeysOK
  BY <1>1, <1>6, Zenon DEF KeysOK, KeyAt, BackAt, BackCount, BackPlaces
<1>10. QueueOK'
  BY <1>1, <1>7, <1>8, <1>9, Zenon DEF QueueOK
<1>11. DeliveredOK' /\ InterruptOK'
  BY <1>1, <1>3, Zenon DEF DeliveredOK, InterruptOK
<1> QED BY <1>4, <1>5, <1>10, <1>11, Zenon

\* The buffer in the handler's hands is lent again.
LEMMA SubmitQueue ==
  ASSUME KbdInv, BuffersOK, KeysOK, pc = "submit", completed \in Slots, pc' = "pop",
         ring' = [ring EXCEPT ![avail % Size] = completed], avail' = (avail + 1) % IndexSpan,
         completed' = Nil, UNCHANGED <<last, used, done, events, seen, keys, delivered>>
  PROVE  BuffersOK' /\ KeysOK'
<1> USE DEF KbdInv
<1>1. seen \in Index /\ avail \in Index /\ ring \in [Slots -> Slots \cup {Nil}]
  BY Zenon DEF KbdTypeOK
<1>2. /\ LentCount \in Nat /\ BackCount \in Nat /\ Nil \notin Slots /\ Nil \notin Entries
      /\ LentCount + BackCount + 1 = Size /\ LentCount < Size
  <2>1. completed # Nil
    BY Counts, Zenon
  <2> QED BY <2>1, Counts, Ring DEF BuffersOK
<1>3. LentCount' = LentCount + 1 /\ BackCount' = BackCount
  <2>1. Dist(seen, avail) + 1 < IndexSpan
    BY <1>2, Ring DEF LentCount
  <2>2. Dist(seen, (avail + 1) % IndexSpan) = Dist(seen, avail) + 1
    BY <1>1, <2>1, DistUp, Zenon
  <2> QED BY <2>2, Zenon DEF LentCount, BackCount
<1>4. /\ LentPlaces = 0 .. LentCount - 1 /\ LentPlaces' = 0 .. LentCount
      /\ BackPlaces' = BackPlaces
  BY <1>2, <1>3 DEF LentPlaces, BackPlaces
<1>5. PICK n \in Nat : n = LentCount
  BY <1>2, Zenon
<1>6. LentAt(n)' = completed
  <2>1. avail % Size = At(seen, n)
    BY <1>1, <1>5, AtEnd, Zenon DEF LentCount
  <2>2. At(seen, n) \in Slots
    BY <1>1, <1>2, AtSlot, Zenon
  <2>3. ring'[At(seen, n)] = completed
    BY <1>1, <2>1, <2>2, Zenon
  <2> QED BY <2>3, Zenon DEF LentAt
<1>7. ASSUME NEW j \in LentPlaces PROVE LentAt(j)' = LentAt(j) /\ j # n
  <2>1. avail % Size = At(seen, n)
    BY <1>1, <1>5, AtEnd, Zenon DEF LentCount
  <2>2. j \in 0 .. Size - 1 /\ n \in 0 .. Size - 1 /\ j # n /\ j \in Nat
    BY <1>2, <1>4, <1>5, Ring
  <2>3. At(seen, j) # At(seen, n) /\ At(seen, j) \in Slots
    BY <1>1, <2>2, AtApart, AtSlot, Zenon
  <2>4. ring'[At(seen, j)] = ring[At(seen, j)]
    BY <1>1, <2>1, <2>3, Zenon
  <2> QED BY <2>2, <2>4, Zenon DEF LentAt
<1>8. LentPlaces' = LentPlaces \cup {n}
  BY <1>2, <1>4, <1>5
<1>9. \A j \in BackPlaces : BackAt(j)' = BackAt(j) /\ KeyAt(j)' = KeyAt(j)
  BY Zenon DEF BackAt, KeyAt
<1>10. BuffersOK'
  <2>1. (LentCount + BackCount + (IF completed = Nil THEN 0 ELSE 1) = Size)'
    BY <1>2, <1>3
  <2>2. (\A j \in LentPlaces : LentAt(j) \in Slots /\ LentAt(j) # completed)'
    BY <1>2, <1>6, <1>7, <1>8, Zenon DEF BuffersOK
  <2>3. (\A j \in BackPlaces : done[At(last, j)] \in Entries /\ BackAt(j) # completed)'
    <3>1. \A j \in BackPlaces : done[At(last, j)] \in Entries
      BY Zenon DEF BuffersOK
    <3>2. \A j \in BackPlaces : BackAt(j) \in Slots
      BY <3>1, Zenon DEF BackAt, Entries
    <3> QED BY <1>2, <1>4, <1>9, <3>1, <3>2, Zenon
  <2>4. (\A j, k \in LentPlaces : LentAt(j) = LentAt(k) => j = k)'
    BY <1>6, <1>7, <1>8 DEF BuffersOK
  <2>5. (\A j, k \in BackPlaces : BackAt(j) = BackAt(k) => j = k)'
    BY <1>4, <1>9 DEF BuffersOK
  <2>6. (\A j \in LentPlaces, k \in BackPlaces : LentAt(j) # BackAt(k))'
    BY <1>4, <1>6, <1>7, <1>8, <1>9 DEF BuffersOK
  <2> QED BY <2>1, <2>2, <2>3, <2>4, <2>5, <2>6, Zenon DEF BuffersOK
<1>11. KeysOK'
  <2>1. Before' = Before
    BY Zenon DEF Before
  <2> QED BY <1>4, <1>9, <2>1, Zenon DEF KeysOK
<1> QED BY <1>10, <1>11, Zenon

LEMMA SubmitInv == ASSUME KbdInv, Submit PROVE KbdInv'
<1> USE DEF KbdInv
<1>1. /\ pc = "submit" /\ status = "ok" /\ size = Size /\ completed \in Slots /\ pc' = "pop"
      /\ ring' = [ring EXCEPT ![avail % Size] = completed] /\ avail' = (avail + 1) % IndexSpan
      /\ completed' = Nil
  BY Zenon DEF Submit, ControlOK, Handling, Stopping
<1>2. /\ UNCHANGED <<last, used, done, events, seen, keys, delivered>>
      /\ UNCHANGED <<kbdState, mapped, enabled, size, status, queueOn, posted, isr, pressed>>
  BY Zenon DEF Submit, deviceVars
<1>3. KbdTypeOK'
  <2>1. avail % Size \in Slots /\ avail' \in Index
    BY <1>1, IndexSlot, Advance, Zenon DEF KbdTypeOK
  <2>2. ring' \in [Slots -> Slots \cup {Nil}]
    BY <1>1, <2>1, Zenon DEF KbdTypeOK
  <2> QED BY <1>1, <1>2, <2>1, <2>2, Zenon DEF KbdTypeOK, Handling
<1>4. ControlOK'
  BY <1>1, <1>2, Zenon DEF ControlOK, Preparing, Stopping, Handling
<1>5. QueueOK'
  <2>1. CASE Corrupted
    BY <1>2, <2>1, Zenon DEF Corrupted, QueueOK
  <2>2. CASE BuffersOK /\ KeysOK
    BY <1>1, <1>2, <2>2, SubmitQueue, Zenon DEF QueueOK
  <2> QED BY <1>1, <2>1, <2>2, Zenon DEF QueueOK
<1>6. DeliveredOK' /\ InterruptOK'
  BY <1>1, <1>2, Zenon DEF DeliveredOK, InterruptOK
<1> QED BY <1>3, <1>4, <1>5, <1>6, Zenon

(***************************************************************************)
(* The device                                                              *)
(***************************************************************************)

LEMMA CorruptInv == ASSUME KbdInv, Corrupt PROVE KbdInv'
<1> USE DEF KbdInv
<1>1. /\ UNCHANGED <<kbdState, pc, mapped, enabled, size, last, avail, ring, completed, delivered>>
      /\ UNCHANGED <<events, status, queueOn, seen, keys, isr>>
      /\ posted' = TRUE /\ pressed' = MaxEvents /\ status = "ok"
      /\ done' = [i \in Slots |-> [id |-> 0, ok |-> FALSE]]
  BY Zenon DEF Corrupt, kbdDriverVars, queueVars
<1>2. [id |-> 0, ok |-> FALSE] \in Entries
  BY Ring DEF Entries, Slots
<1>3. Corrupted'
  BY <1>1, <1>2, Zenon DEF Corrupted
<1>4. KbdTypeOK'
  <2>1. used' \in Index
    BY Ring, ModType DEF Corrupt, KbdTypeOK, Index
  <2> QED BY <1>1, <1>2, <2>1, Ring, Zenon DEF KbdTypeOK
<1>5. ControlOK'
  BY <1>1, Zenon DEF ControlOK
<1>6. QueueOK'
  BY <1>3, Zenon DEF QueueOK
<1>7. DeliveredOK'
  BY <1>1, Zenon DEF DeliveredOK
<1>8. InterruptOK'
  BY <1>1, Zenon DEF InterruptOK, ControlOK
<1> QED BY <1>4, <1>5, <1>6, <1>7, <1>8, Zenon

\* The first buffer lent comes back, with the next key or with another event.
LEMMA PressQueue ==
  ASSUME KbdInv, BuffersOK, KeysOK, LentCount # 0, NEW ok \in BOOLEAN,
         NEW id, id = LentAt(0),
         \/ events' = [events EXCEPT ![id] = keys + 1] /\ keys' = keys + 1
         \/ events' = [events EXCEPT ![id] = 0] /\ keys' = keys,
         done' = [done EXCEPT ![used % Size] = [id |-> id, ok |-> ok]],
         seen' = (seen + 1) % IndexSpan, used' = (used + 1) % IndexSpan,
         UNCHANGED <<pc, last, avail, ring, completed, delivered>>
  PROVE  /\ BuffersOK' /\ KeysOK' /\ id \in Slots
         /\ pc = "deliver" => events'[completed] = events[completed]
<1> USE DEF KbdInv
<1>1. /\ seen \in Index /\ avail \in Index /\ last \in Index /\ used \in Index /\ keys \in Nat
      /\ done \in [Slots -> Entries \cup {Nil}] /\ events \in [Slots -> Nat \cup {Nil}]
      /\ Len(delivered) \in Nat
  BY DEF KbdTypeOK
<1>2. /\ LentCount \in Nat /\ BackCount \in Nat /\ LentCount - 1 \in Nat /\ BackCount < Size
      /\ LentCount + BackCount + (IF completed = Nil THEN 0 ELSE 1) = Size
  <2>1. LentCount \in Nat /\ BackCount \in Nat
    BY Counts, Zenon
  <2>2. LentCount + BackCount + (IF completed = Nil THEN 0 ELSE 1) = Size
    BY Zenon DEF BuffersOK
  <2>3. CASE completed = Nil
    BY <2>1, <2>2, <2>3, Ring
  <2>4. CASE completed # Nil
    BY <2>1, <2>2, <2>4, Ring
  <2> QED BY <2>3, <2>4, Zenon
<1>3. LentCount' = LentCount - 1 /\ BackCount' = BackCount + 1
  <2>1. Dist((seen + 1) % IndexSpan, avail) = Dist(seen, avail) - 1
    BY <1>1, DistDown, Zenon DEF LentCount
  <2>2. Dist(last, used) + 1 < IndexSpan
    BY <1>2, Ring DEF BackCount
  <2>3. Dist(last, (used + 1) % IndexSpan) = Dist(last, used) + 1
    BY <1>1, <2>2, DistUp, Zenon
  <2> QED BY <2>1, <2>3, Zenon DEF LentCount, BackCount
<1>4. PICK n \in Nat : n = BackCount
  BY <1>2, Zenon
<1>5. /\ LentPlaces = 0 .. LentCount - 1 /\ LentPlaces' = 0 .. LentCount - 2
      /\ BackPlaces = 0 .. n - 1 /\ BackPlaces' = BackPlaces \cup {n} /\ 0 \in LentPlaces
      /\ n \notin BackPlaces
  <2>1. BackPlaces' = 0 .. n /\ BackPlaces = 0 .. n - 1
    BY <1>2, <1>3, <1>4 DEF BackPlaces
  <2>2. 0 .. n = (0 .. n - 1) \cup {n} /\ n \notin 0 .. n - 1
    OBVIOUS
  <2>3. LentPlaces = 0 .. LentCount - 1 /\ LentPlaces' = 0 .. LentCount - 2 /\ 0 \in LentPlaces
    BY <1>2, <1>3 DEF LentPlaces
  <2> QED BY <2>1, <2>2, <2>3, Zenon
<1>6. id \in Slots /\ id # completed /\ \A j \in BackPlaces : BackAt(j) # id
  BY <1>5, Zenon DEF BuffersOK
<1>7. ASSUME NEW j \in LentPlaces'
      PROVE  /\ j + 1 \in LentPlaces /\ j \in LentPlaces /\ j \in Nat /\ 0 # j + 1
             /\ LentAt(j)' = LentAt(j + 1)
  <2>1. j \in Nat /\ j + 1 \in LentPlaces /\ j \in LentPlaces /\ 0 # j + 1
    BY <1>2, <1>5
  <2>2. At(seen', j) = At(seen, j + 1)
    BY <1>1, <2>1, AtNext, Zenon
  <2>3. LentAt(j)' = LentAt(j + 1)
    BY <2>2, Zenon DEF LentAt
  <2> QED BY <2>1, <2>3, Zenon
<1>8. used % Size = At(last, n) /\ At(last, n) \in Slots
  BY <1>1, <1>4, AtEnd, AtSlot, Zenon DEF BackCount
<1>9. [id |-> id, ok |-> ok] \in Entries
  BY <1>6, Zenon DEF Entries
<1>10. /\ done'[At(last, n)] = [id |-> id, ok |-> ok]
       /\ BackAt(n)' = id /\ KeyAt(n)' \in {0, keys + 1} /\ (KeyAt(n)' # 0 => keys' = keys + 1)
       /\ (keys' = keys \/ (keys' = keys + 1 /\ KeyAt(n)' = keys + 1))
  <2>1. done'[At(last, n)] = [id |-> id, ok |-> ok]
    BY <1>1, <1>8, Zenon
  <2>2. BackAt(n)' = id
    BY <2>1 DEF BackAt
  <2>3. KeyAt(n)' = events'[id]
    BY <2>2, Zenon DEF KeyAt
  <2> QED BY <1>1, <1>6, <2>1, <2>2, <2>3, Zenon
<1>11. ASSUME NEW j \in BackPlaces
       PROVE  /\ done'[At(last, j)] = done[At(last, j)] /\ done[At(last, j)] \in Entries
              /\ BackAt(j)' = BackAt(j) /\ KeyAt(j)' = KeyAt(j) /\ BackAt(j) \in Slots
  <2>1. j \in 0 .. Size - 1 /\ n \in 0 .. Size - 1 /\ j # n /\ j \in Nat
    BY <1>2, <1>4, <1>5, Ring
  <2>2. At(last, j) # At(last, n) /\ At(last, j) \in Slots
    BY <1>1, <2>1, AtApart, AtSlot, Zenon
  <2>3. done'[At(last, j)] = done[At(last, j)] /\ done[At(last, j)] \in Entries
    BY <1>1, <1>8, <2>2, Zenon DEF BuffersOK
  <2>4. BackAt(j)' = BackAt(j) /\ BackAt(j) \in Slots
    BY <2>3, Zenon DEF BackAt, Entries
  <2>5. events'[BackAt(j)] = events[BackAt(j)]
    BY <1>1, <1>6, <2>4, Zenon
  <2> QED BY <2>3, <2>4, <2>5, Zenon DEF KeyAt
<1>12. BuffersOK'
  <2>1. (LentCount + BackCount + (IF completed = Nil THEN 0 ELSE 1) = Size)'
    BY <1>2, <1>3
  <2>2. (\A j \in LentPlaces : LentAt(j) \in Slots /\ LentAt(j) # completed)'
    BY <1>7, Zenon DEF BuffersOK
  <2>3. (\A j \in BackPlaces : done[At(last, j)] \in Entries /\ BackAt(j) # completed)'
    BY <1>5, <1>6, <1>9, <1>10, <1>11 DEF BuffersOK
  <2>4. (\A j, k \in LentPlaces : LentAt(j) = LentAt(k) => j = k)'
    <3> SUFFICES ASSUME NEW j \in LentPlaces', NEW k \in LentPlaces', LentAt(j)' = LentAt(k)'
                 PROVE  j = k
      BY Zenon
    <3>1. j + 1 = k + 1
      BY <1>7, Zenon DEF BuffersOK
    <3> QED BY <1>7, <3>1
  <2>5. (\A j, k \in BackPlaces : BackAt(j) = BackAt(k) => j = k)'
    BY <1>5, <1>6, <1>10, <1>11 DEF BuffersOK
  <2>6. (\A j \in LentPlaces, k \in BackPlaces : LentAt(j) # BackAt(k))'
    <3> SUFFICES ASSUME NEW j \in LentPlaces', NEW k \in BackPlaces'
                 PROVE  LentAt(j)' # BackAt(k)'
      BY Zenon
    <3>1. CASE k = n
      BY <1>5, <1>7, <1>10, <3>1 DEF BuffersOK
    <3>2. CASE k \in BackPlaces
      BY <1>7, <1>11, <3>2 DEF BuffersOK
    <3> QED BY <1>5, <3>1, <3>2, Zenon
  <2> QED BY <2>1, <2>2, <2>3, <2>4, <2>5, <2>6, Zenon DEF BuffersOK
<1>13. pc = "deliver" => completed \in Slots /\ events'[completed] = events[completed]
  BY <1>1, <1>6, Zenon DEF ControlOK
<1>14. Before' = Before /\ Before \in Nat
  BY <1>1, <1>13 DEF Before
<1>15. KeysOK'
  <2>1. (\A j \in BackPlaces : KeyAt(j) \in {0} \cup (Before + 1 .. keys))'
    <3> SUFFICES ASSUME NEW j \in BackPlaces', KeyAt(j)' # 0
                 PROVE  KeyAt(j)' \in Before' + 1 .. keys'
      BY Zenon
    <3>1. CASE j = n
      <4>1. KeyAt(n)' = keys + 1 /\ keys' = keys + 1
        BY <1>10, <3>1, Zenon
      <4>2. Before <= keys
        BY Zenon DEF KeysOK
      <4> QED BY <1>1, <1>14, <3>1, <4>1, <4>2
    <3>2. CASE j \in BackPlaces
      <4>1. KeyAt(j) \in Before + 1 .. keys
        BY <1>11, <3>2, Zenon DEF KeysOK
      <4> QED BY <1>1, <1>10, <1>11, <1>14, <3>2, <4>1
    <3> QED BY <1>5, <3>1, <3>2, Zenon
  <2>2. (\A j, k \in BackPlaces : j < k /\ KeyAt(j) # 0 /\ KeyAt(k) # 0 => KeyAt(j) < KeyAt(k))'
    <3> SUFFICES ASSUME NEW j \in BackPlaces', NEW k \in BackPlaces', j < k, KeyAt(j)' # 0,
                        KeyAt(k)' # 0
                 PROVE  KeyAt(j)' < KeyAt(k)'
      BY Zenon
    <3>1. j \in BackPlaces /\ KeyAt(j)' = KeyAt(j)
      BY <1>5, <1>11
    <3>2. CASE k = n
      <4>1. KeyAt(n)' = keys + 1
        BY <1>10, <3>2, Zenon
      <4>2. KeyAt(j) \in Before + 1 .. keys
        BY <3>1, Zenon DEF KeysOK
      <4> QED BY <1>1, <1>14, <3>1, <3>2, <4>1, <4>2
    <3>3. CASE k \in BackPlaces
      BY <1>11, <3>1, <3>3, Zenon DEF KeysOK
    <3> QED BY <1>5, <3>2, <3>3, Zenon
  <2>3. (\A m \in Before + 1 .. keys : \E j \in BackPlaces : KeyAt(j) = m)'
    <3> SUFFICES ASSUME NEW m \in Before' + 1 .. keys'
                 PROVE  \E j \in BackPlaces' : KeyAt(j)' = m
      BY Zenon
    <3>1. CASE m \in Before + 1 .. keys
      <4>1. PICK j \in BackPlaces : KeyAt(j) = m
        BY <3>1, Zenon DEF KeysOK
      <4> QED BY <1>5, <1>11, <4>1, Zenon
    <3>2. CASE m \notin Before + 1 .. keys
      <4>1. m = keys + 1 /\ KeyAt(n)' = keys + 1
        BY <1>1, <1>10, <1>14, <3>2
      <4> QED BY <1>5, <4>1, Zenon
    <3> QED BY <3>1, <3>2, Zenon
  <2>4. Before' <= keys'
    BY <1>1, <1>10, <1>14 DEF KeysOK
  <2> QED BY <2>1, <2>2, <2>3, <2>4, Zenon DEF KeysOK
<1> QED BY <1>6, <1>12, <1>13, <1>15, Zenon

LEMMA PressInv == ASSUME KbdInv, Press PROVE KbdInv'
<1> USE DEF KbdInv
<1>1. /\ status = "ok" /\ pressed < MaxEvents /\ seen # avail
      /\ seen' = (seen + 1) % IndexSpan /\ used' = (used + 1) % IndexSpan
      /\ pressed' = pressed + 1 /\ posted' = TRUE
      /\ UNCHANGED <<pc, last, avail, ring, completed, delivered>>
      /\ UNCHANGED <<kbdState, mapped, enabled, size, status, queueOn, isr>>
  BY Zenon DEF Press, kbdDriverVars, queueVars
<1>2. BuffersOK /\ KeysOK
  <2>1. pressed # MaxEvents
    BY <1>1, Ring DEF KbdTypeOK
  <2> QED BY <1>1, <2>1, Zenon DEF QueueOK, Corrupted
<1>3. /\ seen \in Index /\ avail \in Index /\ used \in Index /\ keys \in Nat /\ pressed \in Nat
      /\ done \in [Slots -> Entries \cup {Nil}] /\ events \in [Slots -> Nat \cup {Nil}]
  BY Zenon DEF KbdTypeOK
<1>4. LentCount # 0
  <2>1. LentCount = IF seen <= avail THEN avail - seen ELSE avail + IndexSpan - seen
    BY <1>3, DistCases, Zenon DEF LentCount
  <2> QED BY <1>1, <1>3, <2>1, Ring DEF Index
<1>5. LentAt(0) = ring[seen % Size]
  BY <1>3, Ring DEF LentAt, At, Index
<1>6. PICK id : id = LentAt(0)
  BY Zenon
<1>7. PICK ok \in BOOLEAN :
        /\ \/ events' = [events EXCEPT ![id] = keys + 1] /\ keys' = keys + 1
           \/ events' = [events EXCEPT ![id] = 0] /\ keys' = keys
        /\ done' = [done EXCEPT ![used % Size] = [id |-> id, ok |-> ok]]
  BY <1>5, <1>6, Zenon DEF Press
<1>8. /\ BuffersOK' /\ KeysOK' /\ id \in Slots
      /\ pc = "deliver" => events'[completed] = events[completed]
  BY <1>1, <1>2, <1>4, <1>6, <1>7, PressQueue, Zenon
<1>9. KbdTypeOK'
  <2>1. used % Size \in Slots /\ seen' \in Index /\ used' \in Index
    BY <1>1, <1>3, IndexSlot, Advance, Zenon
  <2>2. [id |-> id, ok |-> ok] \in Entries
    BY <1>8, Zenon DEF Entries
  <2>3. done' \in [Slots -> Entries \cup {Nil}]
    BY <1>3, <1>7, <2>1, <2>2, Zenon
  <2>4. events' \in [Slots -> Nat \cup {Nil}] /\ keys' \in Nat /\ pressed' \in Nat
    BY <1>1, <1>3, <1>7
  <2> QED BY <1>1, <2>1, <2>3, <2>4, Zenon DEF KbdTypeOK
<1>10. ControlOK'
  BY <1>1, Zenon DEF ControlOK
<1>11. QueueOK'
  BY <1>8, Zenon DEF QueueOK
<1>12. DeliveredOK'
  BY <1>1, <1>8, Zenon DEF DeliveredOK
<1>13. InterruptOK'
  BY <1>1, Zenon DEF InterruptOK, ControlOK
<1> QED BY <1>9, <1>10, <1>11, <1>12, <1>13, Zenon

LEMMA KbdStutterInv == ASSUME KbdInv, UNCHANGED kbdVars PROVE KbdInv'
<1> USE DEF KbdInv
<1>1. /\ UNCHANGED queue /\ UNCHANGED <<kbdState, pc, mapped, enabled, size, status, queueOn>>
      /\ UNCHANGED <<posted, isr, pressed>>
  BY Zenon DEF kbdVars, kbdDriverVars, queueVars, deviceVars, queue
<1>2. KbdTypeOK' /\ ControlOK'
  BY <1>1 DEF queue, KbdTypeOK, ControlOK
<1>3. QueueOK' /\ DeliveredOK'
  BY <1>1, QueueKept, DeliveredKept, Zenon
<1>4. InterruptOK'
  BY <1>1, Zenon DEF InterruptOK, queue, BackCount
<1> QED BY <1>2, <1>3, <1>4, Zenon

LEMMA KbdNextInv == KbdInv /\ [KbdNext]_kbdVars => KbdInv'
BY StartInv, PrepareFailsInv, InitializeInv, AwaitResetInv, NegotiateInv, AllocateInv,
   GoReadyInv, StopInv, StoppedInv, ResetTimeoutInv, IntrInv, PopUsedInv, DeliverInv,
   SubmitInv, DrainedInv, NotifyInv, PressInv, RaiseInv, ResetDoneInv, CorruptInv,
   KbdStutterInv, Zenon DEF KbdNext

LEMMA OwnedOnce ==
  ASSUME KbdInv, kbdState = "Ready", Healthy, pc # "stop", pc # "awaitStop"
  PROVE  /\ Len(Lent) + Len(Returned) + (IF completed = Nil THEN 0 ELSE 1) = Size
         /\ Disjoint(Lent, Returned)
         /\ Disjoint(Lent, <<completed>>) /\ Disjoint(Returned, <<completed>>)
         /\ \A i, j \in DOMAIN Lent : Lent[i] = Lent[j] => i = j
<1> USE DEF KbdInv
<1>1. BuffersOK
  <2>1. 0 \in Slots
    BY Ring DEF Slots
  <2>2. ~Corrupted
    BY <2>1, Counts, Zenon DEF Healthy, Corrupted
  <2> QED BY <2>2, Zenon DEF QueueOK, ControlOK, Stopping
<1>2. /\ LentCount \in Nat /\ BackCount \in Nat /\ Nil \notin Slots
      /\ seen \in Nat /\ last \in Nat
  BY Counts, Ring DEF KbdTypeOK, Index
<1>3. DOMAIN Lent = 1 .. LentCount /\ DOMAIN Returned = 1 .. BackCount
  BY Zenon DEF Lent, Returned, LentCount, BackCount, Dist, Pending
<1>4. Len(Lent) = LentCount /\ Len(Returned) = BackCount
  BY <1>2, <1>3
<1>5. ASSUME NEW k \in 1 .. LentCount PROVE k - 1 \in LentPlaces /\ Lent[k] = LentAt(k - 1)
  <2>1. k - 1 \in LentPlaces
    BY <1>2 DEF LentPlaces
  <2>2. Lent[k] = ring[(seen + k - 1) % Size]
    BY Zenon DEF Lent, LentCount, Dist
  <2>3. seen + k - 1 = seen + (k - 1)
    BY <1>2, Zenon
  <2> QED BY <2>1, <2>2, <2>3, Zenon DEF LentAt, At
<1>6. ASSUME NEW k \in 1 .. BackCount PROVE k - 1 \in BackPlaces /\ Returned[k] = BackAt(k - 1)
  <2>1. k - 1 \in BackPlaces
    BY <1>2 DEF BackPlaces
  <2>2. Returned[k] = done[(last + k - 1) % Size].id
    BY Zenon DEF Returned, Pending, BackCount, Dist
  <2>3. last + k - 1 = last + (k - 1)
    BY <1>2, Zenon
  <2> QED BY <2>1, <2>2, <2>3, Zenon DEF BackAt, At
<1>7. Disjoint(Lent, Returned)
  <2> SUFFICES ASSUME NEW i \in 1 .. LentCount, NEW j \in 1 .. BackCount
               PROVE  Lent[i] # Returned[j]
    BY <1>3, Zenon DEF Disjoint
  <2>1. i - 1 \in LentPlaces /\ j - 1 \in BackPlaces
    BY <1>5, <1>6, Zenon
  <2>2. LentAt(i - 1) # BackAt(j - 1)
    BY <1>1, <2>1, Zenon DEF BuffersOK
  <2> QED BY <1>5, <1>6, <2>2, Zenon
<1>8. Disjoint(Lent, <<completed>>)
  <2>1. ASSUME NEW i \in 1 .. LentCount PROVE Lent[i] # completed
    <3>1. i - 1 \in LentPlaces /\ Lent[i] = LentAt(i - 1)
      BY <1>5, Zenon
    <3>2. LentAt(i - 1) # completed
      BY <1>1, <3>1, Zenon DEF BuffersOK
    <3> QED BY <3>1, <3>2, Zenon
  <2> QED BY <1>3, <2>1 DEF Disjoint
<1>9. Disjoint(Returned, <<completed>>)
  <2>1. ASSUME NEW i \in 1 .. BackCount PROVE Returned[i] # completed
    <3>1. i - 1 \in BackPlaces /\ Returned[i] = BackAt(i - 1)
      BY <1>6, Zenon
    <3>2. BackAt(i - 1) # completed
      BY <1>1, <3>1, Zenon DEF BuffersOK
    <3> QED BY <3>1, <3>2, Zenon
  <2> QED BY <1>3, <2>1 DEF Disjoint
<1>10. \A i, j \in DOMAIN Lent : Lent[i] = Lent[j] => i = j
  <2> SUFFICES ASSUME NEW i \in 1 .. LentCount, NEW j \in 1 .. LentCount, Lent[i] = Lent[j]
               PROVE  i = j
    BY <1>3, Zenon
  <2>1. i - 1 = j - 1
    BY <1>1, <1>5, Zenon DEF BuffersOK
  <2> QED BY <1>2, <2>1
<1> QED BY <1>1, <1>4, <1>7, <1>8, <1>9, <1>10, Zenon DEF BuffersOK

LEMMA KbdInvExact == KbdInv => KeyboardExact
<1> SUFFICES ASSUME KbdInv PROVE KeyboardExact
  BY Zenon
<1>1. DmaOwned
  <2>1. queueOn => size = Size /\ mapped /\ enabled
    BY Zenon DEF KbdInv, ControlOK
  <2> QED BY <2>1, OwnedOnce, Zenon DEF DmaOwned
<1>2. KeysDelivered
  <2>1. \A i \in DOMAIN delivered : delivered[i] = i
    BY DEF KbdInv, DeliveredOK, KbdTypeOK
  <2>2. kbdState = "Ready" /\ pc = "idle" /\ Pending # 0 => isr \/ posted
    BY Zenon DEF KbdInv, InterruptOK, BackCount, Dist, Pending
  <2> QED BY <2>1, <2>2, Zenon DEF KeysDelivered
<1> QED BY <1>1, <1>2, Zenon DEF KeyboardExact

(* Keyboard::start, stop and intr with SplitQueue and PciTransport, for    *)
(* every size of the queue that divides the span of the ring indexes, and  *)
(* a device that may press keys, answer wrongly or never finish a reset at *)
(* any moment: memory the device may write is never taken back, an event   *)
(* buffer belongs to one side at a time, keys arrive once and in order,    *)
(* and none is left on the used ring without an interrupt.                 *)
THEOREM KeyboardSafe == KbdSpec => []KeyboardExact
<1>1. KbdInit => KbdInv
  BY KbdInitInv, Zenon
<1>2. KbdInv /\ [KbdNext]_kbdVars => KbdInv'
  BY KbdNextInv, Zenon
<1>3. KbdInv => KeyboardExact
  BY KbdInvExact, Zenon
<1> QED BY <1>1, <1>2, <1>3, PTL DEF KbdSpec
=============================================================================
