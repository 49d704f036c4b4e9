-------------------------------- MODULE Ahci --------------------------------
(***************************************************************************)
(* arch/x86/kernel/drivers/ahci.cpp: one SATA disk behind an AHCI port.    *)
(* AhciDevice::detect, read, write and shutdown run under io_mutex_, use   *)
(* command slot 0 and move data through the bounce buffer dma_buf_.  The   *)
(* port's DMA engine runs beside them: it moves the sectors of the command *)
(* one by one, may fail, may be late, and may not stop when it is told to. *)
(***************************************************************************)
EXTENDS Naturals, FiniteSetsExt

CONSTANTS
  Tasks, Probe, None, Blank,
  Calls,       \* the requests tasks make: [write, first, count]
  Sectors,     \* the sectors of the disk, 0 .. n
  MaxSectors,  \* MAX_SECTORS: the bounce buffer
  MaxInits     \* bound: calls of detect

Steps ==
  {"stop", "stopCR", "stopFR", "issue", "wait", "loop", "halt", "haltCR", "haltFR", "stuck"}

ASSUME AhciAssumption ==
  /\ Max(Sectors) \in Nat /\ Sectors = 0 .. Max(Sectors)
  /\ Calls \subseteq [write : BOOLEAN, first : Nat, count : Nat]
  /\ {MaxSectors, MaxInits} \subseteq Nat \ {0}
  /\ None \notin Tasks \cup {Probe, Blank} /\ None \notin Calls /\ None \notin Steps
  /\ None \notin [write : BOOLEAN, range : SUBSET Sectors]
  /\ Probe \notin Tasks

VARIABLES
  state, attached, configured, blocks,  \* state_, port_base_ # 0,
                                        \* memory_configured_, block_count
  owner, step, at,   \* the holder of io_mutex_, its step, sectors it has moved
  inits, published,
  call, buf,
  st, cr, fre, fr,   \* PORT_CMD_STAT
  clb,               \* PORT_CLB and PORT_FB: "ours", "zero" or the firmware's
  ci, err, bsy,      \* PORT_CI bit 0, PORT_IS and TFD errors, TFD busy
  slot, moved,       \* the command of slot 0 and how much of it is done
  dma, media         \* dma_buf_ and the disk

driverVars == <<state, attached, configured, blocks>>
holderVars == <<owner, step, at>>
engineVars == <<st, cr, fre, fr, clb, ci, err, bsy, slot, moved>>
ahciVars == <<driverVars, holderVars, inits, published, call, buf, engineVars, dma,
          media>>

Empty == [s \in Sectors |-> None]

AhciInit ==
  /\ state = "Offline" /\ attached = FALSE /\ configured = FALSE /\ blocks = 0
  /\ owner = None /\ step = None /\ at = 0
  /\ inits = 0 /\ published = FALSE
  /\ call = [t \in Tasks |-> None] /\ buf = [t \in Tasks |-> Empty]
  /\ cr \in BOOLEAN /\ st = cr /\ fr = cr /\ fre = cr   \* as firmware left it
  /\ clb = "firmware" /\ ci = FALSE /\ err = FALSE /\ bsy \in BOOLEAN
  /\ slot = None /\ moved = 0
  /\ dma = [k \in 0 .. MaxSectors - 1 |-> None]
  /\ media = [s \in Sectors |-> Blank]

Call(t) ==
  /\ published
  /\ call[t] = None
  /\ \E r \in Calls : call' = [call EXCEPT ![t] = r]
  /\ UNCHANGED <<driverVars, holderVars, inits, published, buf, engineVars, dma,
                 media>>

Moving == owner \in Tasks

Return(t) ==
  /\ call' = [call EXCEPT ![t] = None]
  /\ buf' = [buf EXCEPT ![t] = Empty]

Release == owner' = None /\ step' = None /\ at' = 0

Goto(s) ==
  /\ step' = s
  /\ UNCHANGED <<driverVars, owner, at, inits, published, call, buf, dma, media>>

-----------------------------------------------------------------------------
\* detect
BeginInit ==
  /\ ~published /\ inits < MaxInits
  /\ owner = None
  /\ state = "Offline"
  /\ state' = "Initializing" /\ attached' = TRUE /\ blocks' = 0
  /\ owner' = Probe /\ step' = "stop" /\ at' = 0
  /\ inits' = inits + 1
  /\ UNCHANGED <<configured, published, call, buf, engineVars, dma, media>>

\* stop_engine clears ST and waits for CR, then clears FRE and waits for FR.
\* It is called by setup_memory (step "stop") and by shutdown_locked (step
\* "halt"); each wait may reach its poll limit.
StopCommands ==
  /\ step \in {"stop", "halt"}
  /\ st' = FALSE
  /\ Goto(IF step = "stop" THEN "stopCR" ELSE "haltCR")
  /\ UNCHANGED <<cr, fre, fr, clb, ci, err, bsy, slot, moved>>

StopFis ==
  /\ step \in {"stopCR", "haltCR"}
  /\ ~cr
  /\ fre' = FALSE
  /\ Goto(IF step = "stopCR" THEN "stopFR" ELSE "haltFR")
  /\ UNCHANGED <<st, cr, fr, clb, ci, err, bsy, slot, moved>>

StopTimeout ==
  /\ \/ step \in {"stopCR", "haltCR"} /\ cr
     \/ step \in {"stopFR", "haltFR"} /\ fr
  /\ Goto(IF step \in {"stopCR", "stopFR"} THEN "halt" ELSE "stuck")
  /\ UNCHANGED engineVars

\* The rest of setup_memory: both engines are stopped.
SetupMemory ==
  /\ step = "stopFR"
  /\ ~fr
  /\ clb' = "ours" /\ fre' = TRUE /\ fr' = TRUE /\ st' = TRUE /\ cr' = TRUE
  /\ err' = FALSE
  /\ configured' = TRUE
  /\ step' = "issue"
  /\ UNCHANGED <<state, attached, blocks, owner, at, inits, published, call, buf,
                 ci, bsy, slot, moved, dma, media>>

-----------------------------------------------------------------------------
\* shutdown_locked after stop_engine, and the return of its caller.
Leave ==
  /\ Release
  /\ IF Moving THEN Return(owner) ELSE UNCHANGED <<call, buf>>
  /\ UNCHANGED <<inits, published, dma, media>>

Halted ==
  /\ step = "haltFR"
  /\ ~fr
  /\ clb' = IF configured THEN "zero" ELSE clb
  /\ configured' = FALSE /\ attached' = FALSE
  /\ state' = "Offline"
  /\ Leave
  /\ UNCHANGED <<blocks, st, cr, fre, fr, ci, err, bsy, slot, moved>>

\* Mutant of Stuck: the failed stop is not noticed.
StuckUnnoticed ==
  /\ step = "stuck"
  /\ state' = "Offline"
  /\ configured' = FALSE /\ attached' = FALSE
  /\ Leave
  /\ UNCHANGED <<blocks, engineVars>>

Stuck ==
  /\ step = "stuck"
  /\ state' = "Quarantined"
  /\ Leave
  /\ UNCHANGED <<attached, configured, blocks, engineVars>>

-----------------------------------------------------------------------------
\* transfer_blocks, up to its loop
Serves(r) ==
  /\ state = "Ready"
  /\ r.first <= blocks /\ r.count <= blocks - r.first

Begin(t) ==
  /\ owner = None
  /\ call[t] # None
  /\ IF Serves(call[t])
     THEN owner' = t /\ step' = "loop" /\ at' = 0 /\ UNCHANGED <<call, buf>>
     ELSE Return(t) /\ UNCHANGED holderVars
  /\ UNCHANGED <<driverVars, inits, published, engineVars, dma, media>>

\* while (remaining > 0)
End ==
  /\ step = "loop" /\ at = call[owner].count
  /\ Leave
  /\ UNCHANGED <<driverVars, engineVars>>

Chunk == Min({call[owner].count - at, MaxSectors})

CopyIn ==
  /\ step = "loop" /\ at < call[owner].count
  /\ dma' = IF call[owner].write
            THEN [k \in DOMAIN dma |-> IF k < Chunk THEN owner ELSE dma[k]]
            ELSE dma
  /\ step' = "issue"
  /\ UNCHANGED <<driverVars, owner, at, inits, published, call, buf, engineVars,
                 media>>

\* issue_cmd for IDENTIFY (no sector of the disk), READ and WRITE DMA EXT.
Command ==
  IF Moving
  THEN [op |-> IF call[owner].write THEN "write" ELSE "read",
        lba |-> call[owner].first + at, count |-> Chunk]
  ELSE [op |-> "identify", lba |-> 0, count |-> 0]

IssueCmd ==
  /\ step = "issue"
  /\ \/ /\ bsy \/ ci                   \* Timeout, or Busy
        /\ Goto("halt")
        /\ UNCHANGED engineVars
     \/ /\ ~bsy /\ ~ci
        /\ slot' = Command /\ moved' = 0
        /\ ci' = TRUE /\ err' = FALSE
        /\ Goto("wait")
        /\ UNCHANGED <<st, cr, fre, fr, clb, bsy>>

\* wait_cmd_complete: an error, the poll limit, or CI cleared by the port.
WaitFails ==
  /\ step = "wait"
  /\ err \/ ci
  /\ Goto("halt")
  /\ UNCHANGED engineVars

Identified ==
  /\ step = "wait" /\ ~Moving /\ ~err /\ ~ci
  /\ \/ /\ blocks' = Max(Sectors) + 1
        /\ state' = "Ready"
        /\ Release
     \/ /\ blocks' = 0               \* NoDevice
        /\ step' = "halt"
        /\ UNCHANGED <<state, owner, at>>
  /\ UNCHANGED <<attached, configured, inits, published, call, buf, engineVars,
                 dma, media>>

Transferred ==
  /\ step = "wait" /\ Moving /\ ~err /\ ~ci
  /\ LET first == call[owner].first + at IN
     buf' = IF call[owner].write THEN buf
            ELSE [buf EXCEPT ![owner] =
                    [s \in Sectors |-> IF s \in first .. first + Chunk - 1
                                       THEN dma[s - first] ELSE @[s]]]
  /\ at' = at + Chunk
  /\ step' = "loop"
  /\ UNCHANGED <<driverVars, owner, inits, published, call, engineVars, dma, media>>

-----------------------------------------------------------------------------
\* The port and the disk.
EngineStops ==
  /\ ~st /\ cr
  /\ cr' = FALSE /\ ci' = FALSE
  /\ UNCHANGED <<driverVars, holderVars, inits, published, call, buf, st, fre, fr,
                 clb, err, bsy, slot, moved, dma, media>>

FisStops ==
  /\ ~fre /\ fr
  /\ fr' = FALSE
  /\ UNCHANGED <<driverVars, holderVars, inits, published, call, buf, st, cr, fre,
                 clb, ci, err, bsy, slot, moved, dma, media>>

SpinUp ==
  /\ bsy
  /\ bsy' = FALSE
  /\ UNCHANGED <<driverVars, holderVars, inits, published, call, buf, st, cr, fre,
                 fr, clb, ci, err, slot, moved, dma, media>>

Dma ==
  /\ cr /\ ci /\ ~err
  /\ moved < slot.count
  /\ LET s == slot.lba + moved IN
     IF slot.op = "write"
     THEN media' = [media EXCEPT ![s] = dma[moved]] /\ UNCHANGED dma
     ELSE dma' = [dma EXCEPT ![moved] = media[s]] /\ UNCHANGED media
  /\ moved' = moved + 1
  /\ UNCHANGED <<driverVars, holderVars, inits, published, call, buf, st, cr, fre,
                 fr, clb, ci, err, bsy, slot>>

Complete ==
  /\ cr /\ ci /\ ~err
  /\ \/ moved = slot.count /\ fr /\ ci' = FALSE /\ UNCHANGED err
     \/ err' = TRUE /\ UNCHANGED ci
  /\ UNCHANGED <<driverVars, holderVars, inits, published, call, buf, st, cr, fre,
                 fr, clb, bsy, slot, moved, dma, media>>

-----------------------------------------------------------------------------
\* AhciManager::probe_controller: publish the port, or stop it again.
Publish ==
  /\ owner = None /\ state = "Ready" /\ ~published
  /\ \/ published' = TRUE /\ UNCHANGED holderVars
     \/ owner' = Probe /\ step' = "halt" /\ UNCHANGED <<at, published>>
  /\ UNCHANGED <<driverVars, inits, call, buf, engineVars, dma, media>>

AhciNext ==
  \/ BeginInit \/ StopCommands \/ StopFis \/ StopTimeout \/ SetupMemory
  \/ Halted \/ Stuck \/ End \/ CopyIn \/ IssueCmd \/ WaitFails \/ Identified
  \/ Transferred \/ Publish
  \/ EngineStops \/ FisStops \/ SpinUp \/ Dma \/ Complete
  \/ \E t \in Tasks : Call(t) \/ Begin(t)

AhciSpec == AhciInit /\ [][AhciNext]_ahciVars

-----------------------------------------------------------------------------
Span(r) == {s \in Sectors : r.first <= s /\ s < r.first + r.count}

Device == INSTANCE BlockDevice WITH
  quiet <- ~cr /\ ~fr,
  call <- [t \in Tasks |-> IF call[t] = None THEN None
                           ELSE [write |-> call[t].write, range |-> Span(call[t])]],
  server <- IF Moving THEN owner ELSE None

(* The AHCI driver implements the block device of blk.h: a request that is *)
(* answered without an error moved every sector, also in several chunks    *)
(* through dma_buf_, no late DMA of a request that was given up reaches a  *)
(* later one, and a device is Offline only with both DMA engines stopped;  *)
(* otherwise it is Quarantined for good.  The addresses the engines use    *)
(* change only while both are stopped (setup_memory, shutdown_locked).     *)
ImplementsAhciDevice ==
  /\ Device!Spec
  /\ [][clb' # clb => ~cr /\ ~fr]_ahciVars
=============================================================================
