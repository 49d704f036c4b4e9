--------------------------------- MODULE Ide ---------------------------------
(***************************************************************************)
(* arch/x86/kernel/drivers/ide.cpp: the two drives of one IDE channel.     *)
(* Master and slave share the task-file registers, the drive selection and *)
(* Device Control, which channel_mutexes_ guards; every transfer is PIO.   *)
(* IdeManager::init probes the drives and may be called again while tasks  *)
(* use a drive that was published before.  The drives run beside them.     *)
(***************************************************************************)
EXTENDS Naturals

CONSTANTS
  Drives, Tasks, Probe, None, Blank,
  Calls,      \* the requests tasks make: [dev, write, first, count]
  Sectors,    \* the sectors of each drive, 0 .. n
  MaxProbes   \* bound: identifications

Steps == {"identify", "identified", "loop", "ready", "drq", "stored"}

ASSUME IdeAssumption ==
  /\ Sectors \subseteq Nat
  /\ \A n \in Sectors : 0 .. n \subseteq Sectors
  /\ Calls \subseteq [dev : Drives, write : BOOLEAN, first : Nat, count : Nat]
  /\ MaxProbes \in Nat \ {0}
  /\ None \notin Tasks \cup Drives \cup {Probe, Blank} /\ None \notin Calls /\ None \notin Steps
  /\ None \notin [write : BOOLEAN, range : SUBSET Sectors]
  /\ Probe \notin Tasks

VARIABLES
  state, blocks, published,  \* of each drive's device: state_, block_count,
                             \* and whether it is in devices_ and registered
  owner, target, step, at,   \* the holder of the channel, its drive and step
  probes,
  call, buf,
  masked,     \* Device Control: nIEN
  sel,        \* REG_DEVICE
  phase,      \* each drive's status: "idle" (DRDY), "busy" (BSY), "data"
              \* (DRQ), "store" (BSY after the data of a write), "err", "absent"
  command,    \* what each drive works on
  fifo, media

deviceVars == <<state, blocks, published>>
holderVars == <<owner, target, step, at>>
driveVars == <<phase, command, fifo, media>>
vars == <<deviceVars, holderVars, probes, call, buf, masked, sel, driveVars>>

Empty == [s \in Sectors |-> None]

Init ==
  /\ state = [d \in Drives |-> "Offline"]
  /\ blocks = [d \in Drives |-> 0]
  /\ published = [d \in Drives |-> FALSE]
  /\ owner = None /\ target = None /\ step = None /\ at = 0
  /\ probes = 0
  /\ call = [t \in Tasks |-> None] /\ buf = [t \in Tasks |-> Empty]
  /\ masked = FALSE /\ sel \in Drives
  /\ phase \in [Drives -> {"idle", "absent"}]
  /\ command = [d \in Drives |-> None]
  /\ fifo = [d \in Drives |-> None]
  /\ media = [d \in Drives |-> [s \in Sectors |-> Blank]]

Call(t) ==
  /\ call[t] = None
  /\ \E r \in Calls : published[r.dev] /\ call' = [call EXCEPT ![t] = r]
  /\ UNCHANGED <<deviceVars, holderVars, probes, buf, masked, sel, driveVars>>

Return(t) ==
  /\ call' = [call EXCEPT ![t] = None]
  /\ buf' = [buf EXCEPT ![t] = Empty]

\* The end of a request: ~PioInterruptMask, then the guard of the channel.
Release ==
  /\ masked' = FALSE
  /\ owner' = None /\ target' = None /\ step' = None /\ at' = 0

\* wait_status: BSY is clear, no error is set and the bit waited for is.  Any
\* other status is waited out and then fails: NoDevice, Io or Timeout.
wait_status(required) == phase[sel] = required

-----------------------------------------------------------------------------
\* IdeManager::init for one drive, and detect_locked
BeginDetect(d) ==
  /\ ~published[d] /\ probes < MaxProbes
  /\ owner = None
  /\ state[d] = "Offline"
  /\ state' = [state EXCEPT ![d] = "Initializing"]
  /\ blocks' = [blocks EXCEPT ![d] = 0]
  /\ owner' = Probe /\ target' = d /\ step' = "identify"
  /\ probes' = probes + 1
  /\ UNCHANGED <<published, at, call, buf, masked, sel, driveVars>>

NotDetected ==
  /\ state' = [state EXCEPT ![target] = "Offline"]
  /\ Release
  /\ UNCHANGED <<blocks, published, probes, call, buf>>

\* identify_locked
Identify ==
  /\ step = "identify"
  /\ sel' = target
  /\ \/ /\ phase[target] = "absent"       \* status 0 or 0xFF
        /\ NotDetected
        /\ UNCHANGED driveVars
     \/ /\ phase[target] # "absent"
        /\ masked' = TRUE
        /\ phase' = [phase EXCEPT ![target] = "busy"]
        /\ command' = [command EXCEPT ![target] = [op |-> "identify", lba |-> 0]]
        /\ step' = "identified"
        /\ UNCHANGED <<deviceVars, owner, target, at, probes, call, buf, fifo,
                       media>>

\* The answer to IDENTIFY: no data, no sectors, or a failing registration
\* leave the slot Offline for the next drive.
Identified ==
  /\ step = "identified"
  /\ \/ /\ phase[sel] \in {"busy", "err"}   \* Timeout; Io, or an ATAPI drive
        /\ NotDetected
        /\ UNCHANGED <<sel, driveVars>>
     \/ /\ wait_status("data")
        /\ phase' = [phase EXCEPT ![sel] = "idle"]
        /\ \/ NotDetected
           \/ /\ blocks' = [blocks EXCEPT ![target] = command[sel].size]
              /\ state' = [state EXCEPT ![target] = "Ready"]
              /\ published' = [published EXCEPT ![target] = TRUE]
              /\ Release
              /\ UNCHANGED <<probes, call, buf>>
        /\ UNCHANGED <<sel, command, fifo, media>>

-----------------------------------------------------------------------------
\* transfer_blocks
Serves(r) ==
  /\ state[r.dev] = "Ready"
  /\ r.first <= blocks[r.dev] /\ r.count <= blocks[r.dev] - r.first

\* Mutant of Begin: the mutex of the channel is not taken.
BeginUnlocked(t) ==
  /\ call[t] # None
  /\ IF Serves(call[t])
     THEN /\ owner' = t /\ target' = call[t].dev /\ step' = "loop" /\ at' = 0
          /\ UNCHANGED <<call, buf>>
     ELSE Return(t) /\ UNCHANGED holderVars
  /\ UNCHANGED <<deviceVars, probes, masked, sel, driveVars>>

Begin(t) ==
  /\ owner = None
  /\ call[t] # None
  /\ IF Serves(call[t])
     THEN /\ owner' = t /\ target' = call[t].dev /\ step' = "loop" /\ at' = 0
          /\ UNCHANGED <<call, buf>>
     ELSE Return(t) /\ UNCHANGED holderVars
  /\ UNCHANGED <<deviceVars, probes, masked, sel, driveVars>>

End ==
  /\ step = "loop" /\ at = call[owner].count
  /\ Return(owner)
  /\ Release
  /\ UNCHANGED <<deviceVars, probes, sel, driveVars>>

Fail ==
  /\ state' = [state EXCEPT ![target] = "Offline"]
  /\ Return(owner)
  /\ Release
  /\ UNCHANGED <<blocks, published, probes, sel, driveVars>>

\* transfer_sector_locked: select the drive and wait for DRDY.
Select ==
  /\ step = "loop" /\ at < call[owner].count
  /\ sel' = target
  /\ step' = "ready"
  /\ UNCHANGED <<deviceVars, owner, target, at, probes, call, buf, masked,
                 driveVars>>

\* REG_DEVICE is written a second time, with the top bits of the LBA.
Issue ==
  /\ step = "ready"
  /\ \/ ~wait_status("idle") /\ Fail
     \/ /\ wait_status("idle")
        /\ masked' = TRUE
        /\ sel' = target
        /\ command' = [command EXCEPT ![target] =
                         [op |-> IF call[owner].write THEN "write" ELSE "read",
                          lba |-> call[owner].first + at]]
        /\ phase' = [phase EXCEPT ![target] = "busy"]
        /\ step' = "drq"
        /\ UNCHANGED <<deviceVars, owner, target, at, probes, call, buf, fifo, media>>

\* The end of transfer_sector_locked: interrupts are enabled again.
SectorDone ==
  /\ masked' = FALSE
  /\ at' = at + 1 /\ step' = "loop"

MoveData ==
  /\ step = "drq"
  /\ \/ ~wait_status("data") /\ Fail
     \/ /\ wait_status("data") /\ call[owner].write
        /\ fifo' = [fifo EXCEPT ![sel] = owner]
        /\ phase' = [phase EXCEPT ![sel] = "store"]
        /\ step' = "stored"
        /\ UNCHANGED <<deviceVars, owner, target, at, probes, call, buf, masked,
                       sel, command, media>>
     \/ /\ wait_status("data") /\ ~call[owner].write
        /\ buf' = [buf EXCEPT ![owner][call[owner].first + at] = fifo[sel]]
        /\ phase' = [phase EXCEPT ![sel] = "idle"]
        /\ SectorDone
        /\ UNCHANGED <<deviceVars, owner, target, probes, call, sel, command, fifo,
                       media>>

Stored ==
  /\ step = "stored"
  /\ \/ ~wait_status("idle") /\ Fail
     \/ /\ wait_status("idle")
        /\ SectorDone
        /\ UNCHANGED <<deviceVars, owner, target, probes, call, buf, sel, driveVars>>

-----------------------------------------------------------------------------
\* The drives.
Fetch(d) ==
  /\ phase[d] = "busy"
  /\ \/ /\ phase' = [phase EXCEPT ![d] = "data"]
        /\ \/ /\ command[d].op = "identify"
              /\ \E n \in {s + 1 : s \in Sectors} :
                   command' = [command EXCEPT ![d] = [op |-> "identify", size |-> n]]
              /\ UNCHANGED fifo
           \/ /\ command[d].op = "read"
              /\ fifo' = [fifo EXCEPT ![d] = media[d][command[d].lba]]
              /\ UNCHANGED command
           \/ command[d].op = "write" /\ UNCHANGED <<command, fifo>>
     \/ phase' = [phase EXCEPT ![d] = "err"] /\ UNCHANGED <<command, fifo>>
  /\ UNCHANGED <<deviceVars, holderVars, probes, call, buf, masked, sel, media>>

Store(d) ==
  /\ phase[d] = "store"
  /\ \/ /\ phase' = [phase EXCEPT ![d] = "idle"]
        /\ media' = [media EXCEPT ![d][command[d].lba] = fifo[d]]
     \/ phase' = [phase EXCEPT ![d] = "err"] /\ UNCHANGED media
  /\ UNCHANGED <<deviceVars, holderVars, probes, call, buf, masked, sel, command,
                 fifo>>

Next ==
  \/ Identify \/ Identified \/ Select \/ Issue \/ MoveData \/ Stored \/ End
  \/ \E d \in Drives : BeginDetect(d) \/ Fetch(d) \/ Store(d)
  \/ \E t \in Tasks : Call(t) \/ Begin(t)

Spec == Init /\ [][Next]_vars

-----------------------------------------------------------------------------
Span(r) == {s \in Sectors : r.first <= s /\ s < r.first + r.count}

\* A drive is quiet when Device Control is at rest and nobody works on it.
Device(d) == INSTANCE BlockDevice WITH
  state <- state[d],
  media <- media[d],
  quiet <- (owner = None \/ target = d) => ~masked,
  call <- [t \in Tasks |->
             IF call[t] = None THEN None
             ELSE IF call[t].dev # d THEN None
             ELSE [write |-> call[t].write, range |-> Span(call[t])]],
  buf <- [t \in Tasks |-> IF call[t] = None \/ call[t].dev # d THEN Empty ELSE buf[t]],
  server <- IF owner \in Tasks /\ target = d THEN owner ELSE None

(* Each drive of a channel implements the block device of blk.h, although  *)
(* master and slave share registers, one of them may be given up while its *)
(* command still runs, and IdeManager::init may identify one while the     *)
(* other is in use.  Device Control is back at rest whenever the channel   *)
(* is free.                                                                *)
ImplementsIdeDevices ==
  /\ \A d \in Drives : Device(d)!Init
  /\ [][\A d \in Drives : [Device(d)!Next]_(Device(d)!vars)]_vars
=============================================================================
