------------------------------- MODULE Sdhci -------------------------------
(***************************************************************************)
(* kernel/drivers/sdhci.cpp: one SD card behind an SDHCI controller.       *)
(* Tasks call read and write; the probe calls init and, when publishing    *)
(* fails, shutdown.  All of them run under io_mutex_.  The controller and  *)
(* the card run beside them and set status bits when they like, so that    *)
(* any of the driver's bounded polls may give up just before the answer.   *)
(***************************************************************************)
EXTENDS Naturals, Sequences

CONSTANTS
  Tasks, Probe, None, Blank,
  Calls,        \* the requests tasks make: [write, first, count]
  Sectors,      \* the sectors of the card, 0 .. n
  Csds,         \* the CSDs of the cards: [version, size, mult, length]
  CsdUnit,      \* 1024: the sectors a unit of a version 2 CSD stands for
  CsdDefault,   \* 131072: the sectors assumed for any other CSD
  SectorBytes,  \* 512
  AddrSpan,     \* 2^32: addresses are uint32_t
  Retries,      \* ACMD41_RETRIES
  MaxInits      \* bound: calls of init

Steps == {"reset", "clock", "send", "cmd", "buf", "xfer"}

\* The commands of card_identify and read_csd.  CMD7 ends with a busy card.
Identify == <<"CMD0", "CMD8", "CMD55", "ACMD41", "CMD2", "CMD3", "CMD9",
              "CMD7", "CMD16">>

Commands == {Identify[i] : i \in 1 .. Len(Identify)} \cup {"CMD17", "CMD24"}

Engines == [cmd : Commands, addr : Nat, stage : {"sent", "data", "wait", "moved"}]

ASSUME SdhciAssumption ==
  /\ Sectors \subseteq Nat
  /\ Calls \subseteq [write : BOOLEAN, first : Nat, count : Nat]
  /\ {SectorBytes, AddrSpan, Retries, MaxInits} \subseteq Nat \ {0}
  /\ None \notin Tasks \cup {Probe, Blank} /\ None \notin Calls /\ None \notin Steps
  /\ None \notin [write : BOOLEAN, range : SUBSET Sectors]
  /\ None \notin Engines
  /\ Probe \notin Tasks

VARIABLES
  state, base, blocks, sdhc,   \* state_, base_ # nullptr, block_count, sdhc_
  owner,       \* the holder of io_mutex_
  step, at,    \* where the holder is: its step, and its command or sector
  tries,       \* retry in card_identify
  inits, published,  \* calls of init, and blk::register_device has succeeded
  call, buf,   \* the requests and their buffers
  power,       \* POWER_CTRL
  status,      \* INT_STATUS
  busy,        \* PS_DAT_INHIBIT: what holds the data lines, or None
  engine,      \* the command the controller works on, or None
  fifo,        \* BUF_DATA
  media        \* the card's sectors

driverVars == <<state, base, blocks, sdhc>>
holderVars == <<owner, step, at, tries>>
cardVars == <<power, status, busy, engine, fifo, media>>
sdhciVars == <<driverVars, holderVars, cardVars, inits, published, call, buf>>

Empty == [s \in Sectors |-> None]

SdhciInit ==
  /\ state = "Offline" /\ base = FALSE /\ blocks = 0 /\ sdhc = FALSE
  /\ owner = None /\ step = None /\ at = 0 /\ tries = 0
  /\ inits = 0 /\ published = FALSE
  /\ call = [t \in Tasks |-> None]
  /\ buf = [t \in Tasks |-> Empty]
  /\ power \in BOOLEAN
  /\ status = {} /\ busy = None /\ engine = None /\ fifo = None
  /\ media = [s \in Sectors |-> Blank]

Call(t) ==
  /\ published
  /\ call[t] = None
  /\ \E r \in Calls : call' = [call EXCEPT ![t] = r]
  /\ UNCHANGED <<driverVars, holderVars, cardVars, inits, published, buf>>

Return(t) ==
  /\ call' = [call EXCEPT ![t] = None]
  /\ buf' = [buf EXCEPT ![t] = Empty]

-----------------------------------------------------------------------------
\* shutdown_locked, up to the release of the mutex by the caller.
ShutdownLocked ==
  /\ power' = IF base THEN FALSE ELSE power
  /\ base' = FALSE /\ sdhc' = FALSE
  /\ blocks' = IF base THEN 0 ELSE blocks
  /\ state' = "Offline"
  /\ UNCHANGED <<status, busy, engine, fifo, media>>

Release == owner' = None /\ step' = None /\ at' = 0 /\ tries' = 0

\* The error paths of init and of transfer_blocks.
Fail ==
  /\ ShutdownLocked
  /\ Release
  /\ IF owner = Probe THEN UNCHANGED <<call, buf>> ELSE Return(owner)
  /\ UNCHANGED <<inits, published>>

BeginInit ==
  /\ ~published /\ inits < MaxInits
  /\ owner = None
  /\ state = "Offline"
  /\ state' = "Initializing" /\ base' = TRUE
  /\ owner' = Probe /\ step' = "reset"
  /\ inits' = inits + 1
  /\ UNCHANGED <<blocks, sdhc, at, tries, cardVars, published, call, buf>>

\* reset: a software reset ends whatever the controller was doing.
Reset ==
  /\ step = "reset"
  /\ \/ Fail
     \/ /\ status' = {} /\ busy' = None /\ engine' = None /\ power' = FALSE
        /\ step' = "clock"
        /\ UNCHANGED <<driverVars, owner, at, tries, fifo, media, inits,
                       published, call, buf>>

\* clock_setup, and power_on, which cannot fail.
PowerOn ==
  /\ step = "clock"
  /\ \/ Fail
     \/ /\ power' = TRUE
        /\ step' = "send" /\ at' = 1
        /\ UNCHANGED <<driverVars, owner, tries, status, busy, engine, fifo,
                       media, inits, published, call, buf>>

-----------------------------------------------------------------------------
\* transfer_blocks, up to its loop.  SDSC cards take a byte address, which
\* limits them to (1 << 23) = AddrSpan / SectorBytes sectors.
SdscLimit == AddrSpan \div SectorBytes

Serves(r) ==
  /\ state = "Ready"
  /\ r.first <= blocks /\ r.count <= blocks - r.first
  /\ sdhc \/ (r.first <= SdscLimit /\ r.count <= SdscLimit - r.first)

Begin(t) ==
  /\ owner = None
  /\ call[t] # None
  /\ IF Serves(call[t])
     THEN /\ owner' = t /\ step' = "send" /\ at' = 0
          /\ UNCHANGED <<call, buf>>
     ELSE /\ Return(t)
          /\ UNCHANGED <<owner, step, at>>
  /\ UNCHANGED <<driverVars, tries, cardVars, inits, published>>

End ==
  /\ owner \in Tasks /\ step = "send" /\ at = call[owner].count
  /\ Return(owner)
  /\ Release
  /\ UNCHANGED <<driverVars, cardVars, inits, published>>

Moving == owner \in Tasks

Current ==
  IF ~Moving THEN [cmd |-> Identify[at], addr |-> 0]
  ELSE [cmd |-> IF call[owner].write THEN "CMD24" ELSE "CMD17",
        addr |-> IF sdhc THEN call[owner].first + at
                 ELSE ((call[owner].first + at) * SectorBytes) % AddrSpan]

\* Mutant of Inhibited: PS_DAT_INHIBIT is not waited for.
NeverInhibited == FALSE

\* send_cmd: wait for the command line and, for data commands, for the data
\* lines (the polls may run out), clear the status, write the command.
Inhibited == Moving /\ busy # None

SendCmd ==
  /\ step = "send"
  /\ Moving => at < call[owner].count
  /\ \/ Inhibited /\ Fail
     \/ /\ ~Inhibited
        /\ status' = {}
        /\ engine' = [cmd |-> Current.cmd, addr |-> Current.addr, stage |-> "sent"]
        /\ busy' = IF Moving /\ busy = None THEN "data" ELSE busy
        /\ step' = "cmd"
        /\ UNCHANGED <<driverVars, owner, at, tries, power, fifo, media, inits,
                       published, call, buf>>

\* The polls of INT_STATUS: an error, the awaited bit, or the poll limit.
Poll(bit) == "err" \in status \/ bit \notin status

\* read_csd, in uint32_t arithmetic.
BlockCount(csd) ==
  CASE csd.version = 1 -> ((csd.size + 1) * CsdUnit) % AddrSpan
    [] csd.version = 0 ->
         LET blocknr == ((csd.size + 1) * 2 ^ (csd.mult + 2)) % AddrSpan
         IN ((blocknr * 2 ^ csd.length) % AddrSpan) \div SectorBytes
    [] OTHER -> CsdDefault

\* What card_identify does with the response of each command.
Responded ==
  LET c == Identify[at] IN
  \/ /\ c \notin {"CMD8", "ACMD41", "CMD9", "CMD16"}
     /\ at' = at + 1 /\ step' = "send"
     /\ UNCHANGED <<owner, tries, driverVars>>
  \/ /\ c = "CMD8"             \* the check pattern matches
     /\ at' = at + 1 /\ step' = "send"
     /\ sdhc' = FALSE
     /\ UNCHANGED <<owner, tries, state, base, blocks>>
  \/ /\ c = "ACMD41"           \* OCR_BUSY: the card is ready
     /\ at' = at + 1 /\ step' = "send"
     /\ sdhc' \in BOOLEAN
     /\ UNCHANGED <<owner, tries, state, base, blocks>>
  \/ /\ c = "ACMD41"           \* the card is not ready: CMD55 again
     /\ tries + 1 < Retries
     /\ tries' = tries + 1
     /\ at' = at - 1 /\ step' = "send"
     /\ UNCHANGED <<owner, driverVars>>
  \/ /\ c = "CMD9"
     /\ at' = at + 1 /\ step' = "send"
     /\ \E csd \in Csds : blocks' = BlockCount(csd)
     /\ UNCHANGED <<owner, tries, state, base, sdhc>>
  \/ /\ c = "CMD16"
     /\ state' = "Ready"
     /\ Release
     /\ UNCHANGED <<base, blocks, sdhc>>

WaitCmdDone ==
  /\ step = "cmd"
  /\ \/ Poll("cmd") /\ Fail
     \/ /\ ~Moving /\ Identify[at] \in {"CMD8", "ACMD41"}  \* a wrong pattern,
        /\ "cmd" \in status /\ "err" \notin status         \* the last retry
        /\ Identify[at] = "ACMD41" => tries + 1 = Retries
        /\ Fail
     \/ /\ ~Poll("cmd")
        /\ status' = status \ {"cmd"}
        /\ IF Moving
           THEN step' = "buf" /\ UNCHANGED <<owner, at, tries, driverVars>>
           ELSE Responded
        /\ UNCHANGED <<power, busy, engine, fifo, media, inits, published, call,
                       buf>>

\* read_single and write_single: the buffer is ready, 128 words are moved.
MoveBuffer ==
  /\ step = "buf"
  /\ \/ Poll("buf") /\ Fail
     \/ /\ ~Poll("buf")
        /\ status' = status \ {"buf"}
        /\ IF call[owner].write
           THEN fifo' = owner /\ UNCHANGED buf
           ELSE /\ buf' = [buf EXCEPT ![owner][call[owner].first + at] = fifo]
                /\ UNCHANGED fifo
        /\ engine' = IF engine = None THEN None ELSE [engine EXCEPT !.stage = "moved"]
        /\ step' = "xfer"
        /\ UNCHANGED <<driverVars, owner, at, tries, power, busy, media, inits,
                       published, call>>

WaitXferDone ==
  /\ step = "xfer"
  /\ \/ Poll("xfer") /\ Fail
     \/ /\ ~Poll("xfer")
        /\ status' = status \ {"xfer"}
        /\ at' = at + 1 /\ step' = "send"
        /\ UNCHANGED <<driverVars, owner, tries, power, busy, engine, fifo,
                       media, inits, published, call, buf>>

-----------------------------------------------------------------------------
\* The controller and the card.  CMD7 is answered before the card stops
\* being busy; the end of that busy time sets "xfer" as well.  Of a sector it
\* does not have, whatever its CSD says, the card neither sends nor takes data.
IsData == engine.cmd \in {"CMD17", "CMD24"}

Sector == IF sdhc THEN engine.addr ELSE engine.addr \div SectorBytes

Respond ==
  /\ power /\ engine # None /\ engine.stage = "sent"
  /\ \/ /\ status' = status \cup {"cmd"}
        /\ engine' = IF IsData THEN [engine EXCEPT !.stage = "data"] ELSE None
        /\ busy' = IF engine.cmd = "CMD7" THEN "select" ELSE busy
     \/ /\ status' = status \cup {"err"}
        /\ engine' = None
        /\ UNCHANGED busy
  /\ UNCHANGED <<driverVars, holderVars, power, fifo, media, inits, published,
                 call, buf>>

BufferReady ==
  /\ power /\ engine # None /\ engine.stage = "data"
  /\ \/ /\ engine.cmd = "CMD17" => Sector \in Sectors
        /\ status' = status \cup {"buf"}
        /\ fifo' = IF engine.cmd = "CMD17" THEN media[Sector] ELSE fifo
        /\ engine' = [engine EXCEPT !.stage = "wait"]
     \/ /\ status' = status \cup {"err"}
        /\ engine' = None
        /\ UNCHANGED fifo
  /\ UNCHANGED <<driverVars, holderVars, power, busy, media, inits, published,
                 call, buf>>

Finish ==
  /\ power /\ engine # None /\ engine.stage = "moved"
  /\ \/ /\ engine.cmd = "CMD24" => Sector \in Sectors
        /\ status' = status \cup {"xfer"}
        /\ media' = IF engine.cmd = "CMD24" THEN [media EXCEPT ![Sector] = fifo]
                    ELSE media
     \/ status' = status \cup {"err"} /\ UNCHANGED media
  /\ engine' = None /\ busy' = IF busy = "data" THEN None ELSE busy
  /\ UNCHANGED <<driverVars, holderVars, power, fifo, inits, published, call, buf>>

EndBusy ==
  /\ power /\ busy = "select"
  /\ busy' = None
  /\ status' = status \cup {"xfer"}
  /\ UNCHANGED <<driverVars, holderVars, power, engine, fifo, media, inits,
                 published, call, buf>>

-----------------------------------------------------------------------------
\* Manager::probe_callback after init: register, or shutdown.
Publish ==
  /\ owner = None /\ state = "Ready" /\ ~published
  /\ \/ published' = TRUE /\ UNCHANGED <<driverVars, cardVars>>
     \/ ShutdownLocked /\ UNCHANGED published
  /\ UNCHANGED <<holderVars, inits, call, buf>>

SdhciNext ==
  \/ BeginInit \/ Reset \/ PowerOn \/ SendCmd \/ WaitCmdDone \/ MoveBuffer
  \/ WaitXferDone \/ End \/ Publish
  \/ Respond \/ BufferReady \/ Finish \/ EndBusy
  \/ \E t \in Tasks : Call(t) \/ Begin(t)

SdhciSpec == SdhciInit /\ [][SdhciNext]_sdhciVars

-----------------------------------------------------------------------------
Span(r) == {s \in Sectors : r.first <= s /\ s < r.first + r.count}

Device == INSTANCE BlockDevice WITH
  quiet <- ~power,
  call <- [t \in Tasks |-> IF call[t] = None THEN None
                           ELSE [write |-> call[t].write, range |-> Span(call[t])]],
  server <- IF Moving THEN owner ELSE None

(* The SD driver implements the block device of blk.h: SdDevice::read and  *)
(* write serve one request at a time, answer None only when every sector   *)
(* of the request was moved, touch no other sector, whatever the timing of *)
(* the status bits they poll, and give the device up only with the power   *)
(* of the card removed.                                                    *)
ImplementsSdDevice == Device!Spec
=============================================================================
