----------------------------- MODULE SdhciProofs -----------------------------
(***************************************************************************)
(* The SD driver implements the block device of blk.h, for every number of *)
(* tasks and sectors, every card and every set of requests.                *)
(***************************************************************************)
EXTENDS Sdhci, TLAPS

(***************************************************************************)
(* The inductive invariant                                                 *)
(***************************************************************************)

Written == Tasks \cup {Blank}

TypeOK ==
  /\ state \in {"Offline", "Initializing", "Ready"}
  /\ base \in BOOLEAN /\ sdhc \in BOOLEAN /\ published \in BOOLEAN /\ power \in BOOLEAN
  /\ base <=> state # "Offline"
  /\ at \in Nat
  /\ call \in [Tasks -> Calls \cup {None}]
  /\ \A t \in Tasks : call[t] # None => published
  /\ buf \in [Tasks -> [Sectors -> Written \cup {None}]]
  /\ engine \in Engines \cup {None}
  /\ fifo \in Written \cup {None}
  /\ media \in [Sectors -> Written]

\* Nothing is on the data lines, unless CMD7 still is.
Idle == engine = None /\ busy \in {None, "select"}

\* Nobody holds io_mutex_: the card waits, or it has no power; the firmware
\* may have left it powered.
FreeOK ==
  /\ owner = None /\ step = None /\ state # "Initializing"
  /\ state = "Ready" => Idle
  /\ state = "Offline" => ~power \/ (engine = None /\ busy = None)

\* init, up to the end of card_identify.
ProbeOK ==
  /\ owner = Probe /\ state = "Initializing" /\ ~published
  /\ \/ step = "reset" /\ (~power \/ engine = None)
     \/ step = "clock" /\ Idle
     \/ step = "send" /\ Idle /\ at \in 1 .. Len(Identify)
     \/ /\ step = "cmd" /\ at \in 1 .. Len(Identify)
        /\ busy \in {None, "select"}
        /\ "cmd" \in status => engine = None
        /\ engine # None => engine.cmd = Identify[at] /\ engine.stage = "sent"

Lba == call[owner].first + at

\* The controller works on the command of the sector that is being moved.
OnCurrent(s) ==
  /\ engine # None
  /\ engine.cmd = Current.cmd /\ engine.addr = Current.addr /\ engine.stage = s

\* It has ended with an error.
Broken == engine = None /\ "err" \in status

\* A read has filled the controller's buffer.
Filled == ~call[owner].write => Lba \in Sectors /\ fifo = media[Lba]

\* The sector of the request has got to the card, or to the buffer.
SectorMoved ==
  /\ Lba \in Sectors
  /\ IF call[owner].write THEN media[Lba] = owner ELSE buf[owner][Lba] = media[Lba]

\* The driver's part of a sector is done: it has given or taken the data.
Handed == IF call[owner].write THEN fifo = owner ELSE SectorMoved

\* transfer_blocks.
ServeOK ==
  /\ owner \in Tasks /\ state = "Ready" /\ published
  /\ call[owner] \in Calls
  /\ at <= call[owner].count
  /\ sdhc \/ call[owner].first + call[owner].count <= SdscLimit
  /\ step \in {"send", "cmd", "buf", "xfer"}
  /\ step # "send" => at < call[owner].count

\* Step by step, what the controller may have got to while a request is served.
ControllerOK ==
  owner \in Tasks =>
    /\ step = "send" => Idle
    /\ step = "cmd" => /\ busy = "data"
                       /\ \/ Broken
                          \/ OnCurrent("sent") /\ status = {}
                          \/ OnCurrent("data") /\ status = {"cmd"}
                          \/ OnCurrent("wait") /\ status = {"cmd", "buf"} /\ Filled
    /\ step = "buf" => /\ busy = "data"
                       /\ \/ Broken
                          \/ OnCurrent("data") /\ status = {}
                          \/ OnCurrent("wait") /\ status = {"buf"} /\ Filled
    /\ step = "xfer" => \/ Broken
                        \/ OnCurrent("moved") /\ status = {} /\ busy = "data" /\ Handed
                        \/ Idle /\ SectorMoved

\* What the request has moved so far.
MovedOK ==
  owner \in Tasks =>
    \A s \in Sectors : call[owner].first <= s /\ s < Lba =>
      IF call[owner].write THEN media[s] = owner ELSE buf[owner][s] = media[s]

IInv == TypeOK /\ (FreeOK \/ ProbeOK \/ ServeOK) /\ ControllerOK /\ MovedOK

LEMMA Holders ==
  ASSUME IInv
  PROVE  /\ owner = None => FreeOK
         /\ owner = Probe => ProbeOK
         /\ Moving => ServeOK
         /\ step \in {"reset", "clock"} => ProbeOK
         /\ step \in {"buf", "xfer"} => ServeOK
         /\ step \in Steps => ProbeOK \/ ServeOK
         /\ ProbeOK => ~Moving /\ owner # None
         /\ ServeOK => Moving /\ owner # None /\ owner # Probe
BY SdhciAssumption, Zenon DEF IInv, FreeOK, ProbeOK, ServeOK, Steps, Moving

LEMMA CallFields ==
  ASSUME NEW r \in Calls
  PROVE  r # None /\ r.write \in BOOLEAN /\ r.first \in Nat /\ r.count \in Nat
BY SdhciAssumption, Zenon

LEMMA IdentifyIs ==
  /\ Len(Identify) = 9
  /\ Identify[1] = "CMD0" /\ Identify[2] = "CMD8" /\ Identify[3] = "CMD55"
  /\ Identify[4] = "ACMD41" /\ Identify[5] = "CMD2" /\ Identify[6] = "CMD3"
  /\ Identify[7] = "CMD9" /\ Identify[8] = "CMD7" /\ Identify[9] = "CMD16"
BY Zenon DEF Identify

\* The commands of card_identify move no data.
LEMMA IdentifyCommands ==
  ASSUME NEW i \in 1 .. Len(Identify)
  PROVE  Identify[i] \in Commands /\ Identify[i] \notin {"CMD17", "CMD24"}
<1>1. i \in Nat /\ 1 <= i /\ i <= 9
  BY IdentifyIs
<1>2. i \in {1, 2, 3, 4, 5, 6, 7, 8, 9}
  BY <1>1
<1>3. Identify[i] \notin {"CMD17", "CMD24"}
  BY <1>2, IdentifyIs, Zenon
<1> QED BY <1>3, Zenon DEF Commands

\* The byte address of a sector below the limit of an SDSC card stands for it.
LEMMA ByteAddress ==
  ASSUME NEW n \in Nat, n < SdscLimit
  PROVE  ((n * SectorBytes) % AddrSpan) \in Nat
         /\ ((n * SectorBytes) % AddrSpan) \div SectorBytes = n
<1>1. PICK b, a : b = SectorBytes /\ a = AddrSpan
  BY Zenon
<1>2. b \in Nat \ {0} /\ a \in Nat \ {0}
  BY <1>1, SdhciAssumption, Zenon
<1>3. PICK q : q = a \div b
  BY Zenon
<1>4. q \in Nat /\ b * q <= a
  BY <1>2, <1>3, Z3
<1>5. n < q
  BY <1>1, <1>3, Zenon DEF SdscLimit
<1>6. n * b \in Nat /\ n * b < a
  BY <1>2, <1>4, <1>5, Z3
<1>7. (n * b) % a = n * b
  BY <1>2, <1>6, Z3
<1>8. (n * b) \div b = n
  BY <1>2, Z3
<1> QED BY <1>1, <1>6, <1>7, <1>8, Zenon

\* The command of the sector a request has got to.
LEMMA CurrentIs ==
  ASSUME IInv, ServeOK, at < call[owner].count
  PROVE  /\ Current.cmd = IF call[owner].write THEN "CMD24" ELSE "CMD17"
         /\ Current.cmd \in Commands
         /\ Current.addr \in Nat
         /\ Lba \in Nat
         /\ (IF sdhc THEN Current.addr ELSE Current.addr \div SectorBytes) = Lba
<1>1. at \in Nat /\ call[owner].first \in Nat /\ call[owner].count \in Nat /\ Moving
  BY CallFields, Holders, Zenon DEF IInv, TypeOK, ServeOK
<1>2. /\ Current.cmd = IF call[owner].write THEN "CMD24" ELSE "CMD17"
      /\ Current.addr = IF sdhc THEN Lba ELSE (Lba * SectorBytes) % AddrSpan
      /\ Lba \in Nat
  BY <1>1 DEF Current, Lba
<1>3. CASE sdhc
  BY <1>2, <1>3, Zenon DEF Commands
<1>4. CASE ~sdhc
  <2>1. SdscLimit \in Nat
    BY SdhciAssumption, Z3 DEF SdscLimit
  <2>2. Lba < SdscLimit
    BY <1>1, <1>4, <2>1 DEF ServeOK, Lba
  <2> QED BY <1>2, <1>4, <2>2, ByteAddress, Zenon DEF Commands
<1> QED BY <1>3, <1>4, Zenon

LEMMA StutterInv == ASSUME IInv, UNCHANGED sdhciVars PROVE IInv'
BY DEF IInv, TypeOK, FreeOK, ProbeOK, ServeOK, ControllerOK, MovedOK, Idle, Broken, OnCurrent, Filled,
       Handed, SectorMoved, Lba, Current, Moving, sdhciVars, driverVars, holderVars, cardVars

\* init or a request ends with an error: the card is given up without power.
LEMMA FailInv == ASSUME IInv, ProbeOK \/ ServeOK, Fail PROVE IInv'
<1> USE SdhciAssumption DEF Fail, ShutdownLocked, Release
<1>0. base /\ (owner = Probe \/ owner \in Tasks)
  BY Zenon DEF IInv, TypeOK, ProbeOK, ServeOK
<1>1. call' \in [Tasks -> Calls \cup {None}] /\ \A t \in Tasks : call'[t] # None => call[t] # None
  BY <1>0, Zenon DEF IInv, TypeOK, Return
<1>2. buf' \in [Tasks -> [Sectors -> Written \cup {None}]]
  BY <1>0 DEF IInv, TypeOK, Return, Empty
<1>3. TypeOK'
  BY <1>0, <1>1, <1>2, Zenon DEF IInv, TypeOK
<1>4. FreeOK'
  BY <1>0, Zenon DEF FreeOK
<1>5. ControllerOK' /\ MovedOK'
  BY Zenon DEF ControllerOK, MovedOK
<1> QED BY <1>3, <1>4, <1>5, Zenon DEF IInv

LEMMA CallInv == ASSUME IInv, NEW t \in Tasks, Call(t) PROVE IInv'
<1> USE DEF Call, driverVars, holderVars, cardVars
<1>0. owner # t
  BY CallFields, SdhciAssumption, Zenon DEF IInv, FreeOK, ProbeOK, ServeOK
<1>1. TypeOK'
  BY Zenon DEF IInv, TypeOK
<1>2. (owner \in Tasks => call'[owner] = call[owner]) /\ owner' = owner
  BY <1>0, Zenon DEF IInv, TypeOK
<1>3. FreeOK' \/ ProbeOK' \/ ServeOK'
  BY <1>2, Zenon DEF IInv, FreeOK, ProbeOK, ServeOK, Idle
<1>4. owner \in Tasks => Current' = Current
  BY <1>2, Zenon DEF Current, Moving
<1>5. ControllerOK'
  BY <1>2, <1>4, Zenon DEF IInv, ControllerOK, Idle, Broken, OnCurrent, Filled, Handed, SectorMoved, Lba
<1>6. MovedOK'
  BY <1>2, Zenon DEF IInv, MovedOK, Lba
<1> QED BY <1>1, <1>3, <1>5, <1>6, Zenon DEF IInv

LEMMA BeginInitInv == ASSUME IInv, BeginInit PROVE IInv'
<1> USE SdhciAssumption DEF BeginInit, cardVars
<1>1. TypeOK'
  BY Zenon DEF IInv, TypeOK
<1>2. ProbeOK'
  BY Holders, Zenon DEF FreeOK, ProbeOK
<1>3. ControllerOK' /\ MovedOK'
  BY Zenon DEF ControllerOK, MovedOK
<1> QED BY <1>1, <1>2, <1>3, Zenon DEF IInv

LEMMA ResetInv == ASSUME IInv, Reset PROVE IInv'
<1>0. ProbeOK
  BY Holders, Zenon DEF Reset
<1>1. CASE Fail
  BY <1>0, <1>1, FailInv, Zenon
<1>2. CASE ~Fail
  <2> USE <1>2, SdhciAssumption DEF Reset, driverVars
  <2>1. TypeOK'
    <3>1. power' \in BOOLEAN /\ engine' \in Engines \cup {None} /\ at' \in Nat
      BY <1>0, Zenon DEF IInv, TypeOK, ProbeOK
    <3>2. UNCHANGED <<state, base, sdhc, published, call, buf, fifo, media>>
      BY Zenon
    <3> QED BY <3>1, <3>2, Zenon DEF IInv, TypeOK
  <2>2. ProbeOK'
    BY <1>0 DEF ProbeOK, Idle
  <2>3. ControllerOK' /\ MovedOK'
    BY <1>0, Zenon DEF ProbeOK, ControllerOK, MovedOK
  <2> QED BY <2>1, <2>2, <2>3, Zenon DEF IInv
<1> QED BY <1>1, <1>2, Zenon

LEMMA PowerOnInv == ASSUME IInv, PowerOn PROVE IInv'
<1>0. ProbeOK
  BY Holders, Zenon DEF PowerOn
<1>1. CASE Fail
  BY <1>0, <1>1, FailInv, Zenon
<1>2. CASE ~Fail
  <2> USE <1>2, SdhciAssumption, IdentifyIs DEF PowerOn, driverVars
  <2>1. TypeOK'
    <3>0. power' = TRUE /\ at' = 1 /\ engine' = engine
      BY Zenon
    <3>1. power' \in BOOLEAN /\ engine' \in Engines \cup {None} /\ at' \in Nat
      BY <3>0, Zenon DEF IInv, TypeOK
    <3>2. UNCHANGED <<state, base, sdhc, published, call, buf, fifo, media>>
      BY Zenon
    <3> QED BY <3>1, <3>2, Zenon DEF IInv, TypeOK
  <2>2. ProbeOK'
    BY <1>0 DEF ProbeOK, Idle
  <2>3. ControllerOK' /\ MovedOK'
    BY <1>0, Zenon DEF ProbeOK, ControllerOK, MovedOK
  <2> QED BY <2>1, <2>2, <2>3, Zenon DEF IInv
<1> QED BY <1>1, <1>2, Zenon

LEMMA BeginInv == ASSUME IInv, NEW t \in Tasks, Begin(t) PROVE IInv'
<1> USE SdhciAssumption DEF Begin, driverVars, cardVars
<1>0. FreeOK /\ call[t] \in Calls /\ call[t] # None
  BY Holders, Zenon DEF IInv, TypeOK
<1>1. CASE Serves(call[t])
  <2>1. TypeOK'
    BY <1>1 DEF IInv, TypeOK
  <2>2. call[t].first \in Nat /\ call[t].count \in Nat /\ SdscLimit \in Nat
    BY <1>0, CallFields, Z3 DEF SdscLimit
  <2>3. /\ state = "Ready"
        /\ sdhc \/ call[t].first + call[t].count <= SdscLimit
    BY <1>1, <2>2 DEF Serves
  <2>4. ServeOK'
    BY <1>0, <1>1, <2>2, <2>3 DEF IInv, TypeOK, ServeOK
  <2>5. ControllerOK'
    BY <1>0, <1>1, <2>3, Zenon DEF FreeOK, ControllerOK, Idle
  <2>6. MovedOK'
    <3>1. Lba' = call[t].first
      BY <1>1, <2>2 DEF Lba
    <3>2. \A s \in Sectors : ~(call[t].first <= s /\ s < call[t].first)
      BY <2>2
    <3> QED BY <1>1, <3>1, <3>2, Zenon DEF MovedOK
  <2> QED BY <2>1, <2>4, <2>5, <2>6, Zenon DEF IInv
<1>2. CASE ~Serves(call[t])
  <2>1. TypeOK'
    BY <1>2 DEF IInv, TypeOK, Return, Empty
  <2>2. FreeOK'
    BY <1>0, <1>2, Zenon DEF FreeOK, Idle
  <2>3. ControllerOK' /\ MovedOK'
    BY <1>0, <1>2, Zenon DEF FreeOK, ControllerOK, MovedOK
  <2> QED BY <2>1, <2>2, <2>3, Zenon DEF IInv
<1> QED BY <1>1, <1>2, Zenon

LEMMA EndInv == ASSUME IInv, End PROVE IInv'
<1> USE SdhciAssumption DEF End, Return, Release, driverVars, cardVars
<1>0. ServeOK
  BY Holders, Zenon DEF Moving
<1>1. TypeOK'
  BY <1>0, Zenon DEF IInv, TypeOK, Empty
<1>2. FreeOK'
  BY <1>0, Zenon DEF IInv, ServeOK, ControllerOK, FreeOK, Idle
<1>3. ControllerOK' /\ MovedOK'
  BY Zenon DEF ControllerOK, MovedOK
<1> QED BY <1>1, <1>2, <1>3, Zenon DEF IInv

LEMMA PublishInv == ASSUME IInv, Publish PROVE IInv'
<1> USE SdhciAssumption DEF Publish, ShutdownLocked, holderVars, driverVars, cardVars
<1>1. TypeOK'
  <2>1. CASE published' = TRUE /\ UNCHANGED <<driverVars, cardVars>>
    BY <2>1, Zenon DEF IInv, TypeOK
  <2>2. CASE ShutdownLocked /\ UNCHANGED published
    <3>1. power' \in BOOLEAN /\ base' \in BOOLEAN /\ sdhc' \in BOOLEAN /\ ~base' /\ state' = "Offline"
      BY <2>2, Zenon DEF IInv, TypeOK
    <3> QED BY <2>2, <3>1, Zenon DEF IInv, TypeOK
  <2> QED BY <2>1, <2>2, Zenon
<1>2. FreeOK'
  BY Holders, Zenon DEF IInv, TypeOK, FreeOK, Idle
<1>3. ControllerOK' /\ MovedOK'
  BY Zenon DEF ControllerOK, MovedOK
<1> QED BY <1>1, <1>2, <1>3, Zenon DEF IInv

\* What a step of the controller, or one that leaves the request where it is,
\* does not change.
LEMMA SameRequest ==
  ASSUME UNCHANGED <<owner, at, call, sdhc>>
  PROVE  Current' = Current /\ Lba' = Lba /\ Moving' = Moving
BY Zenon DEF Current, Lba, Moving

LEMMA SendCmdInv == ASSUME IInv, SendCmd PROVE IInv'
<1>0. ProbeOK \/ ServeOK
  BY Holders, Zenon DEF SendCmd, Steps
<1>1. CASE Fail
  BY <1>0, <1>1, FailInv, Zenon
<1>2. CASE ~Fail
  <2>1. /\ step = "send" /\ (Moving => at < call[owner].count) /\ ~Inhibited
        /\ status' = {} /\ step' = "cmd"
        /\ engine' = [cmd |-> Current.cmd, addr |-> Current.addr, stage |-> "sent"]
        /\ busy' = IF Moving /\ busy = None THEN "data" ELSE busy
        /\ UNCHANGED <<state, base, blocks, sdhc, owner, at, tries, power, fifo, media, inits,
                       published, call, buf>>
    BY <1>2, Zenon DEF SendCmd, driverVars
  <2>2. Current' = Current /\ Lba' = Lba /\ Moving' = Moving
    BY <2>1, SameRequest, Zenon
  <2>3. Current.cmd \in Commands /\ Current.addr \in Nat
    <3>1. CASE ProbeOK
      BY <2>1, <3>1, Holders, IdentifyCommands, Zenon DEF ProbeOK, Current
    <3>2. CASE ServeOK
      BY <2>1, <3>2, Holders, CurrentIs, Zenon
    <3> QED BY <1>0, <3>1, <3>2, Zenon
  <2>4. /\ engine' \in Engines /\ engine' # None
        /\ engine'.cmd = Current.cmd /\ engine'.addr = Current.addr /\ engine'.stage = "sent"
    BY <2>1, <2>3, SdhciAssumption DEF Engines
  <2>5. TypeOK'
    BY <2>1, <2>4, Zenon DEF IInv, TypeOK
  <2>6. CASE ProbeOK
    <3>0. ~Moving /\ owner \notin Tasks
      BY <2>6, Holders, Zenon DEF Moving
    <3>1. Current.cmd = Identify[at] /\ at \in 1 .. Len(Identify) /\ busy' = busy /\ Idle
      BY <2>1, <2>6, <3>0, Zenon DEF ProbeOK, Current
    <3>2. ProbeOK'
      BY <2>1, <2>4, <2>6, <3>1, Zenon DEF ProbeOK, Idle
    <3>3. ControllerOK' /\ MovedOK'
      BY <2>1, <3>0, Zenon DEF ControllerOK, MovedOK
    <3> QED BY <2>5, <3>2, <3>3, Zenon DEF IInv
  <2>7. CASE ServeOK
    <3>1. Moving /\ busy' = "data"
      BY <2>1, <2>7, Holders, Zenon DEF Inhibited
    <3>2. ServeOK'
      BY <2>1, <2>7, <3>1, Zenon DEF ServeOK
    <3>3. ControllerOK'
      BY <2>1, <2>2, <2>4, <3>1, Zenon DEF ControllerOK, OnCurrent
    <3>4. MovedOK'
      BY <2>1, <2>2, Zenon DEF IInv, MovedOK
    <3> QED BY <2>5, <3>2, <3>3, <3>4, Zenon DEF IInv
  <2> QED BY <1>0, <2>6, <2>7, Zenon
<1> QED BY <1>1, <1>2, Zenon

\* card_identify goes on after a response.
LEMMA RespondedInv ==
  ASSUME IInv, ProbeOK, step = "cmd", "cmd" \in status, Responded,
         UNCHANGED <<power, busy, engine, fifo, media, inits, published, call, buf>>
  PROVE  IInv'
<1> USE SdhciAssumption
<1>0. /\ Idle /\ Idle' /\ at \in 1 .. 9 /\ owner = Probe /\ ~published /\ state = "Initializing" /\ base
  BY IdentifyIs, Zenon DEF IInv, TypeOK, ProbeOK, Idle
<1>1. CASE Identify[at] = "CMD16"
  <2>1. /\ state' = "Ready" /\ owner' = None /\ step' = None /\ at' = 0 /\ base' = base /\ sdhc' = sdhc
    BY <1>1, Zenon DEF Responded, Release
  <2>2. TypeOK'
    BY <1>0, <2>1, Zenon DEF IInv, TypeOK
  <2>3. FreeOK' /\ ControllerOK' /\ MovedOK'
    BY <1>0, <2>1, Zenon DEF FreeOK, ControllerOK, MovedOK
  <2> QED BY <2>2, <2>3, Zenon DEF IInv
<1>2. CASE Identify[at] # "CMD16"
  <2>1. at # 9
    BY <1>2, IdentifyIs, Zenon
  <2>2. /\ step' = "send" /\ owner' = owner /\ state' = state /\ base' = base
        /\ at' = at + 1 \/ (Identify[at] = "ACMD41" /\ at' = at - 1)
    BY <1>2, Zenon DEF Responded, driverVars
  <2>3. sdhc' \in BOOLEAN
    BY <1>2, Zenon DEF Responded, driverVars, IInv, TypeOK
  <2>4. at' \in 1 .. 9
    <3>1. CASE at' = at + 1
      BY <1>0, <2>1, <3>1
    <3>2. CASE Identify[at] = "ACMD41" /\ at' = at - 1
      <4>1. at # 1
        BY <3>2, IdentifyIs, Zenon
      <4> QED BY <1>0, <3>2, <4>1
    <3> QED BY <2>2, <3>1, <3>2, Zenon
  <2>5. TypeOK'
    BY <1>0, <2>2, <2>3, <2>4 DEF IInv, TypeOK
  <2>6. ProbeOK'
    BY <1>0, <2>2, <2>4, IdentifyIs, Zenon DEF ProbeOK
  <2>7. ControllerOK' /\ MovedOK'
    BY <1>0, <2>2, Zenon DEF ControllerOK, MovedOK
  <2> QED BY <2>5, <2>6, <2>7, Zenon DEF IInv
<1> QED BY <1>1, <1>2, Zenon

LEMMA WaitCmdDoneInv == ASSUME IInv, WaitCmdDone PROVE IInv'
<1>0. (ProbeOK \/ ServeOK) /\ step = "cmd"
  BY Holders, Zenon DEF WaitCmdDone, Steps
<1>1. CASE Fail
  BY <1>0, <1>1, FailInv, Zenon
<1>2. CASE ~Fail
  <2>1. /\ "err" \notin status /\ "cmd" \in status
        /\ status' = status \ {"cmd"}
        /\ UNCHANGED <<power, busy, engine, fifo, media, inits, published, call, buf>>
        /\ IF Moving
           THEN step' = "buf" /\ UNCHANGED <<owner, at, tries, driverVars>>
           ELSE Responded
    BY <1>2, Zenon DEF WaitCmdDone, Poll
  <2>2. CASE ProbeOK
    BY <1>0, <2>1, <2>2, Holders, RespondedInv, Zenon
  <2>3. CASE ServeOK
    <3>1. Moving /\ step' = "buf" /\ UNCHANGED <<owner, at, state, base, blocks, sdhc>>
      BY <2>1, <2>3, Holders, Zenon DEF driverVars
    <3>2. Current' = Current /\ Lba' = Lba
      BY <2>1, <3>1, SameRequest, Zenon
    <3>3. TypeOK'
      BY <2>1, <3>1, Zenon DEF IInv, TypeOK
    <3>4. ServeOK'
      BY <1>0, <2>1, <2>3, <3>1, Zenon DEF ServeOK
    <3>5. /\ busy = "data"
          /\ \/ OnCurrent("data") /\ status = {"cmd"}
             \/ OnCurrent("wait") /\ status = {"cmd", "buf"} /\ Filled
      BY <1>0, <2>1, <3>1, Zenon DEF IInv, ControllerOK, Broken, Moving
    <3>6. ControllerOK'
      BY <2>1, <3>1, <3>2, <3>5, Zenon DEF ControllerOK, OnCurrent, Filled
    <3>7. MovedOK'
      BY <2>1, <3>1, <3>2, Zenon DEF IInv, MovedOK
    <3> QED BY <3>3, <3>4, <3>6, <3>7, Zenon DEF IInv
  <2> QED BY <1>0, <2>2, <2>3, Zenon
<1> QED BY <1>1, <1>2, Zenon

LEMMA MoveBufferInv == ASSUME IInv, MoveBuffer PROVE IInv'
<1>0. ServeOK /\ step = "buf" /\ owner \in Tasks
  BY Holders, Zenon DEF MoveBuffer, ServeOK
<1>1. CASE Fail
  BY <1>0, <1>1, FailInv, Zenon
<1>2. CASE ~Fail
  <2>1. /\ "err" \notin status /\ "buf" \in status
        /\ status' = status \ {"buf"} /\ step' = "xfer"
        /\ IF call[owner].write THEN fifo' = owner /\ buf' = buf
           ELSE /\ buf' = [buf EXCEPT ![owner][call[owner].first + at] = fifo]
                /\ fifo' = fifo
        /\ engine' = IF engine = None THEN None ELSE [engine EXCEPT !.stage = "moved"]
        /\ UNCHANGED <<state, base, blocks, sdhc, owner, at, tries, power, busy, media, inits,
                       published, call>>
    BY <1>2, Zenon DEF MoveBuffer, Poll, driverVars
  <2>2. Current' = Current /\ Lba' = Lba
    BY <2>1, SameRequest, Zenon
  <2>3. OnCurrent("wait") /\ status = {"buf"} /\ Filled /\ busy = "data"
    BY <1>0, <2>1, Zenon DEF IInv, ControllerOK, Broken
  <2>4. /\ engine' \in Engines /\ engine' # None
        /\ engine'.cmd = engine.cmd /\ engine'.addr = engine.addr /\ engine'.stage = "moved"
    BY <2>1, <2>3, SdhciAssumption, Zenon DEF IInv, TypeOK, OnCurrent, Engines
  <2>5. TypeOK'
    BY <1>0, <2>1, <2>4 DEF IInv, TypeOK, Written, Lba
  <2>6. ServeOK'
    BY <1>0, <2>1, Zenon DEF ServeOK
  <2>7. /\ ~call[owner].write => Lba \in Sectors /\ buf'[owner][Lba] = media[Lba]
        /\ \A s \in Sectors : buf'[owner][s] = IF ~call[owner].write /\ s = Lba THEN fifo ELSE buf[owner][s]
    BY <1>0, <2>1, <2>3 DEF IInv, TypeOK, Filled, Lba
  <2>8. Handed'
    BY <1>0, <2>1, <2>2, <2>7, Zenon DEF Handed, SectorMoved
  <2>9. ControllerOK'
    BY <1>0, <2>1, <2>2, <2>3, <2>4, <2>8, Zenon DEF ControllerOK, OnCurrent
  <2>10. Lba \in Nat
    BY <1>0, CurrentIs, Zenon DEF ServeOK
  <2>11. MovedOK'
    BY <1>0, <2>1, <2>2, <2>7, <2>10, SdhciAssumption, Zenon DEF IInv, MovedOK
  <2> QED BY <2>5, <2>6, <2>9, <2>11, Zenon DEF IInv
<1> QED BY <1>1, <1>2, Zenon

LEMMA WaitXferDoneInv == ASSUME IInv, WaitXferDone PROVE IInv'
<1>0. ServeOK /\ step = "xfer" /\ owner \in Tasks
  BY Holders, Zenon DEF WaitXferDone, ServeOK
<1>1. CASE Fail
  BY <1>0, <1>1, FailInv, Zenon
<1>2. CASE ~Fail
  <2>1. /\ "err" \notin status /\ "xfer" \in status
        /\ at' = at + 1 /\ step' = "send"
        /\ UNCHANGED <<state, base, blocks, sdhc, owner, tries, power, busy, engine, fifo, media, inits,
                       published, call, buf>>
    BY <1>2, Zenon DEF WaitXferDone, Poll, driverVars
  <2>2. Idle /\ SectorMoved
    BY <1>0, <2>1, Zenon DEF IInv, ControllerOK, Broken
  <2>3. /\ at \in Nat /\ call[owner].first \in Nat /\ call[owner].count \in Nat /\ at < call[owner].count
        /\ Lba' = Lba + 1 /\ Lba \in Nat
    <3>1. at \in Nat /\ call[owner].first \in Nat /\ call[owner].count \in Nat /\ at < call[owner].count
      BY <1>0, CallFields, Zenon DEF IInv, TypeOK, ServeOK
    <3>2. Lba' = call[owner].first + (at + 1)
      BY <2>1, Zenon DEF Lba
    <3> QED BY <3>1, <3>2 DEF Lba
  <2>4. TypeOK'
    BY <2>1, <2>3 DEF IInv, TypeOK
  <2>5. ServeOK'
    BY <1>0, <2>1, <2>3 DEF ServeOK
  <2>6. ControllerOK'
    BY <2>1, <2>2, Zenon DEF ControllerOK, Idle
  <2>7. MovedOK'
    <3>1. \A s \in Sectors : s < Lba' => s < Lba \/ s = Lba
      BY <2>3, SdhciAssumption
    <3> QED BY <1>0, <2>1, <2>2, <3>1, Zenon DEF IInv, MovedOK, SectorMoved
  <2> QED BY <2>4, <2>5, <2>6, <2>7, Zenon DEF IInv
<1> QED BY <1>1, <1>2, Zenon

\* While the controller works, who works with it?
LEMMA Worker ==
  ASSUME IInv, power, engine # None
  PROVE  \/ ProbeOK /\ step = "cmd" /\ engine.stage = "sent" /\ engine.cmd \notin {"CMD17", "CMD24"}
         \/ /\ ServeOK /\ owner \in Tasks /\ step \in {"cmd", "buf", "xfer"} /\ OnCurrent(engine.stage)
            /\ engine.stage = "sent" => step = "cmd" /\ status = {}
            /\ engine.stage = "data" => \/ step = "cmd" /\ status = {"cmd"}
                                        \/ step = "buf" /\ status = {}
            /\ engine.stage = "moved" => step = "xfer" /\ Handed
            /\ busy = "data"
<1>1. CASE FreeOK
  BY <1>1, Zenon DEF FreeOK, Idle, IInv, TypeOK
<1>2. CASE ProbeOK
  BY <1>2, IdentifyCommands, Zenon DEF ProbeOK, Idle
<1>3. CASE ServeOK
  BY <1>3, Zenon DEF IInv, ServeOK, ControllerOK, Idle, Broken, OnCurrent
<1> QED BY <1>1, <1>2, <1>3, Zenon DEF IInv

\* The sector the controller takes a data command to be about.
LEMMA SectorIs ==
  ASSUME IInv, ServeOK, step # "send", NEW s, OnCurrent(s)
  PROVE  /\ Sector = Lba /\ Lba \in Nat /\ IsData
         /\ engine.cmd = IF call[owner].write THEN "CMD24" ELSE "CMD17"
<1>1. at < call[owner].count
  BY Zenon DEF ServeOK
<1> QED BY <1>1, CurrentIs, Zenon DEF Sector, OnCurrent, IsData

LEMMA RespondInv == ASSUME IInv, Respond PROVE IInv'
<1>0. /\ power /\ engine # None /\ engine.stage = "sent"
      /\ UNCHANGED <<state, base, blocks, sdhc, owner, step, at, tries, power, fifo, media, inits,
                     published, call, buf>>
  BY Zenon DEF Respond, driverVars, holderVars
<1>1. Current' = Current /\ Lba' = Lba /\ Moving' = Moving
  BY <1>0, SameRequest, Zenon
<1>2. CASE ProbeOK
  <2>0. step = "cmd" /\ engine.cmd \notin {"CMD17", "CMD24"} /\ owner \notin Tasks
    BY <1>0, <1>2, Worker, Holders, Zenon DEF Moving
  <2>1. engine' = None /\ busy' \in {busy, "select"}
    BY <2>0, Zenon DEF Respond, IsData
  <2>2. TypeOK'
    BY <1>0, <2>1, Zenon DEF IInv, TypeOK
  <2>3. ProbeOK'
    BY <1>0, <1>2, <2>0, <2>1, Zenon DEF ProbeOK
  <2>4. ControllerOK' /\ MovedOK'
    BY <1>0, <2>0, Zenon DEF ControllerOK, MovedOK
  <2> QED BY <2>2, <2>3, <2>4, Zenon DEF IInv
<1>3. CASE ServeOK
  <2>0. step = "cmd" /\ status = {} /\ owner \in Tasks /\ OnCurrent("sent") /\ busy = "data"
    BY <1>0, <1>3, Worker, Holders, Zenon DEF ServeOK, ProbeOK, Moving
  <2>1. IsData /\ engine.cmd # "CMD7"
    BY <1>3, <2>0, SectorIs, Zenon
  <2>2. /\ busy' = busy
        /\ \/ status' = {"cmd"} /\ engine' = [engine EXCEPT !.stage = "data"]
           \/ "err" \in status' /\ engine' = None
    BY <2>0, <2>1, Zenon DEF Respond
  <2>3. /\ engine' \in Engines \cup {None}
        /\ \/ Broken'
           \/ OnCurrent("data")' /\ status' = {"cmd"}
    <3>1. CASE engine' = None
      <4>1. [engine EXCEPT !.stage = "data"] \in Engines
        BY <1>0, Zenon DEF IInv, TypeOK, Engines
      <4>2. "err" \in status'
        BY <2>2, <3>1, <4>1, SdhciAssumption, Zenon
      <4> QED BY <3>1, <4>2, Zenon DEF Broken
    <3>2. CASE engine' # None
      <4>1. engine' = [engine EXCEPT !.stage = "data"] /\ engine \in Engines /\ status' = {"cmd"}
        BY <1>0, <2>2, <3>2, Zenon DEF IInv, TypeOK
      <4>2. engine' \in Engines /\ engine'.cmd = engine.cmd /\ engine'.addr = engine.addr
            /\ engine'.stage = "data"
        BY <4>1, Zenon DEF Engines
      <4> QED BY <1>1, <2>0, <3>2, <4>1, <4>2, Zenon DEF OnCurrent
    <3> QED BY <3>1, <3>2, Zenon
  <2>4. TypeOK'
    BY <1>0, <2>3, Zenon DEF IInv, TypeOK
  <2>5. ServeOK'
    BY <1>0, <1>3, Zenon DEF ServeOK
  <2>6. ControllerOK'
    BY <1>0, <2>0, <2>2, <2>3, Zenon DEF ControllerOK
  <2>7. MovedOK'
    BY <1>0, <1>1, Zenon DEF IInv, MovedOK
  <2> QED BY <2>4, <2>5, <2>6, <2>7, Zenon DEF IInv
<1> QED BY <1>0, <1>2, <1>3, Worker, Zenon

LEMMA BufferReadyInv == ASSUME IInv, BufferReady PROVE IInv'
<1>0. /\ power /\ engine # None /\ engine.stage = "data"
      /\ UNCHANGED <<state, base, blocks, sdhc, owner, step, at, tries, power, busy, media, inits,
                     published, call, buf>>
  BY Zenon DEF BufferReady, driverVars, holderVars
<1>1. Current' = Current /\ Lba' = Lba /\ Moving' = Moving
  BY <1>0, SameRequest, Zenon
<1>2. /\ ServeOK /\ owner \in Tasks /\ OnCurrent("data") /\ busy = "data"
      /\ \/ step = "cmd" /\ status = {"cmd"}
         \/ step = "buf" /\ status = {}
  BY <1>0, Worker, Zenon
<1>3. /\ Sector = Lba /\ engine.cmd = IF call[owner].write THEN "CMD24" ELSE "CMD17"
  BY <1>2, SectorIs, Zenon
<1>4. CASE engine' = None
  <2>1. fifo' = fifo /\ "err" \in status'
    <3>1. engine \in Engines /\ [engine EXCEPT !.stage = "wait"] \in Engines
      BY <1>0, Zenon DEF IInv, TypeOK, Engines
    <3> QED BY <1>4, <3>1, SdhciAssumption, Zenon DEF BufferReady
  <2>2. TypeOK'
    BY <1>0, <1>4, <2>1, Zenon DEF IInv, TypeOK
  <2>3. ServeOK'
    BY <1>0, <1>2, Zenon DEF ServeOK
  <2>4. ControllerOK'
    BY <1>0, <1>2, <1>4, <2>1, Zenon DEF ControllerOK, Broken
  <2>5. MovedOK'
    BY <1>0, <1>1, Zenon DEF IInv, MovedOK
  <2> QED BY <2>2, <2>3, <2>4, <2>5, Zenon DEF IInv
<1>5. CASE engine' # None
  <2>1. /\ ~call[owner].write => Lba \in Sectors /\ fifo' = media[Lba]
        /\ call[owner].write => fifo' = fifo
        /\ status' = status \cup {"buf"}
        /\ engine' = [engine EXCEPT !.stage = "wait"]
    BY <1>3, <1>5, Zenon DEF BufferReady
  <2>2. engine' \in Engines /\ engine'.cmd = engine.cmd /\ engine'.addr = engine.addr
        /\ engine'.stage = "wait"
    BY <1>0, <2>1, Zenon DEF IInv, TypeOK, Engines
  <2>3. OnCurrent("wait")' /\ Filled'
    BY <1>0, <1>1, <1>2, <1>5, <2>1, <2>2, Zenon DEF OnCurrent, Filled
  <2>4. fifo' \in Written \cup {None}
    BY <2>1, Zenon DEF IInv, TypeOK
  <2>5. TypeOK'
    BY <1>0, <2>2, <2>4, Zenon DEF IInv, TypeOK
  <2>6. ServeOK'
    BY <1>0, <1>2, Zenon DEF ServeOK
  <2>7. ControllerOK'
    BY <1>0, <1>2, <2>1, <2>3, Zenon DEF ControllerOK
  <2>8. MovedOK'
    BY <1>0, <1>1, Zenon DEF IInv, MovedOK
  <2> QED BY <2>5, <2>6, <2>7, <2>8, Zenon DEF IInv
<1> QED BY <1>4, <1>5, Zenon

LEMMA FinishInv == ASSUME IInv, Finish PROVE IInv'
<1>0. /\ power /\ engine # None /\ engine.stage = "moved" /\ engine' = None
      /\ UNCHANGED <<state, base, blocks, sdhc, owner, step, at, tries, power, fifo, inits, published, call, buf>>
  BY Zenon DEF Finish, driverVars, holderVars
<1>1. Current' = Current /\ Lba' = Lba /\ Moving' = Moving
  BY <1>0, SameRequest, Zenon
<1>2. ServeOK /\ owner \in Tasks /\ OnCurrent("moved") /\ busy = "data" /\ step = "xfer" /\ Handed
  BY <1>0, Worker, Zenon
<1>3. /\ Sector = Lba /\ Lba \in Nat
      /\ engine.cmd = IF call[owner].write THEN "CMD24" ELSE "CMD17"
  BY <1>2, SectorIs, Zenon
<1>4. busy' = None
  BY <1>2, Zenon DEF Finish
<1>5. \/ "err" \in status' /\ media' = media
      \/ /\ call[owner].write => Lba \in Sectors /\ media' = [media EXCEPT ![Lba] = owner]
         /\ ~call[owner].write => media' = media
  BY <1>2, <1>3, Zenon DEF Finish, Handed
<1>6. media' \in [Sectors -> Written]
  BY <1>2, <1>5, Zenon DEF IInv, TypeOK, Written
<1>7. TypeOK'
  BY <1>0, <1>6, Zenon DEF IInv, TypeOK
<1>8. ServeOK'
  BY <1>0, <1>2, Zenon DEF ServeOK
<1>9. ControllerOK'
  <2>1. CASE "err" \in status'
    BY <1>0, <1>2, <2>1, Zenon DEF ControllerOK, Broken
  <2>2. CASE "err" \notin status'
    <3>1. SectorMoved'
      BY <1>0, <1>1, <1>2, <1>5, <2>2, Zenon DEF IInv, TypeOK, Handed, SectorMoved
    <3> QED BY <1>0, <1>2, <1>4, <3>1, Zenon DEF ControllerOK, Idle
  <2> QED BY <2>1, <2>2, Zenon
<1>10. MovedOK'
  BY <1>0, <1>1, <1>2, <1>5, Zenon DEF IInv, TypeOK, MovedOK
<1> QED BY <1>7, <1>8, <1>9, <1>10, Zenon DEF IInv

LEMMA EndBusyInv == ASSUME IInv, EndBusy PROVE IInv'
<1>0. /\ power /\ busy = "select" /\ busy' = None /\ status' = status \cup {"xfer"}
      /\ UNCHANGED <<state, base, blocks, sdhc, owner, step, at, tries, power, engine, fifo, media, inits,
                     published, call, buf>>
  BY Zenon DEF EndBusy, driverVars, holderVars
<1>1. Current' = Current /\ Lba' = Lba /\ Moving' = Moving
  BY <1>0, SameRequest, Zenon
<1>2. TypeOK' /\ MovedOK'
  BY <1>0, <1>1, Zenon DEF IInv, TypeOK, MovedOK
<1>3. FreeOK \/ ProbeOK => FreeOK' \/ ProbeOK'
  BY <1>0, Zenon DEF FreeOK, ProbeOK, Idle
<1>4. ServeOK => ServeOK'
  BY <1>0, Zenon DEF ServeOK
<1>5. ControllerOK'
  BY <1>0, <1>1, Zenon DEF IInv, ControllerOK, Idle, Broken, OnCurrent, SectorMoved
<1> QED BY <1>2, <1>3, <1>4, <1>5, Zenon DEF IInv

LEMMA InitInv == SdhciInit => IInv
<1> SUFFICES ASSUME SdhciInit PROVE IInv
  BY Zenon
<1> USE SdhciAssumption DEF SdhciInit
<1>1. TypeOK
  BY Zenon DEF TypeOK, Written, Empty
<1>2. FreeOK /\ ControllerOK /\ MovedOK
  BY Zenon DEF FreeOK, ControllerOK, MovedOK
<1> QED BY <1>1, <1>2, Zenon DEF IInv

LEMMA Inductive == IInv /\ [SdhciNext]_sdhciVars => IInv'
<1> SUFFICES ASSUME IInv, [SdhciNext]_sdhciVars PROVE IInv'
  BY Zenon
<1>1. CASE UNCHANGED sdhciVars
  BY <1>1, StutterInv, Zenon
<1>2. ASSUME NEW t \in Tasks, Call(t) \/ Begin(t) PROVE IInv'
  BY <1>2, CallInv, BeginInv, Zenon
<1>3. CASE BeginInit \/ Reset \/ PowerOn \/ SendCmd \/ WaitCmdDone \/ MoveBuffer \/ WaitXferDone \/ End \/ Publish
  BY <1>3, BeginInitInv, ResetInv, PowerOnInv, SendCmdInv, WaitCmdDoneInv, MoveBufferInv, WaitXferDoneInv,
     EndInv, PublishInv, Zenon
<1>4. CASE Respond \/ BufferReady \/ Finish \/ EndBusy
  BY <1>4, RespondInv, BufferReadyInv, FinishInv, EndBusyInv, Zenon
<1> QED BY <1>1, <1>2, <1>3, <1>4, Zenon DEF SdhciNext

(***************************************************************************)
(* Every step is a step of the block device                                *)
(***************************************************************************)

CallOf == [t \in Tasks |-> IF call[t] = None THEN None
                           ELSE [write |-> call[t].write, range |-> Span(call[t])]]
ServerOf == IF Moving THEN owner ELSE None
QuietOf == ~power
DeviceStep == [Device!Next]_(Device!vars)

\* A step of the driver or the card that the device does not show.
LEMMA HiddenStep ==
  ASSUME UNCHANGED <<state, media, call, buf, power>>, ServerOf' = ServerOf
  PROVE  DeviceStep
<1>1. CallOf' = CallOf /\ QuietOf' = QuietOf
  BY Zenon DEF CallOf, QuietOf, Span
<1> QED BY <1>1, Zenon DEF DeviceStep, Device!vars, QuietOf, CallOf, ServerOf

LEMMA WorkStep ==
  ASSUME UNCHANGED <<state, media, call, buf, owner>>, state # "Offline"
  PROVE  DeviceStep
<1>1. CallOf' = CallOf /\ ServerOf' = ServerOf /\ QuietOf' \in BOOLEAN
  BY Zenon DEF CallOf, ServerOf, Moving, QuietOf, Span
<1>2. Device!Work
  BY <1>1, Zenon DEF Device!Work, CallOf, ServerOf, QuietOf
<1> QED BY <1>2, Zenon DEF DeviceStep, Device!Next

LEMMA MappedCall ==
  ASSUME NEW t \in Tasks, call[t] \in Calls
  PROVE  CallOf[t] # None /\ CallOf[t].write = call[t].write /\ CallOf[t].range = Span(call[t])
<1>1. call[t] # None /\ call[t].write \in BOOLEAN
  BY CallFields, Zenon
<1>2. CallOf[t] = [write |-> call[t].write, range |-> Span(call[t])]
  BY <1>1, Zenon DEF CallOf
<1>3. [write |-> call[t].write, range |-> Span(call[t])] \in [write : BOOLEAN, range : SUBSET Sectors]
  BY <1>1, Zenon DEF Span
<1>4. None \notin [write : BOOLEAN, range : SUBSET Sectors]
  BY SdhciAssumption, Zenon
<1> QED BY <1>2, <1>3, <1>4

LEMMA MappedReturn ==
  ASSUME IInv, NEW t \in Tasks, Return(t)
  PROVE  /\ CallOf' = [CallOf EXCEPT ![t] = None]
         /\ buf' = [buf EXCEPT ![t] = [s \in Sectors |-> None]]
BY Zenon DEF Return, CallOf, Span, Empty, IInv, TypeOK

LEMMA CallStep == ASSUME IInv, NEW t \in Tasks, Call(t) PROVE DeviceStep
<1>1. PICK r \in Calls : call' = [call EXCEPT ![t] = r]
  BY Zenon DEF Call
<1>2. /\ call[t] = None /\ UNCHANGED <<state, media, buf>> /\ QuietOf' = QuietOf /\ ServerOf' = ServerOf
  BY Zenon DEF Call, driverVars, holderVars, cardVars, QuietOf, ServerOf, Moving
<1>3. \A u \in Tasks : call'[u] = IF u = t THEN r ELSE call[u]
  BY <1>1, Zenon DEF IInv, TypeOK
<1>4. r # None /\ r.write \in BOOLEAN
  BY CallFields, Zenon
<1> DEFINE q == [write |-> r.write, range |-> Span(r)]
<1>5. q \in [write : BOOLEAN, range : SUBSET Sectors]
  BY <1>4, Zenon DEF Span
<1>6. CallOf' = [CallOf EXCEPT ![t] = q]
  BY <1>2, <1>3, <1>4, Zenon DEF CallOf
<1>7. CallOf[t] = None
  BY <1>2, Zenon DEF CallOf
<1>8. Device!Request(t)
  BY <1>2, <1>5, <1>6, <1>7, Zenon DEF Device!Request, Device!Requests, CallOf, QuietOf, ServerOf
<1> QED BY <1>8, Zenon DEF DeviceStep, Device!Next

LEMMA BeginInitStep == ASSUME IInv, BeginInit PROVE DeviceStep
<1>1. CallOf' = CallOf /\ QuietOf' = QuietOf /\ QuietOf \in BOOLEAN
  BY Zenon DEF BeginInit, cardVars, CallOf, QuietOf, Span
<1>2. ServerOf = None /\ ServerOf' = None
  BY SdhciAssumption, Zenon DEF BeginInit, ServerOf, Moving
<1>3. Device!BeginInit
  BY <1>1, <1>2, Zenon DEF BeginInit, cardVars, Device!BeginInit, CallOf, QuietOf, ServerOf
<1> QED BY <1>3, Zenon DEF DeviceStep, Device!Next

\* The device is given up, in the request's answer if there is one.
LEMMA FailStep == ASSUME IInv, ProbeOK \/ ServeOK, Fail PROVE DeviceStep
<1>1. /\ state \in {"Initializing", "Ready"} /\ media' = media /\ ServerOf' = None
      /\ state' = "Offline" /\ QuietOf'
  BY SdhciAssumption, Zenon DEF IInv, TypeOK, ProbeOK, ServeOK, Fail, ShutdownLocked, Release, ServerOf, Moving, QuietOf
<1>2. Device!GiveUp
  BY <1>1, Zenon DEF Device!GiveUp, QuietOf
<1>3. CASE ServeOK
  <2>1. PICK t \in Tasks : t = owner
    BY <1>3, Zenon DEF ServeOK
  <2>2. CallOf' = [CallOf EXCEPT ![t] = None] /\ buf' = [buf EXCEPT ![t] = [s \in Sectors |-> None]]
    BY <1>3, <2>1, MappedReturn, Holders, Zenon DEF Fail
  <2>3. ServerOf = t
    BY <1>3, <2>1, Holders, Zenon DEF ServerOf
  <2>4. Device!Return(t)
    BY <2>2, Zenon DEF Device!Return, CallOf
  <2>5. Device!Break(t)
    BY <1>1, <1>2, <2>3, <2>4, Zenon DEF Device!Break, ServerOf
  <2> QED BY <2>5, Zenon DEF DeviceStep, Device!Next
<1>4. CASE ProbeOK
  <2>1. CallOf' = CallOf /\ buf' = buf /\ ServerOf = None
    BY <1>4, Holders, Zenon DEF ProbeOK, Fail, CallOf, Span, ServerOf
  <2>2. Device!Abandon
    BY <1>1, <1>2, <2>1, Zenon DEF Device!Abandon, CallOf, ServerOf
  <2> QED BY <2>2, Zenon DEF DeviceStep, Device!Next
<1> QED BY <1>3, <1>4, Zenon

LEMMA BeginStep == ASSUME IInv, NEW t \in Tasks, Begin(t) PROVE DeviceStep
<1>0. call[t] \in Calls /\ owner = None /\ UNCHANGED <<state, media>> /\ QuietOf' = QuietOf
  BY Zenon DEF Begin, IInv, TypeOK, driverVars, cardVars, QuietOf
<1>1. ServerOf = None /\ CallOf[t] # None
  BY <1>0, MappedCall, SdhciAssumption, Zenon DEF ServerOf, Moving
<1>2. CASE Serves(call[t])
  <2>1. ServerOf' = t /\ CallOf' = CallOf /\ buf' = buf /\ state = "Ready"
    BY <1>2, Zenon DEF Begin, Serves, ServerOf, Moving, CallOf, Span
  <2>2. Device!Start(t)
    BY <1>0, <1>1, <2>1, Zenon DEF Device!Start, CallOf, QuietOf, ServerOf
  <2> QED BY <2>2, Zenon DEF DeviceStep, Device!Next
<1>3. CASE ~Serves(call[t])
  <2>1. CallOf' = [CallOf EXCEPT ![t] = None] /\ buf' = [buf EXCEPT ![t] = [s \in Sectors |-> None]]
    BY <1>3, MappedReturn, Zenon DEF Begin
  <2>2. ServerOf' = None /\ None # t
    BY <1>0, <1>3, SdhciAssumption, Zenon DEF Begin, ServerOf, Moving
  <2>3. Device!Return(t)
    BY <2>1, Zenon DEF Device!Return, CallOf
  <2>4. Device!Refuse(t)
    BY <1>0, <1>1, <2>2, <2>3, Zenon DEF Device!Refuse, CallOf, QuietOf, ServerOf
  <2> QED BY <2>4, Zenon DEF DeviceStep, Device!Next
<1> QED BY <1>2, <1>3, Zenon

LEMMA EndStep == ASSUME IInv, End PROVE DeviceStep
<1>1. ServeOK /\ Moving
  BY Holders, Zenon DEF End, Moving
<1>2. PICK t \in Tasks : t = owner
  BY <1>1, Zenon DEF ServeOK
<1>3. call[t] \in Calls /\ at = call[t].count /\ state = "Ready"
  BY <1>1, <1>2, Zenon DEF End, ServeOK
<1>4. CallOf[t].write = call[t].write /\ CallOf[t].range = Span(call[t])
  BY <1>3, MappedCall, Zenon
<1>5. \A s \in Span(call[t]) : IF call[t].write THEN media[s] = t ELSE buf[t][s] = media[s]
  BY <1>2, <1>3, Zenon DEF IInv, MovedOK, Span, Lba
<1>6. Return(t) /\ UNCHANGED <<state, media>> /\ QuietOf' = QuietOf /\ ServerOf = t /\ ServerOf' = None
  BY <1>1, <1>2, SdhciAssumption, Zenon DEF End, Release, driverVars, cardVars, QuietOf, ServerOf, Moving
<1>7. CallOf' = [CallOf EXCEPT ![t] = None] /\ buf' = [buf EXCEPT ![t] = [s \in Sectors |-> None]]
  BY <1>6, MappedReturn, Zenon
<1>8. Device!Return(t)
  BY <1>7, Zenon DEF Device!Return, CallOf
<1>9. Device!Answer(t)
  BY <1>3, <1>4, <1>5, <1>6, <1>8, Zenon DEF Device!Answer, CallOf, QuietOf, ServerOf
<1> QED BY <1>9, Zenon DEF DeviceStep, Device!Next

\* reset and power_on.
LEMMA HardwareStep == ASSUME IInv, Reset \/ PowerOn PROVE DeviceStep
<1>0. ProbeOK /\ state # "Offline"
  BY Holders, Zenon DEF Reset, PowerOn, ProbeOK
<1>1. CASE Fail
  BY <1>0, <1>1, FailStep, Zenon
<1>2. CASE ~Fail
  BY <1>0, <1>2, WorkStep, Zenon DEF Reset, PowerOn, driverVars
<1> QED BY <1>1, <1>2, Zenon

\* Sending a command and waiting for its end move nothing.
LEMMA CommandStep == ASSUME IInv, SendCmd \/ WaitXferDone PROVE DeviceStep
<1>0. ProbeOK \/ ServeOK
  BY Holders, Zenon DEF SendCmd, WaitXferDone, Steps
<1>1. CASE Fail
  BY <1>0, <1>1, FailStep, Zenon
<1>2. CASE ~Fail
  <2>1. UNCHANGED <<state, media, call, buf, power, owner>>
    BY <1>2, Zenon DEF SendCmd, WaitXferDone, driverVars
  <2>2. ServerOf' = ServerOf
    BY <2>1, Zenon DEF ServerOf, Moving
  <2> QED BY <2>1, <2>2, HiddenStep, Zenon
<1> QED BY <1>1, <1>2, Zenon

\* The response to the last command of card_identify makes the device Ready.
LEMMA WaitCmdDoneStep == ASSUME IInv, WaitCmdDone PROVE DeviceStep
<1>0. (ProbeOK \/ ServeOK) /\ step = "cmd"
  BY Holders, Zenon DEF WaitCmdDone, Steps
<1>1. CASE Fail
  BY <1>0, <1>1, FailStep, Zenon
<1>2. CASE ~Fail
  <2>1. /\ UNCHANGED <<power, media, call, buf>>
        /\ IF Moving THEN UNCHANGED <<owner, state>> ELSE Responded
    BY <1>2, Zenon DEF WaitCmdDone, driverVars
  <2>2. \/ UNCHANGED <<owner, state>>
        \/ ~Moving /\ state' = "Ready" /\ owner' = None
    BY <2>1, Zenon DEF Responded, Release, driverVars
  <2>3. CASE UNCHANGED <<owner, state>>
    <3>1. ServerOf' = ServerOf
      BY <2>3, Zenon DEF ServerOf, Moving
    <3> QED BY <2>1, <2>3, <3>1, HiddenStep, Zenon
  <2>4. CASE ~Moving /\ state' = "Ready" /\ owner' = None
    <3>1. state = "Initializing"
      BY <1>0, <2>4, Holders, Zenon DEF ProbeOK
    <3>2. ServerOf = None /\ ServerOf' = None
      BY <2>4, SdhciAssumption, Zenon DEF ServerOf, Moving
    <3>3. CallOf' = CallOf /\ QuietOf' \in BOOLEAN
      BY <2>1, Zenon DEF CallOf, Span, QuietOf
    <3>4. Device!Publish
      BY <2>1, <2>4, <3>1, <3>2, <3>3, Zenon DEF Device!Publish, CallOf, QuietOf, ServerOf
    <3> QED BY <3>4, Zenon DEF DeviceStep, Device!Next
  <2> QED BY <2>2, <2>3, <2>4, Zenon
<1> QED BY <1>1, <1>2, Zenon

LEMMA MoveBufferStep == ASSUME IInv, MoveBuffer PROVE DeviceStep
<1>0. ServeOK /\ step = "buf" /\ owner \in Tasks
  BY Holders, Zenon DEF MoveBuffer, ServeOK
<1>1. CASE Fail
  BY <1>0, <1>1, FailStep, Zenon
<1>2. CASE ~Fail
  <2>1. /\ "err" \notin status /\ "buf" \in status
        /\ IF call[owner].write THEN buf' = buf
           ELSE buf' = [buf EXCEPT ![owner][call[owner].first + at] = fifo]
        /\ UNCHANGED <<state, owner, at, power, media, call>>
    BY <1>2, Zenon DEF MoveBuffer, Poll, driverVars
  <2>2. ServerOf' = ServerOf
    BY <2>1, Zenon DEF ServerOf, Moving
  <2>3. CASE call[owner].write
    BY <2>1, <2>2, <2>3, HiddenStep, Zenon
  <2>4. CASE ~call[owner].write
    <3>1. PICK t \in Tasks, l \in {Lba} : t = owner
      BY <1>0, Zenon
    <3>2. l \in Sectors /\ fifo = media[l] /\ l \in Span(call[t])
      <4>1. Filled /\ at < call[owner].count
        BY <1>0, <2>1, Zenon DEF IInv, ControllerOK, Broken, ServeOK
      <4>2. at \in Nat /\ call[owner].first \in Nat /\ call[owner].count \in Nat
        BY <1>0, CallFields, Zenon DEF IInv, TypeOK, ServeOK
      <4>3. call[owner].first <= Lba /\ Lba < call[owner].first + call[owner].count
        BY <4>1, <4>2 DEF Lba
      <4> QED BY <2>4, <3>1, <4>1, <4>3, Zenon DEF Filled, Span
    <3>3. /\ ServerOf = t /\ CallOf' = CallOf /\ state = "Ready" /\ QuietOf' \in BOOLEAN
      BY <1>0, <2>1, <3>1, Holders, Zenon DEF ServerOf, CallOf, Span, ServeOK, QuietOf
    <3>4. CallOf[t].write = call[t].write /\ CallOf[t].range = Span(call[t])
      BY <1>0, <3>1, MappedCall, Zenon DEF ServeOK
    <3>5. buf' = [buf EXCEPT ![t] = [s \in Sectors |-> IF s \in {l} THEN media[s] ELSE @[s]]]
      <4>1. buf' = [buf EXCEPT ![t] = [buf[t] EXCEPT ![l] = media[l]]]
        BY <2>1, <2>4, <3>1, <3>2, Zenon DEF Lba
      <4>2. buf[t] \in [Sectors -> Written \cup {None}]
        BY Zenon DEF IInv, TypeOK
      <4>3. [buf[t] EXCEPT ![l] = media[l]] = [s \in Sectors |-> IF s \in {l} THEN media[s] ELSE buf[t][s]]
        BY <4>2, Zenon
      <4> QED BY <4>1, <4>3, Zenon DEF IInv, TypeOK
    <3>6. \E R \in SUBSET CallOf[t].range :
            buf' = [buf EXCEPT ![t] = [s \in Sectors |-> IF s \in R THEN media[s] ELSE @[s]]]
      <4>1. {l} \in SUBSET CallOf[t].range
        BY <3>2, <3>4, Zenon
      <4> QED BY <3>5, <4>1, Zenon
    <3>7. Device!Move(t)
      BY <2>1, <2>2, <2>4, <3>1, <3>3, <3>4, <3>6, Zenon DEF Device!Move, CallOf, ServerOf, QuietOf
    <3> QED BY <3>7, Zenon DEF DeviceStep, Device!Next
  <2> QED BY <2>3, <2>4, Zenon
<1> QED BY <1>1, <1>2, Zenon

\* The controller writes a sector of the request that is being served, if any.
LEMMA FinishStep == ASSUME IInv, Finish PROVE DeviceStep
<1>0. /\ power /\ engine # None /\ engine.stage = "moved"
      /\ UNCHANGED <<state, owner, at, power, fifo, call, buf>>
  BY Zenon DEF Finish, driverVars, holderVars
<1>1. ServeOK /\ owner \in Tasks /\ OnCurrent("moved") /\ step = "xfer" /\ Handed
  BY <1>0, Worker, Zenon
<1>2. Sector = Lba /\ engine.cmd = IF call[owner].write THEN "CMD24" ELSE "CMD17"
  BY <1>1, SectorIs, Zenon
<1>3. ServerOf' = ServerOf
  BY <1>0, Zenon DEF ServerOf, Moving
<1>4. CASE media' = media
  BY <1>0, <1>3, <1>4, HiddenStep, Zenon
<1>5. CASE media' # media
  <2>1. call[owner].write /\ Lba \in Sectors /\ media' = [media EXCEPT ![Lba] = owner]
    BY <1>1, <1>2, <1>5, Zenon DEF Finish, Handed
  <2>2. PICK t \in Tasks, l \in {Lba} : t = owner
    BY <1>1, Zenon
  <2>3. l \in Span(call[t])
    <3>1. at \in Nat /\ call[owner].first \in Nat /\ call[owner].count \in Nat /\ at < call[owner].count
      BY <1>1, CallFields, Zenon DEF IInv, TypeOK, ServeOK
    <3>2. call[owner].first <= Lba /\ Lba < call[owner].first + call[owner].count
      BY <3>1 DEF Lba
    <3> QED BY <2>1, <2>2, <3>2, Zenon DEF Span
  <2>4. /\ ServerOf = t /\ CallOf' = CallOf /\ state = "Ready" /\ QuietOf' \in BOOLEAN
    BY <1>0, <1>1, <2>2, Holders, Zenon DEF ServerOf, CallOf, Span, ServeOK, QuietOf
  <2>5. CallOf[t].write = call[t].write /\ CallOf[t].range = Span(call[t])
    BY <1>1, <2>2, MappedCall, Zenon DEF ServeOK
  <2>6. \E s \in CallOf[t].range : media' = [media EXCEPT ![s] = t]
    BY <2>1, <2>2, <2>3, <2>5, Zenon
  <2>7. Device!Move(t)
    BY <1>0, <1>3, <2>1, <2>2, <2>4, <2>5, <2>6, Zenon DEF Device!Move, CallOf, ServerOf, QuietOf
  <2> QED BY <2>7, Zenon DEF DeviceStep, Device!Next
<1> QED BY <1>4, <1>5, Zenon

LEMMA CardStep == ASSUME IInv, Respond \/ BufferReady \/ EndBusy PROVE DeviceStep
<1>1. UNCHANGED <<state, media, call, buf, power, owner>>
  BY Zenon DEF Respond, BufferReady, EndBusy, driverVars, holderVars
<1>2. ServerOf' = ServerOf
  BY <1>1, Zenon DEF ServerOf, Moving
<1> QED BY <1>1, <1>2, HiddenStep, Zenon

\* Registering shows nothing; when it fails, the card is shut down.
LEMMA PublishStep == ASSUME IInv, Publish PROVE DeviceStep
<1>1. /\ owner = None /\ owner' = None /\ state = "Ready" /\ base /\ UNCHANGED <<call, buf>>
  BY Zenon DEF Publish, holderVars, IInv, TypeOK
<1>2. ServerOf = None /\ ServerOf' = None /\ CallOf' = CallOf
  BY <1>1, SdhciAssumption, Zenon DEF ServerOf, Moving, CallOf, Span
<1>3. CASE ShutdownLocked
  <2>1. state' = "Offline" /\ QuietOf' /\ media' = media
    BY <1>1, <1>3, Zenon DEF ShutdownLocked, QuietOf
  <2>2. Device!Abandon
    BY <1>1, <1>2, <2>1, Zenon DEF Device!Abandon, Device!GiveUp, CallOf, QuietOf, ServerOf
  <2> QED BY <2>2, Zenon DEF DeviceStep, Device!Next
<1>4. CASE ~ShutdownLocked
  BY <1>1, <1>2, <1>4, HiddenStep, Zenon DEF Publish, driverVars, cardVars
<1> QED BY <1>3, <1>4, Zenon

LEMMA DeviceSteps == IInv /\ [SdhciNext]_sdhciVars => DeviceStep
<1> SUFFICES ASSUME IInv, [SdhciNext]_sdhciVars PROVE DeviceStep
  BY Zenon
<1>1. CASE UNCHANGED sdhciVars
  <2>1. ServerOf' = ServerOf
    BY <1>1, Zenon DEF sdhciVars, holderVars, ServerOf, Moving
  <2> QED BY <1>1, <2>1, HiddenStep, Zenon DEF sdhciVars, driverVars, cardVars
<1> QED BY <1>1, BeginInitStep, HardwareStep, CommandStep, WaitCmdDoneStep, MoveBufferStep, EndStep, PublishStep,
           CardStep, FinishStep, CallStep, BeginStep, Zenon DEF SdhciNext

\* For any tasks, any card (also one that has fewer sectors than its CSD says)
\* and any requests, the SD driver implements the block device of blk.h,
\* whenever the status bits it polls are set and whichever poll gives up.
THEOREM SdRefinement == SdhciSpec => ImplementsSdDevice
<1>1. SdhciInit => Device!Init
  BY SdhciAssumption, Zenon DEF SdhciInit, Device!Init, Empty, Moving
<1>2. SdhciSpec => []IInv
  BY InitInv, Inductive, PTL DEF SdhciSpec
<1>3. IInv /\ [SdhciNext]_sdhciVars => [Device!Next]_(Device!vars)
  BY DeviceSteps, Zenon DEF DeviceStep
<1> QED BY <1>1, <1>2, <1>3, PTL DEF SdhciSpec, ImplementsSdDevice, Device!Spec
=============================================================================
