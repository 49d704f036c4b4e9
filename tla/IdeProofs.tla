----------------------------- MODULE IdeProofs -----------------------------
(***************************************************************************)
(* The two drives of an IDE channel implement the block device of blk.h,   *)
(* for every number of tasks and sectors and every set of requests.        *)
(***************************************************************************)
EXTENDS Ide, TLAPS

(***************************************************************************)
(* The inductive invariant                                                 *)
(***************************************************************************)

Phases == {"idle", "busy", "data", "store", "err", "absent"}
Written == Tasks \cup {Blank}

TypeOK ==
  /\ state \in [Drives -> {"Offline", "Initializing", "Ready"}]
  /\ blocks \in [Drives -> Nat]
  /\ published \in [Drives -> BOOLEAN]
  /\ at \in Nat
  /\ call \in [Tasks -> Calls \cup {None}]
  /\ buf \in [Tasks -> [Sectors -> Written \cup {None}]]
  /\ masked \in BOOLEAN
  /\ sel \in Drives
  /\ phase \in [Drives -> Phases]
  /\ DOMAIN command = Drives
  /\ command = [d \in Drives |-> command[d]]
  /\ fifo \in [Drives -> Written \cup {None}]
  /\ media \in [Drives -> [Sectors -> Written]]

\* Who holds the channel, and what the registers are then.
FreeOK ==
  /\ owner = None
  /\ target = None /\ step = None /\ ~masked
ProbeOK ==
  /\ owner = Probe
  /\ target \in Drives
  /\ state[target] = "Initializing" /\ ~published[target]
  /\ step \in {"identify", "identified"}
  /\ masked <=> step = "identified"
  /\ step = "identified" => sel = target /\ phase[target] # "absent"
ServeOK ==
  /\ owner \in Tasks
  /\ call[owner] \in Calls
  /\ target = call[owner].dev
  /\ state[target] = "Ready"
  /\ at <= call[owner].count
  /\ call[owner].first + call[owner].count <= blocks[target]
  /\ step \in {"loop", "ready", "drq", "stored"}
  /\ masked <=> step \in {"drq", "stored"}
  /\ step # "loop" => at < call[owner].count /\ sel = target
HolderOK == FreeOK \/ ProbeOK \/ ServeOK

\* A task has issued a command to drive d, and works on its sector.
Working(d) == owner \in Tasks /\ target = d /\ step \in {"drq", "stored"}
Lba == call[owner].first + at

\* A published drive that is Ready and not worked on is at rest; one that was
\* given up may still be busy with what it was told last.
DriveOK(d) ==
  /\ state[d] = "Initializing" => owner = Probe /\ target = d
  /\ state[d] = "Ready" => published[d] /\ \E s \in Sectors : blocks[d] = s + 1
  /\ state[d] = "Ready" /\ ~Working(d) => phase[d] = "idle"
  /\ ~published[d] => phase[d] # "store"
  /\ ~published[d] /\ phase[d] \in {"busy", "data"} => command[d].op = "identify"
  /\ phase[d] = "data" /\ command[d].op = "identify" => \E s \in Sectors : command[d].size = s + 1
  /\ phase[d] = "busy" /\ command[d].op # "identify" => command[d].lba \in Sectors
  /\ phase[d] = "store" => command[d].lba \in Sectors /\ fifo[d] \in Tasks

\* The command of the sector that is being moved.
CommandOK ==
  owner \in Tasks =>
    /\ step \in {"drq", "stored"} =>
         command[target] = [op |-> IF call[owner].write THEN "write" ELSE "read", lba |-> Lba]
    /\ step = "drq" => phase[target] \in {"busy", "data", "err"}
    /\ step = "drq" /\ phase[target] = "data" /\ ~call[owner].write => fifo[target] = media[target][Lba]
    /\ step = "stored" => call[owner].write /\ fifo[target] = owner /\ phase[target] \in {"store", "idle", "err"}
    /\ step = "stored" /\ phase[target] = "idle" => media[target][Lba] = owner

\* The sectors that were moved so far; nobody else has anything in a buffer.
MovedOK ==
  /\ \A t \in Tasks : t # owner => buf[t] = Empty
  /\ owner \in Tasks =>
       \A s \in Sectors : call[owner].first <= s /\ s < Lba =>
         IF call[owner].write THEN media[target][s] = owner ELSE buf[owner][s] = media[target][s]

IInv ==
  /\ TypeOK
  /\ HolderOK
  /\ \A d \in Drives : DriveOK(d)
  /\ CommandOK
  /\ MovedOK

LEMMA Holders ==
  ASSUME IInv
  PROVE  /\ owner = None => FreeOK
         /\ step \in {"identify", "identified"} => ProbeOK
         /\ step \in {"loop", "ready", "drq", "stored"} => ServeOK
BY IdeAssumption, Zenon DEF IInv, HolderOK, FreeOK, ProbeOK, ServeOK, Steps

LEMMA CallFields ==
  ASSUME NEW r \in Calls
  PROVE  r # None /\ r.dev \in Drives /\ r.write \in BOOLEAN /\ r.first \in Nat /\ r.count \in Nat
BY IdeAssumption, Zenon

\* The sector a request has got to is a sector of the drive.
LEMMA LbaSector ==
  ASSUME IInv, ServeOK, at < call[owner].count
  PROVE  Lba \in Sectors
<1>1. /\ call[owner].first \in Nat /\ call[owner].count \in Nat /\ at \in Nat /\ target \in Drives
      /\ state[target] = "Ready"
  BY CallFields, Zenon DEF IInv, TypeOK, ServeOK
<1>2. PICK s \in Sectors : blocks[target] = s + 1
  BY <1>1, Zenon DEF IInv, DriveOK
<1>3. s \in Nat /\ 0 .. s \subseteq Sectors
  BY IdeAssumption, Zenon
<1>4. Lba \in 0 .. s
  BY <1>1, <1>2, <1>3 DEF ServeOK, Lba
<1> QED BY <1>3, <1>4, Zenon

LEMMA StutterInv == ASSUME IInv, UNCHANGED vars PROVE IInv'
<1> USE DEF IInv, vars, deviceVars, holderVars, driveVars
<1>1. TypeOK' /\ HolderOK' /\ CommandOK' /\ MovedOK'
  BY Zenon DEF TypeOK, HolderOK, FreeOK, ProbeOK, ServeOK, CommandOK, MovedOK, Lba
<1>2. \A e \in Drives : DriveOK(e)'
  BY Zenon DEF DriveOK, Working
<1> QED BY <1>1, <1>2, Zenon

\* A detection ends without a drive.
LEMMA NotDetectedInv ==
  ASSUME IInv, ProbeOK, NotDetected, sel' \in Drives, command' = command, fifo' = fifo, media' = media,
         \/ phase' = phase
         \/ phase' = [phase EXCEPT ![target] = "idle"]
  PROVE  IInv'
<1> USE IdeAssumption DEF NotDetected, Release
<1>1. TypeOK'
  <2>1. phase' \in [Drives -> Phases]
    BY Zenon DEF IInv, TypeOK, Phases
  <2> QED BY <2>1, Zenon DEF IInv, TypeOK
<1>2. HolderOK'
  BY Zenon DEF HolderOK, FreeOK
<1>3. \A e \in Drives : DriveOK(e)'
  BY DEF IInv, TypeOK, DriveOK, Working, ProbeOK
<1>4. CommandOK' /\ MovedOK'
  BY Zenon DEF IInv, MovedOK, CommandOK, ProbeOK
<1> QED BY <1>1, <1>2, <1>3, <1>4, Zenon DEF IInv

\* A request ends with an error, and its drive with it.
LEMMA FailInv == ASSUME IInv, ServeOK, Fail PROVE IInv'
<1> USE IdeAssumption DEF Fail, Return, Release, driveVars
<1>1. TypeOK'
  BY Zenon DEF IInv, TypeOK, Empty
<1>2. HolderOK'
  BY Zenon DEF HolderOK, FreeOK
<1>3. \A e \in Drives : DriveOK(e)'
  BY CallFields DEF IInv, TypeOK, DriveOK, Working, ServeOK
<1>4. CommandOK' /\ MovedOK'
  BY DEF IInv, TypeOK, MovedOK, CommandOK, ServeOK, Empty
<1> QED BY <1>1, <1>2, <1>3, <1>4, Zenon DEF IInv

LEMMA CallInv ==
  ASSUME IInv, NEW t \in Tasks, Call(t) PROVE IInv'
<1> USE IdeAssumption DEF Call, deviceVars, holderVars, driveVars
<1>0. owner # t
  BY CallFields, Zenon DEF IInv, HolderOK, FreeOK, ProbeOK, ServeOK
<1>1. TypeOK'
  BY DEF IInv, TypeOK
<1>2. /\ owner \in Tasks => call'[owner] = call[owner]
      /\ owner' = owner
  BY <1>0, Zenon DEF IInv, TypeOK
<1>3. HolderOK'
  BY <1>2, Zenon DEF IInv, HolderOK, FreeOK, ProbeOK, ServeOK
<1>4. \A e \in Drives : DriveOK(e)'
  BY Zenon DEF IInv, DriveOK, Working
<1>5. CommandOK' /\ MovedOK'
  BY <1>2, Zenon DEF IInv, CommandOK, MovedOK, Lba
<1> QED BY <1>1, <1>3, <1>4, <1>5, Zenon DEF IInv

LEMMA BeginDetectInv ==
  ASSUME IInv, NEW d \in Drives, BeginDetect(d) PROVE IInv'
<1> USE IdeAssumption DEF BeginDetect, driveVars
<1>0. FreeOK
  BY Holders, Zenon
<1>1. TypeOK'
  BY Zenon DEF IInv, TypeOK
<1>2. HolderOK'
  BY <1>0, Zenon DEF IInv, TypeOK, HolderOK, FreeOK, ProbeOK
<1>3. \A e \in Drives : DriveOK(e)'
  BY <1>0 DEF IInv, TypeOK, DriveOK, Working, FreeOK
<1>4. CommandOK' /\ MovedOK'
  BY <1>0, Zenon DEF IInv, CommandOK, MovedOK, FreeOK
<1> QED BY <1>1, <1>2, <1>3, <1>4, Zenon DEF IInv

LEMMA IdentifyInv ==
  ASSUME IInv, Identify PROVE IInv'
<1>0. ProbeOK /\ sel' \in Drives
  BY Holders, Zenon DEF Identify, ProbeOK
<1>1. CASE phase[target] = "absent"
  BY <1>0, <1>1, NotDetectedInv, Zenon DEF Identify, driveVars
<1>2. CASE phase[target] # "absent"
  <2> DEFINE c == [op |-> "identify", lba |-> 0]
  <2>0. /\ sel' = target /\ masked' = TRUE /\ phase' = [phase EXCEPT ![target] = "busy"]
        /\ command' = [command EXCEPT ![target] = c] /\ step' = "identified"
        /\ UNCHANGED <<deviceVars, owner, target, at, probes, call, buf, fifo, media>>
    BY <1>2, Zenon DEF Identify
  <2>1. c.op = "identify"
    BY Zenon
  <2> HIDE DEF c
  <2> USE IdeAssumption DEF deviceVars
  <2>2. TypeOK'
    BY <1>0, <2>0, Zenon DEF IInv, TypeOK, Phases
  <2>3. HolderOK'
    BY <1>0, <2>0, Zenon DEF IInv, TypeOK, HolderOK, ProbeOK
  <2>4. \A e \in Drives : DriveOK(e)'
    <3> TAKE e \in Drives
    <3>1. CASE e = target
      BY <1>0, <2>0, <2>1, <3>1, Zenon DEF IInv, TypeOK, DriveOK, Working, ProbeOK
    <3>2. CASE e # target
      <4>1. command'[e] = command[e] /\ phase'[e] = phase[e]
        BY <1>0, <2>0, <3>2, Zenon DEF IInv, TypeOK, ProbeOK
      <4> QED BY <1>0, <2>0, <3>2, <4>1 DEF IInv, DriveOK, Working, ProbeOK
    <3> QED BY <3>1, <3>2, Zenon
  <2>5. CommandOK' /\ MovedOK'
    BY <1>0, <2>0, Zenon DEF IInv, CommandOK, MovedOK, ProbeOK
  <2> QED BY <2>2, <2>3, <2>4, <2>5, Zenon DEF IInv
<1> QED BY <1>1, <1>2, Zenon

LEMMA IdentifiedInv ==
  ASSUME IInv, Identified PROVE IInv'
<1>0. ProbeOK /\ sel = target /\ sel' = sel
  BY Holders, Zenon DEF Identified, ProbeOK
<1>1. CASE NotDetected
  BY <1>0, <1>1, NotDetectedInv, Zenon DEF Identified, driveVars, ProbeOK
<1>2. CASE ~NotDetected
  <2>0. /\ phase[target] = "data" /\ phase' = [phase EXCEPT ![target] = "idle"]
        /\ blocks' = [blocks EXCEPT ![target] = command[target].size]
        /\ state' = [state EXCEPT ![target] = "Ready"]
        /\ published' = [published EXCEPT ![target] = TRUE]
        /\ Release
        /\ UNCHANGED <<probes, call, buf, sel, command, fifo, media>>
    BY <1>0, <1>2, Zenon DEF Identified, wait_status
  <2>1. PICK s \in Sectors : command[target].size = s + 1
    BY <1>0, <2>0, Zenon DEF IInv, DriveOK, ProbeOK
  <2> USE IdeAssumption DEF Release
  <2>2. TypeOK'
    <3>1. target \in Drives /\ command[target].size \in Nat
      BY <1>0, <2>1 DEF ProbeOK
    <3>2. /\ blocks' \in [Drives -> Nat] /\ state' \in [Drives -> {"Offline", "Initializing", "Ready"}]
          /\ phase' \in [Drives -> Phases]
      BY <2>0, <3>1, Zenon DEF IInv, TypeOK, Phases
    <3>3. published' \in [Drives -> BOOLEAN]
      BY <2>0, <3>1, Zenon DEF IInv, TypeOK
    <3> QED BY <2>0, <3>2, <3>3, Zenon DEF IInv, TypeOK
  <2>3. HolderOK'
    BY <2>0, Zenon DEF HolderOK, FreeOK
  <2>4. \A e \in Drives : DriveOK(e)'
    BY <1>0, <2>0, <2>1 DEF IInv, TypeOK, DriveOK, Working, ProbeOK
  <2>5. CommandOK' /\ MovedOK'
    BY <1>0, <2>0, Zenon DEF IInv, CommandOK, MovedOK, ProbeOK
  <2> QED BY <2>2, <2>3, <2>4, <2>5, Zenon DEF IInv
<1> QED BY <1>1, <1>2, Zenon

LEMMA BeginInv ==
  ASSUME IInv, NEW t \in Tasks, Begin(t) PROVE IInv'
<1> USE IdeAssumption DEF deviceVars, driveVars, holderVars
<1>0. FreeOK /\ call[t] \in Calls
  BY Holders, Zenon DEF Begin, IInv, TypeOK
<1>1. CASE Serves(call[t])
  <2>0. /\ owner' = t /\ target' = call[t].dev /\ step' = "loop" /\ at' = 0
        /\ UNCHANGED <<call, buf, deviceVars, probes, masked, sel, driveVars>>
    BY <1>1, Zenon DEF Begin
  <2>1. TypeOK'
    BY <2>0, Zenon DEF IInv, TypeOK
  <2>2. HolderOK'
    <3>1. /\ call[t].first \in Nat /\ call[t].count \in Nat /\ call[t].dev \in Drives
          /\ blocks[call[t].dev] \in Nat
      BY <1>0, CallFields, Zenon DEF IInv, TypeOK
    <3>2. call[t].first + call[t].count <= blocks[call[t].dev]
      BY <1>1, <3>1 DEF Serves
    <3>3. ServeOK'
      <4>1. masked' = FALSE /\ state'[call[t].dev] = "Ready"
        BY <1>0, <1>1, <2>0, Zenon DEF IInv, TypeOK, FreeOK, Serves
      <4> QED BY <1>0, <2>0, <3>1, <3>2, <4>1 DEF ServeOK
    <3> QED BY <3>3, Zenon DEF HolderOK
  <2>3. \A e \in Drives : DriveOK(e)'
    BY <1>0, <2>0 DEF IInv, TypeOK, DriveOK, Working, FreeOK
  <2>4. CommandOK' /\ MovedOK'
    <3>1. call[t].first \in Nat
      BY <1>0, CallFields, Zenon
    <3> QED BY <1>0, <2>0, <3>1 DEF IInv, CommandOK, MovedOK, FreeOK, Lba
  <2> QED BY <2>1, <2>2, <2>3, <2>4, Zenon DEF IInv
<1>2. CASE ~Serves(call[t])
  <2>0. Return(t) /\ UNCHANGED <<holderVars, deviceVars, probes, masked, sel, driveVars>>
    BY <1>2, Zenon DEF Begin
  <2>1. TypeOK'
    BY <2>0, Zenon DEF IInv, TypeOK, Return, Empty
  <2>2. HolderOK'
    BY <1>0, <2>0, Zenon DEF HolderOK, FreeOK
  <2>3. \A e \in Drives : DriveOK(e)'
    BY <2>0, Zenon DEF IInv, DriveOK, Working
  <2>4. CommandOK' /\ MovedOK'
    BY <1>0, <2>0, Zenon DEF IInv, TypeOK, CommandOK, MovedOK, FreeOK, Return, Empty
  <2> QED BY <2>1, <2>2, <2>3, <2>4, Zenon DEF IInv
<1> QED BY <1>1, <1>2, Zenon

LEMMA EndInv ==
  ASSUME IInv, End PROVE IInv'
<1> USE IdeAssumption DEF End, Return, Release, deviceVars, driveVars
<1>0. ServeOK
  BY Holders, Zenon
<1>1. TypeOK'
  BY <1>0, Zenon DEF IInv, TypeOK, Empty
<1>2. HolderOK'
  BY Zenon DEF HolderOK, FreeOK
<1>3. \A e \in Drives : DriveOK(e)'
  BY <1>0 DEF IInv, TypeOK, DriveOK, Working, ServeOK
<1>4. CommandOK' /\ MovedOK'
  BY <1>0, Zenon DEF IInv, TypeOK, CommandOK, MovedOK, ServeOK, Empty
<1> QED BY <1>1, <1>2, <1>3, <1>4, Zenon DEF IInv

LEMMA SelectInv ==
  ASSUME IInv, Select PROVE IInv'
<1> USE IdeAssumption DEF Select, deviceVars, driveVars
<1>0. ServeOK
  BY Holders, Zenon
<1>1. TypeOK'
  BY <1>0, CallFields DEF IInv, TypeOK, ServeOK
<1>2. HolderOK'
  BY <1>0, Zenon DEF HolderOK, ServeOK
<1>3. \A e \in Drives : DriveOK(e)'
  BY <1>0, Zenon DEF IInv, DriveOK, Working, ServeOK
<1>4. CommandOK' /\ MovedOK'
  BY <1>0, Zenon DEF IInv, CommandOK, MovedOK, ServeOK, Lba
<1> QED BY <1>1, <1>2, <1>3, <1>4, Zenon DEF IInv

\* What a request, its drive and its numbers are while it is served.
LEMMA Serving ==
  ASSUME IInv, ServeOK
  PROVE  /\ owner \in Tasks /\ target \in Drives /\ at \in Nat
         /\ call[owner].write \in BOOLEAN /\ call[owner].first \in Nat /\ call[owner].count \in Nat
         /\ Lba \in Nat /\ published[target]
BY CallFields DEF IInv, TypeOK, DriveOK, ServeOK, Lba

LEMMA IssueInv ==
  ASSUME IInv, Issue PROVE IInv'
<1>0. ServeOK /\ sel = target /\ at < call[owner].count
  BY Holders, Zenon DEF Issue, ServeOK
<1>1. CASE Fail
  BY <1>0, <1>1, FailInv, Zenon
<1>2. CASE ~Fail
  <2> DEFINE c == [op |-> IF call[owner].write THEN "write" ELSE "read", lba |-> Lba]
  <2>0. /\ phase[target] = "idle" /\ masked' = TRUE /\ phase' = [phase EXCEPT ![target] = "busy"]
        /\ command' = [command EXCEPT ![target] = c] /\ step' = "drq"
        /\ UNCHANGED <<deviceVars, owner, target, at, probes, call, buf, sel, fifo, media>>
    BY <1>0, <1>2, Zenon DEF Issue, wait_status, Lba
  <2>1. c.op \in {"read", "write"} /\ c.lba = Lba /\ Lba \in Sectors /\ step = "ready"
    BY <1>0, LbaSector, Zenon DEF Issue
  <2>2. Lba' = Lba /\ c = [op |-> IF call[owner].write THEN "write" ELSE "read", lba |-> Lba]
    BY <2>0, Zenon DEF Lba
  <2> HIDE DEF c
  <2> USE IdeAssumption, Serving DEF deviceVars
  <2>3. TypeOK'
    <3>1. phase' \in [Drives -> Phases] /\ masked' \in BOOLEAN
      BY <1>0, <2>0, Zenon DEF IInv, TypeOK, Phases
    <3>2. command' = [d \in Drives |-> command'[d]]
      BY <1>0, <2>0, Zenon DEF IInv, TypeOK
    <3> QED BY <2>0, <3>1, <3>2, Zenon DEF IInv, TypeOK
  <2>4. HolderOK'
    BY <1>0, <2>0, Zenon DEF IInv, TypeOK, HolderOK, ServeOK
  <2>5. command'[target] = c /\ phase'[target] = "busy"
    BY <1>0, <2>0, Zenon DEF IInv, TypeOK
  <2>6. \A e \in Drives : DriveOK(e)'
    <3> TAKE e \in Drives
    <3>1. CASE e = target
      BY <1>0, <2>0, <2>1, <2>5, <3>1, Zenon DEF IInv, DriveOK, Working, ServeOK
    <3>2. CASE e # target
      <4>1. command'[e] = command[e] /\ phase'[e] = phase[e]
        BY <1>0, <2>0, <3>2, Zenon DEF IInv, TypeOK
      <4> QED BY <1>0, <2>0, <3>2, <4>1 DEF IInv, DriveOK, Working, ServeOK
    <3> QED BY <3>1, <3>2, Zenon
  <2>7. CommandOK' /\ MovedOK'
    BY <1>0, <2>0, <2>2, <2>5, Zenon DEF IInv, CommandOK, MovedOK, ServeOK
  <2> QED BY <2>3, <2>4, <2>6, <2>7, Zenon DEF IInv
<1> QED BY <1>1, <1>2, Zenon

\* A sector was moved: the loop of transfer_blocks goes on with the next.
LEMMA SectorDoneInv ==
  ASSUME IInv, ServeOK, at < call[owner].count, sel = target, SectorDone,
         UNCHANGED <<deviceVars, owner, target, probes, call, sel, command, fifo, media>>,
         phase' = [phase EXCEPT ![target] = "idle"],
         IF call[owner].write THEN buf' = buf /\ media[target][Lba] = owner
         ELSE buf' = [buf EXCEPT ![owner][Lba] = media[target][Lba]]
  PROVE  IInv'
<1> USE IdeAssumption, Serving DEF SectorDone, deviceVars
<1>0. Lba \in Sectors /\ Lba' = Lba + 1
  BY LbaSector DEF Lba
<1>1. TypeOK'
  <2>1. buf' \in [Tasks -> [Sectors -> Written \cup {None}]]
    <3>1. CASE call[owner].write
      BY <3>1, Zenon DEF IInv, TypeOK
    <3>2. CASE ~call[owner].write
      <4>1. media[target][Lba] \in Written
        BY <1>0 DEF IInv, TypeOK
      <4>2. [buf[owner] EXCEPT ![Lba] = media[target][Lba]] \in [Sectors -> Written \cup {None}]
        BY <1>0, <4>1, Zenon DEF IInv, TypeOK
      <4> QED BY <1>0, <3>2, <4>2, Zenon DEF IInv, TypeOK
    <3> QED BY <3>1, <3>2, Zenon
  <2>2. target \in Drives /\ at \in Nat
    BY Zenon
  <2>3. phase' \in [Drives -> Phases]
    BY ONLY <2>2, IInv, phase' = [phase EXCEPT ![target] = "idle"] DEF IInv, TypeOK, Phases
  <2>4. at' \in Nat /\ masked' = FALSE
    BY <2>2
  <2> QED BY <2>1, <2>3, <2>4, Zenon DEF IInv, TypeOK
<1>2. HolderOK'
  BY DEF IInv, HolderOK, ServeOK
<1>3. \A e \in Drives : DriveOK(e)'
  <2> TAKE e \in Drives
  <2>1. phase'[e] = IF e = target THEN "idle" ELSE phase[e]
    BY Zenon DEF IInv, TypeOK
  <2> QED BY <2>1 DEF IInv, DriveOK, Working, ServeOK
<1>4. CommandOK'
  BY Zenon DEF IInv, CommandOK
<1>5. MovedOK'
  <2>1. \A t \in Tasks : t # owner => buf'[t] = Empty
    BY DEF IInv, TypeOK, MovedOK
  <2>2. ASSUME NEW s \in Sectors, call[owner].first <= s, s < Lba + 1
        PROVE  IF call[owner].write THEN media[target][s] = owner ELSE buf'[owner][s] = media[target][s]
    <3>1. s \in Nat /\ (s < Lba \/ s = Lba)
      BY <2>2
    <3>2. ~call[owner].write => buf'[owner][s] = IF s = Lba THEN media[target][Lba] ELSE buf[owner][s]
      BY <1>0 DEF IInv, TypeOK
    <3> QED BY <2>2, <3>1, <3>2, Zenon DEF IInv, MovedOK
  <2> QED BY <1>0, <2>1, <2>2, Zenon DEF MovedOK
<1> QED BY <1>1, <1>2, <1>3, <1>4, <1>5, Zenon DEF IInv

LEMMA MoveDataInv ==
  ASSUME IInv, MoveData PROVE IInv'
<1>0. ServeOK /\ sel = target /\ at < call[owner].count /\ step = "drq"
  BY Holders, Zenon DEF MoveData, ServeOK
<1>1. CASE Fail
  BY <1>0, <1>1, FailInv, Zenon
<1>2. CASE ~Fail /\ call[owner].write
  <2>0. /\ phase[target] = "data" /\ fifo' = [fifo EXCEPT ![target] = owner]
        /\ phase' = [phase EXCEPT ![target] = "store"] /\ step' = "stored"
        /\ UNCHANGED <<deviceVars, owner, target, at, probes, call, buf, masked, sel, command, media>>
    BY <1>0, <1>2, Zenon DEF MoveData, wait_status
  <2> USE IdeAssumption, Serving DEF deviceVars
  <2>1. Lba \in Sectors /\ command[target].lba = Lba /\ Lba' = Lba
    BY <1>0, <2>0, LbaSector DEF IInv, CommandOK, Lba
  <2>2. TypeOK'
    BY <1>0, <2>0 DEF IInv, TypeOK, Phases, Written
  <2>3. HolderOK'
    BY <1>0, <2>0, Zenon DEF IInv, TypeOK, HolderOK, ServeOK
  <2>4. \A e \in Drives : DriveOK(e)'
    <3> TAKE e \in Drives
    <3>1. /\ phase'[e] = IF e = target THEN "store" ELSE phase[e]
          /\ fifo'[e] = IF e = target THEN owner ELSE fifo[e]
      BY <1>0, <2>0, Zenon DEF IInv, TypeOK
    <3> QED BY <1>0, <2>0, <2>1, <3>1 DEF IInv, DriveOK, Working, ServeOK
  <2>5. CommandOK' /\ MovedOK'
    <3>1. phase'[target] = "store" /\ fifo'[target] = owner
      BY <1>0, <2>0, Zenon DEF IInv, TypeOK
    <3> QED BY <1>0, <1>2, <2>0, <2>1, <3>1, Zenon DEF IInv, CommandOK, MovedOK
  <2> QED BY <2>2, <2>3, <2>4, <2>5, Zenon DEF IInv
<1>3. CASE ~Fail /\ ~call[owner].write
  <2>1. fifo[target] = media[target][Lba]
    BY <1>0, <1>3, Zenon DEF MoveData, wait_status, IInv, CommandOK, ServeOK
  <2> QED BY <1>0, <1>3, <2>1, SectorDoneInv, Zenon DEF MoveData, Lba
<1> QED BY <1>1, <1>2, <1>3, Zenon

LEMMA StoredInv ==
  ASSUME IInv, Stored PROVE IInv'
<1>0. ServeOK /\ sel = target /\ at < call[owner].count /\ step = "stored"
  BY Holders, Zenon DEF Stored, ServeOK
<1>1. CASE Fail
  BY <1>0, <1>1, FailInv, Zenon
<1>2. CASE ~Fail
  <2>1. /\ phase[target] = "idle" /\ SectorDone
        /\ UNCHANGED <<deviceVars, owner, target, probes, call, buf, sel, driveVars>>
    BY <1>0, <1>2, Zenon DEF Stored, wait_status
  <2>2. call[owner].write /\ media[target][Lba] = owner
    BY <1>0, <2>1, Zenon DEF IInv, CommandOK, ServeOK
  <2>3. phase' = [phase EXCEPT ![target] = "idle"]
    BY <1>0, <2>1, Serving, Zenon DEF IInv, TypeOK, driveVars
  <2> QED BY <1>0, <2>1, <2>2, <2>3, SectorDoneInv, Zenon DEF driveVars
<1> QED BY <1>1, <1>2, Zenon

\* Replacing one value of a function leaves its domain.
LEMMA ReplacedOne ==
  ASSUME NEW S, NEW f, DOMAIN f = S, f = [e \in S |-> f[e]], NEW d, NEW c
  PROVE  LET g == [f EXCEPT ![d] = c] IN DOMAIN g = S /\ g = [e \in S |-> g[e]]
BY Zenon

LEMMA FetchInv ==
  ASSUME IInv, NEW d \in Drives, Fetch(d) PROVE IInv'
<1> USE IdeAssumption
<1>0. /\ phase[d] = "busy"
      /\ UNCHANGED <<state, blocks, published, owner, target, step, at, probes, call, buf, masked, sel, media>>
  BY Zenon DEF Fetch, deviceVars, holderVars
<1>1. PICK p \in {"data", "err"} : phase' = [phase EXCEPT ![d] = p]
  BY Zenon DEF Fetch
<1>2. \A e \in Drives : phase'[e] = IF e = d THEN p ELSE phase[e]
  BY <1>1, Zenon DEF IInv, TypeOK
<1>3. PICK f, c :
        /\ f \in Written \cup {None}
        /\ fifo' = [fifo EXCEPT ![d] = f] /\ command' = [command EXCEPT ![d] = c]
        /\ c.op = command[d].op
        /\ c.op # "identify" => c = command[d]
        /\ p = "data" /\ c.op = "identify" => \E s \in Sectors : c.size = s + 1
        /\ p = "data" /\ c.op = "read" => f = media[d][c.lba]
  <2>1. fifo = [fifo EXCEPT ![d] = fifo[d]] /\ command = [command EXCEPT ![d] = command[d]]
    BY Zenon DEF IInv, TypeOK
  <2>2. fifo[d] \in Written \cup {None}
    BY Zenon DEF IInv, TypeOK
  <2>3. CASE p = "err"
    <3>1. UNCHANGED <<command, fifo>>
      <4>1. phase'[d] = "err"
        BY <1>2, <2>3, Zenon
      <4>2. phase' # [phase EXCEPT ![d] = "data"]
        BY <4>1, Zenon DEF IInv, TypeOK
      <4> QED BY <4>2, Zenon DEF Fetch
    <3> QED BY <2>1, <2>2, <2>3, <3>1, Zenon
  <2>4. CASE p = "data"
    <3>1. phase' # [phase EXCEPT ![d] = "err"]
      <4>1. phase'[d] = "data"
        BY <1>2, <2>4, Zenon
      <4> QED BY <4>1, Zenon DEF IInv, TypeOK
    <3>2. CASE command[d].op = "identify"
      <4>1. PICK n \in {s + 1 : s \in Sectors} :
              fifo' = fifo /\ command' = [command EXCEPT ![d] = [op |-> "identify", size |-> n]]
        BY <3>1, <3>2, Zenon DEF Fetch
      <4> DEFINE c == [op |-> "identify", size |-> n]
      <4>2. c.op = command[d].op /\ \E s \in Sectors : c.size = s + 1
        BY <3>2, Zenon
      <4> QED BY <2>1, <2>2, <3>2, <4>1, <4>2, Zenon
    <3>3. CASE command[d].op = "read"
      <4>1. fifo' = [fifo EXCEPT ![d] = media[d][command[d].lba]] /\ command' = command
        BY <3>1, <3>3, Zenon DEF Fetch
      <4>2. command[d].lba \in Sectors
        BY <1>0, <3>3, Zenon DEF IInv, DriveOK
      <4>3. media[d][command[d].lba] \in Written \cup {None}
        BY <4>2 DEF IInv, TypeOK
      <4>4. PICK f : f = media[d][command[d].lba]
        BY Zenon
      <4>5. PICK c : c = command[d] /\ command' = [command EXCEPT ![d] = c]
        BY <2>1, <4>1, Zenon
      <4>6. fifo' = [fifo EXCEPT ![d] = f] /\ f \in Written \cup {None} /\ c.op = "read" /\ f = media[d][c.lba]
        BY <3>3, <4>1, <4>3, <4>4, <4>5, Zenon
      <4> QED BY <4>5, <4>6, Zenon
    <3>4. CASE command[d].op = "write"
      <4>1. fifo' = fifo /\ command' = command
        BY <3>1, <3>4, Zenon DEF Fetch
      <4> QED BY <2>1, <2>2, <3>4, <4>1, Zenon
    <3> QED BY <3>1, <3>2, <3>3, <3>4, Zenon DEF Fetch
  <2> QED BY <2>3, <2>4, Zenon
<1>4. \A e \in Drives : /\ fifo'[e] = IF e = d THEN f ELSE fifo[e]
                        /\ command'[e] = IF e = d THEN c ELSE command[e]
  BY <1>3, Zenon DEF IInv, TypeOK
<1>5. TypeOK'
  <2>1. phase' \in [Drives -> Phases]
    <3>1. p \in Phases
      BY Zenon DEF Phases
    <3> QED BY <1>1, <3>1, Zenon DEF IInv, TypeOK
  <2>2. fifo' \in [Drives -> Written \cup {None}]
    BY <1>3, Zenon DEF IInv, TypeOK
  <2>3. DOMAIN command' = Drives /\ command' = [e \in Drives |-> command'[e]]
    <3>1. DOMAIN command = Drives /\ command = [e \in Drives |-> command[e]]
      BY Zenon DEF IInv, TypeOK
    <3> HIDE IdeAssumption
    <3> QED BY <1>3, <3>1, ReplacedOne, Zenon
  <2> QED BY <1>0, <2>1, <2>2, <2>3, Zenon DEF IInv, TypeOK
<1>6. HolderOK'
  BY <1>0, <1>2, Zenon DEF IInv, HolderOK, FreeOK, ProbeOK, ServeOK
<1>7. \A e \in Drives : DriveOK(e)'
  <2> TAKE e \in Drives
  <2>1. CASE e = d
    BY <1>0, <1>2, <1>3, <1>4, <2>1 DEF IInv, DriveOK, Working
  <2>2. CASE e # d
    BY <1>0, <1>2, <1>4, <2>2 DEF IInv, DriveOK, Working
  <2> QED BY <2>1, <2>2, Zenon
<1>8. CommandOK'
  <2> SUFFICES ASSUME owner \in Tasks PROVE CommandOK'
    BY <1>0, Zenon DEF CommandOK
  <2>0. ServeOK /\ Lba' = Lba
    BY <1>0, Zenon DEF IInv, HolderOK, FreeOK, ProbeOK, Lba
  <2>1. CASE target = d
    <3>1. step # "stored"
      BY <1>0, <2>1, Zenon DEF IInv, CommandOK
    <3>2. ASSUME step = "drq"
          PROVE  /\ c = command[d]
                 /\ c.op = (IF call[owner].write THEN "write" ELSE "read") /\ c.lba = Lba
      BY <1>3, <2>1, <3>2 DEF IInv, CommandOK
    <3> QED BY <1>0, <1>2, <1>3, <1>4, <2>0, <2>1, <3>1, <3>2, Zenon DEF IInv, CommandOK
  <2>2. CASE target # d
    <3>1. target \in Drives
      BY <2>0, Serving, Zenon
    <3> QED BY <1>0, <1>2, <1>4, <2>0, <2>2, <3>1, Zenon DEF IInv, CommandOK
  <2> QED BY <2>1, <2>2, Zenon
<1>9. MovedOK'
  BY <1>0, Zenon DEF IInv, MovedOK, Lba
<1> QED BY <1>5, <1>6, <1>7, <1>8, <1>9, Zenon DEF IInv

LEMMA StoreInv ==
  ASSUME IInv, NEW d \in Drives, Store(d) PROVE IInv'
<1> USE IdeAssumption
<1>0. /\ phase[d] = "store"
      /\ UNCHANGED <<state, blocks, published, owner, target, step, at, probes, call, buf, masked, sel,
                     command, fifo>>
      /\ command[d].lba \in Sectors /\ fifo[d] \in Tasks
  BY Zenon DEF Store, deviceVars, holderVars, IInv, DriveOK
<1>1. PICK p \in {"idle", "err"} : /\ phase' = [phase EXCEPT ![d] = p]
                                   /\ media' = IF p = "idle" THEN [media EXCEPT ![d][command[d].lba] = fifo[d]]
                                               ELSE media
  BY Zenon DEF Store
<1>2. \A e \in Drives : phase'[e] = IF e = d THEN p ELSE phase[e]
  BY <1>1, Zenon DEF IInv, TypeOK
<1>3. \A e \in Drives, s \in Sectors :
        media'[e][s] = IF p = "idle" /\ e = d /\ s = command[d].lba THEN fifo[d] ELSE media[e][s]
  BY <1>0, <1>1 DEF IInv, TypeOK
<1>4. TypeOK'
  <2>1. phase' \in [Drives -> Phases]
    BY <1>1, Zenon DEF IInv, TypeOK, Phases
  <2>2. media' \in [Drives -> [Sectors -> Written]]
    <3>1. [media[d] EXCEPT ![command[d].lba] = fifo[d]] \in [Sectors -> Written]
      BY <1>0, Zenon DEF IInv, TypeOK, Written
    <3> QED BY <1>1, <3>1, Zenon DEF IInv, TypeOK
  <2> QED BY <1>0, <2>1, <2>2 DEF IInv, TypeOK
<1>5. HolderOK'
  BY <1>0, <1>2, Zenon DEF IInv, HolderOK, FreeOK, ProbeOK, ServeOK
<1>6. \A e \in Drives : DriveOK(e)'
  <2> TAKE e \in Drives
  <2> QED BY <1>0, <1>2, Zenon DEF IInv, DriveOK, Working
<1>7. CommandOK' /\ MovedOK'
  <2>1. CASE owner \notin Tasks
    BY <1>0, <2>1, Zenon DEF IInv, CommandOK, MovedOK
  <2>2. CASE owner \in Tasks /\ target = d
    <3>1. ServeOK /\ Lba' = Lba
      BY <1>0, <2>2, Zenon DEF IInv, HolderOK, FreeOK, ProbeOK, Lba
    <3>2. step = "stored" /\ call[owner].write /\ fifo[d] = owner
      BY <1>0, <2>2, <3>1, Zenon DEF IInv, CommandOK, ServeOK, DriveOK, Working
    <3>3. command[d].lba = Lba /\ Lba \in Sectors
      BY <1>0, <2>2, <3>1, <3>2 DEF IInv, CommandOK
    <3>4. CommandOK'
      BY <1>0, <1>2, <1>3, <2>2, <3>1, <3>2, <3>3, Zenon DEF IInv, CommandOK
    <3>5. MovedOK'
      BY <1>0, <1>3, <2>2, <3>1, <3>2, <3>3, Zenon DEF IInv, MovedOK
    <3> QED BY <3>4, <3>5, Zenon
  <2>3. CASE owner \in Tasks /\ target # d
    <3>1. ServeOK /\ Lba' = Lba
      BY <1>0, <2>3, Zenon DEF IInv, HolderOK, FreeOK, ProbeOK, Lba
    <3>2. target \in Drives /\ media'[target] = media[target]
      BY <1>1, <2>3, <3>1, Serving, Zenon DEF IInv, TypeOK
    <3> QED BY <1>0, <1>2, <2>3, <3>1, <3>2, Zenon DEF IInv, CommandOK, MovedOK
  <2> QED BY <2>1, <2>2, <2>3, Zenon
<1> QED BY <1>4, <1>5, <1>6, <1>7, Zenon DEF IInv

LEMMA Inductive == IInv /\ [Next]_vars => IInv'
BY StutterInv, CallInv, BeginDetectInv, IdentifyInv, IdentifiedInv, BeginInv, EndInv, SelectInv, IssueInv,
   MoveDataInv, StoredInv, FetchInv, StoreInv, Zenon DEF Next

LEMMA InitInv == Init => IInv
<1> SUFFICES ASSUME Init PROVE IInv
  BY Zenon
<1> USE IdeAssumption DEF Init
<1>1. TypeOK
  BY Zenon DEF TypeOK, Phases, Written, Empty
<1>2. HolderOK
  BY Zenon DEF HolderOK, FreeOK
<1>3. \A d \in Drives : DriveOK(d)
  BY Zenon DEF DriveOK, Working
<1>4. CommandOK /\ MovedOK
  BY Zenon DEF CommandOK, MovedOK, Empty
<1> QED BY <1>1, <1>2, <1>3, <1>4, Zenon DEF IInv

LEMMA Invariance == Spec => []IInv
BY InitInv, Inductive, PTL DEF Spec

(***************************************************************************)
(* The refinement: drive d as a block device                               *)
(***************************************************************************)

CallOf(d) == [t \in Tasks |->
                IF call[t] = None THEN None
                ELSE IF call[t].dev # d THEN None
                ELSE [write |-> call[t].write, range |-> Span(call[t])]]
BufOf(d) == [t \in Tasks |-> IF call[t] = None \/ call[t].dev # d THEN Empty ELSE buf[t]]
QuietOf(d) == (owner = None \/ target = d) => ~masked
ServerOf(d) == IF owner \in Tasks /\ target = d THEN owner ELSE None

LEMMA DeviceStutter ==
  ASSUME NEW d \in Drives, state'[d] = state[d], media'[d] = media[d], QuietOf(d)' = QuietOf(d),
         CallOf(d)' = CallOf(d), BufOf(d)' = BufOf(d), ServerOf(d)' = ServerOf(d)
  PROVE  UNCHANGED Device(d)!vars
BY Zenon DEF Device!vars, QuietOf, CallOf, BufOf, ServerOf, Empty

LEMMA DeviceInit == ASSUME Init, NEW d \in Drives PROVE Device(d)!Init
BY IdeAssumption, Zenon DEF Init, Device!Init, Empty

LEMMA SameCalls ==
  ASSUME NEW d \in Drives, call' = call, buf' = buf
  PROVE  CallOf(d)' = CallOf(d) /\ BufOf(d)' = BufOf(d)
BY Zenon DEF CallOf, BufOf

LEMMA MappedCall ==
  ASSUME IInv, NEW d \in Drives, NEW t \in Tasks, call[t] \in Calls, call[t].dev = d
  PROVE  /\ CallOf(d)[t] = [write |-> call[t].write, range |-> Span(call[t])]
         /\ CallOf(d)[t] # None
         /\ CallOf(d)[t].write = call[t].write /\ CallOf(d)[t].range = Span(call[t])
         /\ BufOf(d)[t] = buf[t]
<1>1. call[t] # None /\ call[t].write \in BOOLEAN
  BY CallFields, Zenon
<1>2. CallOf(d)[t] = [write |-> call[t].write, range |-> Span(call[t])] /\ BufOf(d)[t] = buf[t]
  BY <1>1, Zenon DEF CallOf, BufOf
<1>3. [write |-> call[t].write, range |-> Span(call[t])] \in [write : BOOLEAN, range : SUBSET Sectors]
  BY <1>1, Zenon DEF Span
<1>4. None \notin [write : BOOLEAN, range : SUBSET Sectors]
  BY IdeAssumption, Zenon
<1> QED BY <1>2, <1>3, <1>4

\* A call returns: the device it went to forgets it, the other never saw it.
LEMMA MappedReturn ==
  ASSUME IInv, NEW d \in Drives, NEW t \in Tasks, call[t] \in Calls, Return(t)
  PROVE  /\ call[t].dev = d => /\ CallOf(d)' = [CallOf(d) EXCEPT ![t] = None]
                               /\ BufOf(d)' = [BufOf(d) EXCEPT ![t] = [s \in Sectors |-> None]]
         /\ call[t].dev # d => CallOf(d)' = CallOf(d) /\ BufOf(d)' = BufOf(d)
<1>1. call[t] # None
  BY CallFields, Zenon
<1>2. \A u \in Tasks : call'[u] = IF u = t THEN None ELSE call[u]
  BY Zenon DEF IInv, TypeOK, Return
<1>3. \A u \in Tasks : buf'[u] = IF u = t THEN Empty ELSE buf[u]
  BY Zenon DEF IInv, TypeOK, Return
<1>4. ASSUME call[t].dev = d PROVE CallOf(d)' = [CallOf(d) EXCEPT ![t] = None]
  BY <1>1, <1>2, Zenon DEF CallOf
<1>5. ASSUME call[t].dev = d PROVE BufOf(d)' = [BufOf(d) EXCEPT ![t] = [s \in Sectors |-> None]]
  BY <1>1, <1>2, <1>3, Zenon DEF BufOf, Empty
<1>6. ASSUME call[t].dev # d PROVE CallOf(d)' = CallOf(d)
  BY <1>1, <1>2, <1>6, Zenon DEF CallOf
<1>7. ASSUME call[t].dev # d PROVE BufOf(d)' = BufOf(d)
  BY <1>1, <1>2, <1>3, <1>7, Zenon DEF BufOf
<1> QED BY <1>4, <1>5, <1>6, <1>7, Zenon

\* The channel as drive d sees it.
LEMMA MappedHolder ==
  ASSUME IInv, NEW d \in Drives
  PROVE  /\ FreeOK => QuietOf(d) /\ ServerOf(d) = None
         /\ target # d => QuietOf(d) /\ ServerOf(d) = None
         /\ ProbeOK => ServerOf(d) = None
         /\ ServeOK /\ target = d => ServerOf(d) = owner
         /\ QuietOf(d) \in BOOLEAN
BY IdeAssumption, Zenon DEF IInv, HolderOK, FreeOK, ProbeOK, ServeOK, QuietOf, ServerOf

\* Drive d is not the one worked on, before or after: nothing changes for it.
LEMMA Bystander ==
  ASSUME IInv, IInv', NEW d \in Drives, FreeOK \/ target # d, FreeOK' \/ target' # d,
         state'[d] = state[d], media'[d] = media[d], CallOf(d)' = CallOf(d), BufOf(d)' = BufOf(d)
  PROVE  UNCHANGED Device(d)!vars
<1>1. QuietOf(d) /\ ServerOf(d) = None
  BY MappedHolder, Zenon
<1>2. QuietOf(d)' /\ ServerOf(d)' = None
  BY IdeAssumption, Zenon DEF IInv, HolderOK, FreeOK, ProbeOK, ServeOK, QuietOf, ServerOf
<1>3. QuietOf(d)' = QuietOf(d)
  BY <1>1, <1>2, Zenon DEF QuietOf
<1> QED BY <1>1, <1>2, <1>3, DeviceStutter, Zenon

DeviceStep(d) == [Device(d)!Next]_(Device(d)!vars)

LEMMA CallStep ==
  ASSUME IInv, NEW t \in Tasks, Call(t), NEW d \in Drives PROVE DeviceStep(d)
<1>1. PICK r \in Calls : call' = [call EXCEPT ![t] = r]
  BY Zenon DEF Call
<1>2. /\ call[t] = None /\ state'[d] = state[d] /\ media'[d] = media[d] /\ buf' = buf
      /\ QuietOf(d)' = QuietOf(d) /\ ServerOf(d)' = ServerOf(d)
  BY Zenon DEF Call, deviceVars, holderVars, driveVars, QuietOf, ServerOf
<1>3. \A u \in Tasks : call'[u] = IF u = t THEN r ELSE call[u]
  BY <1>1, Zenon DEF IInv, TypeOK
<1>4. r # None /\ r.write \in BOOLEAN
  BY CallFields, Zenon
<1>5. buf[t] = Empty
  BY <1>2, CallFields, IdeAssumption, Zenon DEF IInv, HolderOK, FreeOK, ProbeOK, ServeOK, MovedOK
<1>6. BufOf(d)' = BufOf(d)
  BY <1>2, <1>3, <1>4, <1>5, Zenon DEF BufOf
<1>7. CASE r.dev = d
  <2> DEFINE q == [write |-> r.write, range |-> Span(r)]
  <2>1. q \in [write : BOOLEAN, range : SUBSET Sectors]
    BY <1>4, Zenon DEF Span
  <2>2. CallOf(d)' = [CallOf(d) EXCEPT ![t] = q]
    BY <1>2, <1>3, <1>4, <1>7, Zenon DEF CallOf
  <2>3. CallOf(d)[t] = None
    BY <1>2, Zenon DEF CallOf
  <2>4. Device(d)!Request(t)
    BY <1>2, <1>6, <2>1, <2>2, <2>3, Zenon DEF Device!Request, Device!Requests, CallOf, BufOf, QuietOf, ServerOf, Empty
  <2> QED BY <2>4, Zenon DEF DeviceStep, Device!Next
<1>8. CASE r.dev # d
  <2>1. CallOf(d)' = CallOf(d)
    BY <1>2, <1>3, <1>4, <1>8, Zenon DEF CallOf
  <2> QED BY <1>2, <1>6, <2>1, DeviceStutter, Zenon DEF DeviceStep
<1> QED BY <1>7, <1>8, Zenon

LEMMA BeginDetectStep ==
  ASSUME IInv, IInv', NEW e \in Drives, BeginDetect(e), NEW d \in Drives PROVE DeviceStep(d)
<1>0. /\ FreeOK /\ target' = e /\ owner' = Probe /\ masked' = masked /\ media' = media
      /\ state[e] = "Offline" /\ state' = [state EXCEPT ![e] = "Initializing"]
  BY Holders, Zenon DEF BeginDetect, driveVars
<1>1. CallOf(d)' = CallOf(d) /\ BufOf(d)' = BufOf(d)
  BY SameCalls, Zenon DEF BeginDetect
<1>2. CASE d = e
  <2>1. state[d] = "Offline" /\ state'[d] = "Initializing" /\ QuietOf(d)' \in BOOLEAN
    BY <1>0, <1>2, Zenon DEF IInv, TypeOK, QuietOf
  <2>2. ServerOf(d) = None /\ ServerOf(d)' = None
    BY <1>0, IdeAssumption, Zenon DEF FreeOK, ServerOf
  <2>3. Device(d)!BeginInit
    BY <1>0, <1>1, <2>1, <2>2, Zenon DEF Device!BeginInit, CallOf, BufOf, QuietOf, ServerOf, Empty
  <2> QED BY <2>3, Zenon DEF DeviceStep, Device!Next
<1>3. CASE d # e
  <2>1. state'[d] = state[d] /\ media'[d] = media[d] /\ target' # d
    BY <1>0, <1>3, Zenon DEF IInv, TypeOK
  <2> QED BY <1>0, <1>1, <2>1, Bystander, Zenon DEF DeviceStep
<1> QED BY <1>2, <1>3, Zenon

LEMMA NotDetectedStep ==
  ASSUME IInv, IInv', ProbeOK, NotDetected, media' = media, NEW d \in Drives PROVE DeviceStep(d)
<1>0. /\ FreeOK' /\ state' = [state EXCEPT ![target] = "Offline"] /\ state[target] = "Initializing"
  BY Zenon DEF NotDetected, Release, FreeOK, ProbeOK
<1>1. CallOf(d)' = CallOf(d) /\ BufOf(d)' = BufOf(d)
  BY SameCalls, Zenon DEF NotDetected
<1>2. CASE d = target
  <2>1. state[d] = "Initializing" /\ state'[d] = "Offline" /\ QuietOf(d)'
    BY <1>0, <1>2, Zenon DEF IInv, TypeOK, QuietOf, FreeOK
  <2>2. ServerOf(d) = None /\ ServerOf(d)' = None
    BY <1>0, IdeAssumption, Zenon DEF FreeOK, ProbeOK, ServerOf
  <2>3. Device(d)!Abandon
    BY <1>1, <2>1, <2>2, Zenon DEF Device!Abandon, Device!GiveUp, CallOf, BufOf, QuietOf, ServerOf, Empty
  <2> QED BY <2>3, Zenon DEF DeviceStep, Device!Next
<1>3. CASE d # target
  <2>1. state'[d] = state[d] /\ media'[d] = media[d]
    BY <1>0, <1>3, Zenon DEF IInv, TypeOK
  <2> QED BY <1>0, <1>1, <1>3, <2>1, Bystander, Zenon DEF DeviceStep
<1> QED BY <1>2, <1>3, Zenon

\* The drive works, and only Device Control changes.
LEMMA WorkStep ==
  ASSUME IInv, IInv', NEW d \in Drives, d = target => state[d] # "Offline",
         state' = state, media' = media, call' = call, buf' = buf, owner' = owner, target' = target, owner # None
  PROVE  DeviceStep(d)
<1>1. CallOf(d)' = CallOf(d) /\ BufOf(d)' = BufOf(d) /\ ServerOf(d)' = ServerOf(d)
  BY SameCalls, Zenon DEF ServerOf
<1>2. CASE d = target
  <2>1. QuietOf(d)' \in BOOLEAN
    BY Zenon DEF QuietOf
  <2>2. Device(d)!Work
    BY <1>1, <1>2, <2>1, Zenon DEF Device!Work, CallOf, BufOf, QuietOf, ServerOf, Empty
  <2> QED BY <2>2, Zenon DEF DeviceStep, Device!Next
<1>3. CASE d # target
  BY <1>1, <1>3, Bystander, Zenon DEF DeviceStep
<1> QED BY <1>2, <1>3, Zenon

LEMMA IdentifyStep ==
  ASSUME IInv, IInv', Identify, NEW d \in Drives PROVE DeviceStep(d)
<1>0. ProbeOK
  BY Holders, Zenon DEF Identify
<1>1. CASE NotDetected
  BY <1>0, <1>1, NotDetectedStep, Zenon DEF Identify, driveVars
<1>2. CASE ~NotDetected
  <2>1. /\ UNCHANGED <<state, owner, target, call, buf, media>>
        /\ owner # None /\ state[target] = "Initializing"
    BY <1>0, <1>2, IdeAssumption, Zenon DEF Identify, deviceVars, ProbeOK
  <2> QED BY <2>1, WorkStep, Zenon
<1> QED BY <1>1, <1>2, Zenon

LEMMA IdentifiedStep ==
  ASSUME IInv, IInv', Identified, NEW d \in Drives PROVE DeviceStep(d)
<1>0. ProbeOK /\ media' = media
  BY Holders, Zenon DEF Identified, driveVars
<1>1. CASE NotDetected
  BY <1>0, <1>1, NotDetectedStep, Zenon
<1>2. CASE ~NotDetected
  <2>1. FreeOK' /\ state' = [state EXCEPT ![target] = "Ready"] /\ call' = call /\ buf' = buf
    BY <1>2, Zenon DEF Identified, Release, FreeOK
  <2>2. CallOf(d)' = CallOf(d) /\ BufOf(d)' = BufOf(d)
    BY <2>1, SameCalls, Zenon
  <2>3. CASE d = target
    <3>1. state[d] = "Initializing" /\ state'[d] = "Ready" /\ QuietOf(d)' \in BOOLEAN
      BY <1>0, <2>1, <2>3, Zenon DEF IInv, TypeOK, QuietOf, ProbeOK
    <3>2. ServerOf(d) = None /\ ServerOf(d)' = None
      BY <1>0, <2>1, IdeAssumption, Zenon DEF FreeOK, ProbeOK, ServerOf
    <3>3. Device(d)!Publish
      BY <1>0, <2>2, <3>1, <3>2, Zenon DEF Device!Publish, CallOf, BufOf, QuietOf, ServerOf, Empty
    <3> QED BY <3>3, Zenon DEF DeviceStep, Device!Next
  <2>4. CASE d # target
    <3>1. state'[d] = state[d]
      BY <2>1, <2>4, Zenon DEF IInv, TypeOK
    <3> QED BY <1>0, <2>1, <2>2, <2>4, <3>1, Bystander, Zenon DEF DeviceStep
  <2> QED BY <2>3, <2>4, Zenon
<1> QED BY <1>1, <1>2, Zenon

LEMMA BeginStep ==
  ASSUME IInv, IInv', NEW t \in Tasks, Begin(t), NEW d \in Drives PROVE DeviceStep(d)
<1>0. FreeOK /\ call[t] \in Calls /\ state' = state /\ media' = media /\ masked' = masked
  BY Holders, Zenon DEF Begin, IInv, TypeOK, deviceVars, driveVars
<1>1. CASE Serves(call[t])
  <2>1. owner' = t /\ target' = call[t].dev /\ call' = call /\ buf' = buf /\ state[call[t].dev] = "Ready"
    BY <1>1, Zenon DEF Begin, Serves
  <2>2. CallOf(d)' = CallOf(d) /\ BufOf(d)' = BufOf(d)
    BY <2>1, SameCalls, Zenon
  <2>3. CASE d = call[t].dev
    <3>1. ServerOf(d) = None /\ ServerOf(d)' = t /\ QuietOf(d)' = QuietOf(d)
      BY <1>0, <2>1, <2>3, IdeAssumption, Zenon DEF FreeOK, ServerOf, QuietOf
    <3>2. CallOf(d)[t] # None
      BY <1>0, <2>3, MappedCall, Zenon
    <3>3. Device(d)!Start(t)
      BY <1>0, <2>1, <2>2, <2>3, <3>1, <3>2, Zenon DEF Device!Start, CallOf, BufOf, QuietOf, ServerOf, Empty
    <3> QED BY <3>3, Zenon DEF DeviceStep, Device!Next
  <2>4. CASE d # call[t].dev
    BY <1>0, <2>1, <2>2, <2>4, Bystander, Zenon DEF DeviceStep
  <2> QED BY <2>3, <2>4, Zenon
<1>2. CASE ~Serves(call[t])
  <2>1. Return(t) /\ UNCHANGED <<owner, target, step>>
    BY <1>2, Zenon DEF Begin, holderVars
  <2>2. CASE d = call[t].dev
    <3>1. ServerOf(d) = None /\ ServerOf(d)' = None /\ QuietOf(d)' = QuietOf(d)
      BY <1>0, <2>1, IdeAssumption, Zenon DEF FreeOK, ServerOf, QuietOf
    <3>2. CallOf(d)[t] # None /\ None # t
      BY <1>0, <2>2, MappedCall, IdeAssumption, Zenon
    <3>3. /\ CallOf(d)' = [CallOf(d) EXCEPT ![t] = None]
          /\ BufOf(d)' = [BufOf(d) EXCEPT ![t] = [s \in Sectors |-> None]]
      BY <1>0, <2>1, <2>2, MappedReturn, Zenon
    <3>4. Device(d)!Refuse(t)
      BY <1>0, <3>1, <3>2, <3>3, Zenon DEF Device!Refuse, Device!Return, CallOf, BufOf, QuietOf, ServerOf, Empty
    <3> QED BY <3>4, Zenon DEF DeviceStep, Device!Next
  <2>3. CASE d # call[t].dev
    <3>1. CallOf(d)' = CallOf(d) /\ BufOf(d)' = BufOf(d)
      BY <1>0, <2>1, <2>3, MappedReturn, Zenon
    <3>2. FreeOK'
      BY <1>0, <2>1, Zenon DEF FreeOK
    <3> QED BY <1>0, <3>1, <3>2, Bystander, Zenon DEF DeviceStep
  <2> QED BY <2>2, <2>3, Zenon
<1> QED BY <1>1, <1>2, Zenon

\* The request of the holder, as its drive sees it.
LEMMA MappedServer ==
  ASSUME IInv, ServeOK
  PROVE  /\ call[owner] \in Calls /\ target \in Drives /\ owner \in Tasks
         /\ ServerOf(target) = owner
         /\ CallOf(target)[owner].write = call[owner].write
         /\ CallOf(target)[owner].range = Span(call[owner])
         /\ BufOf(target)[owner] = buf[owner]
<1>1. call[owner] \in Calls /\ target \in Drives /\ owner \in Tasks /\ call[owner].dev = target
  BY Serving, Zenon DEF ServeOK
<1> QED BY <1>1, MappedCall, MappedHolder, Zenon

LEMMA EndStep ==
  ASSUME IInv, IInv', End, NEW d \in Drives PROVE DeviceStep(d)
<1>0. /\ ServeOK /\ step = "loop" /\ at = call[owner].count /\ Return(owner) /\ FreeOK'
      /\ state' = state /\ media' = media
  BY Holders, Zenon DEF End, Release, FreeOK, deviceVars, driveVars
<1>1. call[owner] \in Calls /\ target \in Drives /\ owner \in Tasks /\ target = call[owner].dev
  BY <1>0, MappedServer, Zenon DEF ServeOK
<1>2. CASE d = target
  <2>1. /\ ServerOf(d) = owner /\ CallOf(d)[owner].write = call[owner].write
        /\ CallOf(d)[owner].range = Span(call[owner]) /\ BufOf(d)[owner] = buf[owner]
    BY <1>0, <1>2, MappedServer, Zenon
  <2>2. ServerOf(d)' = None
    BY <1>0, IdeAssumption, Zenon DEF FreeOK, ServerOf
  <2>3. QuietOf(d)' = QuietOf(d)
    BY <1>0, Zenon DEF FreeOK, ServeOK, QuietOf
  <2>4. /\ CallOf(d)' = [CallOf(d) EXCEPT ![owner] = None]
        /\ BufOf(d)' = [BufOf(d) EXCEPT ![owner] = [s \in Sectors |-> None]]
    BY <1>0, <1>1, <1>2, MappedReturn, Zenon
  <2>5. \A s \in Span(call[owner]) :
          IF call[owner].write THEN media[d][s] = owner ELSE buf[owner][s] = media[d][s]
    BY <1>0, <1>1, <1>2, Zenon DEF IInv, MovedOK, Span, Lba
  <2>6. Device(d)!Answer(owner)
    <3>1. \A s \in CallOf(d)[owner].range :
            IF CallOf(d)[owner].write THEN media[d][s] = owner ELSE BufOf(d)[owner][s] = media[d][s]
      BY <2>1, <2>5, Zenon
    <3>2. state[d] = "Ready"
      BY <1>0, <1>2, Zenon DEF ServeOK
    <3> QED BY <1>0, <2>1, <2>2, <2>3, <2>4, <3>1, <3>2, Zenon
            DEF Device!Answer, Device!Return, CallOf, BufOf, QuietOf, ServerOf, Empty
  <2> QED BY <1>1, <2>6, Zenon DEF DeviceStep, Device!Next
<1>3. CASE d # target
  <2>1. CallOf(d)' = CallOf(d) /\ BufOf(d)' = BufOf(d)
    BY <1>0, <1>1, <1>3, MappedReturn, Zenon
  <2> QED BY <1>0, <1>3, <2>1, Bystander, Zenon DEF DeviceStep
<1> QED BY <1>2, <1>3, Zenon

LEMMA FailStep ==
  ASSUME IInv, IInv', ServeOK, Fail, NEW d \in Drives PROVE DeviceStep(d)
<1>0. /\ Return(owner) /\ FreeOK' /\ media' = media /\ state' = [state EXCEPT ![target] = "Offline"]
  BY Zenon DEF Fail, Release, FreeOK, driveVars
<1>1. call[owner] \in Calls /\ target \in Drives /\ owner \in Tasks /\ target = call[owner].dev
  BY MappedServer, Zenon DEF ServeOK
<1>2. CASE d = target
  <2>1. ServerOf(d) = owner /\ ServerOf(d)' = None
    BY <1>0, <1>2, MappedServer, IdeAssumption, Zenon DEF FreeOK, ServerOf
  <2>2. QuietOf(d)' /\ state[d] = "Ready" /\ state'[d] = "Offline"
    BY <1>0, <1>1, <1>2, Zenon DEF IInv, TypeOK, FreeOK, ServeOK, QuietOf
  <2>3. /\ CallOf(d)' = [CallOf(d) EXCEPT ![owner] = None]
        /\ BufOf(d)' = [BufOf(d) EXCEPT ![owner] = [s \in Sectors |-> None]]
    BY <1>0, <1>1, <1>2, MappedReturn, Zenon
  <2>4. Device(d)!Break(owner)
    BY <1>0, <2>1, <2>2, <2>3, Zenon
    DEF Device!Break, Device!GiveUp, Device!Return, CallOf, BufOf, QuietOf, ServerOf, Empty
  <2> QED BY <1>1, <2>4, Zenon DEF DeviceStep, Device!Next
<1>3. CASE d # target
  <2>1. CallOf(d)' = CallOf(d) /\ BufOf(d)' = BufOf(d)
    BY <1>0, <1>1, <1>3, MappedReturn, Zenon
  <2>2. state'[d] = state[d]
    BY <1>0, <1>3, Zenon DEF IInv, TypeOK
  <2> QED BY <1>0, <1>3, <2>1, <2>2, Bystander, Zenon DEF DeviceStep
<1> QED BY <1>2, <1>3, Zenon

\* Steps of the holder that leave the sectors and the buffers alone.
LEMMA ServeWorkStep ==
  ASSUME IInv, IInv', ServeOK, NEW d \in Drives, state' = state, media' = media, call' = call, buf' = buf,
         owner' = owner, target' = target
  PROVE  DeviceStep(d)
<1>1. owner # None /\ state[target] = "Ready"
  BY IdeAssumption, Zenon DEF ServeOK
<1> QED BY <1>1, WorkStep, Zenon

LEMMA SelectStep ==
  ASSUME IInv, IInv', Select, NEW d \in Drives PROVE DeviceStep(d)
<1>1. ServeOK
  BY Holders, Zenon DEF Select
<1> QED BY <1>1, ServeWorkStep, Zenon DEF Select, deviceVars, driveVars

LEMMA IssueStep ==
  ASSUME IInv, IInv', Issue, NEW d \in Drives PROVE DeviceStep(d)
<1>1. ServeOK
  BY Holders, Zenon DEF Issue
<1> QED BY <1>1, FailStep, ServeWorkStep, Zenon DEF Issue, deviceVars

LEMMA StoredStep ==
  ASSUME IInv, IInv', Stored, NEW d \in Drives PROVE DeviceStep(d)
<1>1. ServeOK
  BY Holders, Zenon DEF Stored
<1> QED BY <1>1, FailStep, ServeWorkStep, Zenon DEF Stored, deviceVars, driveVars

LEMMA MoveDataStep ==
  ASSUME IInv, IInv', MoveData, NEW d \in Drives PROVE DeviceStep(d)
<1>0. ServeOK /\ sel = target /\ at < call[owner].count /\ step = "drq"
  BY Holders, Zenon DEF MoveData, ServeOK
<1>1. CASE Fail
  BY <1>0, <1>1, FailStep, Zenon
<1>2. CASE ~Fail /\ call[owner].write
  BY <1>0, <1>2, ServeWorkStep, Zenon DEF MoveData, deviceVars
<1>3. CASE ~Fail /\ ~call[owner].write
  <2>1. /\ buf' = [buf EXCEPT ![owner][Lba] = fifo[target]]
        /\ UNCHANGED <<state, owner, target, call, media>>
        /\ phase[target] = "data"
    BY <1>0, <1>3, Zenon DEF MoveData, wait_status, deviceVars, Lba
  <2>2. fifo[target] = media[target][Lba] /\ Lba \in Sectors /\ Lba \in Nat /\ owner \in Tasks
    BY <1>0, <1>3, <2>1, LbaSector, Serving, Zenon DEF IInv, CommandOK
  <2>3. CASE d = target
    <3>1. /\ ServerOf(d) = owner /\ ServerOf(d)' = owner /\ ~CallOf(d)[owner].write
          /\ CallOf(d)[owner].range = Span(call[owner]) /\ BufOf(d)[owner] = buf[owner]
      BY <1>0, <1>3, <2>1, <2>3, MappedServer, Zenon DEF ServerOf
    <3>2. {Lba} \in SUBSET Span(call[owner])
      BY <1>0, <2>2, Serving DEF Span, Lba
    <3>3. CallOf(d)' = CallOf(d)
      BY <2>1, Zenon DEF CallOf
    <3>4. buf'[owner] = [s \in Sectors |-> IF s \in {Lba} THEN media[d][s] ELSE buf[owner][s]]
      BY <2>1, <2>2, <2>3, Zenon DEF IInv, TypeOK
    <3>5. \A u \in Tasks : u # owner => buf'[u] = buf[u]
      BY <2>1, <2>2, Zenon DEF IInv, TypeOK
    <3>6. BufOf(d)' = [BufOf(d) EXCEPT ![owner] =
                         [s \in Sectors |-> IF s \in {Lba} THEN media[d][s] ELSE BufOf(d)[owner][s]]]
      <4>1. call[owner] # None /\ call[owner].dev = d
        BY <1>0, <2>3, CallFields, Zenon DEF ServeOK
      <4> QED BY <2>1, <2>2, <3>1, <3>4, <3>5, <4>1, Zenon DEF BufOf
    <3>7. state[d] = "Ready" /\ state'[d] = state[d] /\ media'[d] = media[d] /\ QuietOf(d)' \in BOOLEAN
      BY <1>0, <2>1, <2>3, Zenon DEF ServeOK, QuietOf
    <3>8. PICK t \in Tasks : t = owner
      BY <2>2, Zenon
    <3>9. \E R \in SUBSET CallOf(d)[t].range :
            BufOf(d)' = [BufOf(d) EXCEPT ![t] = [s \in Sectors |-> IF s \in R THEN media[d][s] ELSE BufOf(d)[t][s]]]
      <4>1. {Lba} \in SUBSET CallOf(d)[t].range
        BY <3>1, <3>2, <3>8, Zenon
      <4> WITNESS {Lba} \in SUBSET CallOf(d)[t].range
      <4> QED BY <3>6, <3>8, Zenon
    <3>10. \E R \in SUBSET CallOf(d)[t].range :
             BufOf(d)' = [BufOf(d) EXCEPT ![t] = [s \in Sectors |-> IF s \in R THEN media[d][s] ELSE @[s]]]
      BY <3>9, Zenon
    <3>11. Device(d)!Move(t)
      BY <3>1, <3>3, <3>7, <3>8, <3>10, Zenon DEF Device!Move, CallOf, BufOf, QuietOf, ServerOf, Empty
    <3> QED BY <3>11, Zenon DEF DeviceStep, Device!Next
  <2>4. CASE d # target
    <3>1. \A u \in Tasks : u # owner => buf'[u] = buf[u]
      BY <2>1, <2>2, Zenon DEF IInv, TypeOK
    <3>2. CallOf(d)' = CallOf(d) /\ BufOf(d)' = BufOf(d)
      BY <1>0, <2>1, <2>4, <3>1, Zenon DEF CallOf, BufOf, ServeOK
    <3> QED BY <2>1, <2>4, <3>2, Bystander, Zenon DEF DeviceStep
  <2> QED BY <2>3, <2>4, Zenon
<1> QED BY <1>1, <1>2, <1>3, Zenon

LEMMA FetchStep ==
  ASSUME IInv, NEW e \in Drives, Fetch(e), NEW d \in Drives PROVE DeviceStep(d)
<1>1. UNCHANGED <<state, owner, target, call, buf, masked, media>>
  BY Zenon DEF Fetch, deviceVars, holderVars
<1>2. QuietOf(d)' = QuietOf(d) /\ ServerOf(d)' = ServerOf(d)
  BY <1>1, Zenon DEF QuietOf, ServerOf
<1> QED BY <1>1, <1>2, SameCalls, DeviceStutter, Zenon DEF DeviceStep

LEMMA StoreStep ==
  ASSUME IInv, IInv', NEW e \in Drives, Store(e), NEW d \in Drives PROVE DeviceStep(d)
<1>1. UNCHANGED <<state, owner, target, call, buf, masked, command, fifo>> /\ phase[e] = "store"
  BY Zenon DEF Store, deviceVars, holderVars
<1>2. /\ QuietOf(d)' = QuietOf(d) /\ ServerOf(d)' = ServerOf(d)
      /\ CallOf(d)' = CallOf(d) /\ BufOf(d)' = BufOf(d)
  BY <1>1, SameCalls, Zenon DEF QuietOf, ServerOf
<1>3. CASE media'[d] = media[d]
  BY <1>1, <1>2, <1>3, DeviceStutter, Zenon DEF DeviceStep
<1>4. CASE media'[d] # media[d]
  <2>1. /\ d = e /\ command[d].lba \in Sectors /\ fifo[d] \in Tasks
        /\ media'[d] = [media[d] EXCEPT ![command[d].lba] = fifo[d]]
    BY <1>1, <1>4 DEF Store, IInv, TypeOK, DriveOK
  <2>2. CASE state[d] = "Offline"
    <3>1. media'[d] \in [Sectors -> Tasks \cup {Blank}]
      BY Zenon DEF IInv, TypeOK, Written
    <3>2. Device(d)!Drift
      BY <1>1, <1>2, <2>2, <3>1, Zenon DEF Device!Drift, CallOf, BufOf, QuietOf, ServerOf, Empty
    <3> QED BY <3>2, Zenon DEF DeviceStep, Device!Next
  <2>3. CASE state[d] # "Offline"
    <3>1. Working(d) /\ state[d] = "Ready"
      <4>1. state[d] = "Initializing" => ~published[d]
        BY IdeAssumption, Zenon DEF IInv, DriveOK, HolderOK, FreeOK, ProbeOK, ServeOK
      <4> QED BY <1>1, <2>1, <2>3, <4>1, Zenon DEF IInv, TypeOK, DriveOK
    <3>2. ServeOK /\ target = d
      BY <3>1, IdeAssumption, Zenon DEF IInv, HolderOK, FreeOK, ProbeOK, Working
    <3>3. call[owner].write /\ fifo[d] = owner /\ command[d].lba = Lba /\ at < call[owner].count
      BY <1>1, <2>1, <3>1, <3>2 DEF IInv, CommandOK, Working, ServeOK
    <3>4. Lba \in Span(call[owner])
      BY <2>1, <3>2, <3>3, Serving DEF Span, Lba
    <3>5. /\ owner \in Tasks /\ ServerOf(d) = owner /\ CallOf(d)[owner].write
          /\ CallOf(d)[owner].range = Span(call[owner])
      BY <3>2, <3>3, MappedServer, Zenon
    <3>6. QuietOf(d)' \in BOOLEAN
      BY Zenon DEF QuietOf
    <3>7. PICK t \in Tasks : t = owner
      BY <3>5, Zenon
    <3>8. \E s \in CallOf(d)[t].range : media'[d] = [media[d] EXCEPT ![s] = t]
      BY <2>1, <3>3, <3>4, <3>5, <3>7
    <3>9. ServerOf(d) = t /\ CallOf(d)[t].write
      BY <3>5, <3>7, Zenon
    <3>10. Device(d)!Move(t)
      BY <1>1, <1>2, <3>1, <3>6, <3>8, <3>9, Zenon
      DEF Device!Move, CallOf, BufOf, QuietOf, ServerOf, Empty
    <3> QED BY <3>10, Zenon DEF DeviceStep, Device!Next
  <2> QED BY <2>2, <2>3, Zenon
<1> QED BY <1>3, <1>4, Zenon

\* Master and slave of a channel are two block devices of blk.h: requests of
\* any number of tasks are served one at a time and whole, an answer without
\* an error means that every sector was moved, a drive that fails is given up
\* with Device Control at rest, and neither identification nor a command that
\* was given up on one drive is ever noticed by the users of the other.
THEOREM IdeRefinement == Spec => ImplementsIdeDevices
<1>1. Init => \A d \in Drives : Device(d)!Init
  BY DeviceInit, Zenon
<1>2. IInv /\ IInv' /\ [Next]_vars => \A d \in Drives : DeviceStep(d)
  <2> SUFFICES ASSUME IInv, IInv', [Next]_vars, NEW d \in Drives PROVE DeviceStep(d)
    BY Zenon
  <2>1. CASE UNCHANGED vars
    <3>1. UNCHANGED <<state, owner, target, call, buf, masked, media>>
      BY <2>1, Zenon DEF vars, deviceVars, holderVars, driveVars
    <3>2. QuietOf(d)' = QuietOf(d) /\ ServerOf(d)' = ServerOf(d)
      BY <3>1, Zenon DEF QuietOf, ServerOf
    <3> QED BY <3>1, <3>2, SameCalls, DeviceStutter, Zenon DEF DeviceStep
  <2> QED BY <2>1, CallStep, BeginDetectStep, IdentifyStep, IdentifiedStep, BeginStep, EndStep, SelectStep,
             IssueStep, MoveDataStep, StoredStep, FetchStep, StoreStep, Zenon DEF Next
<1>3. IInv /\ IInv' /\ [Next]_vars => [\A d \in Drives : [Device(d)!Next]_(Device(d)!vars)]_vars
  BY <1>2, Zenon DEF DeviceStep
<1> QED BY <1>1, <1>3, Invariance, PTL DEF Spec, ImplementsIdeDevices
=============================================================================
