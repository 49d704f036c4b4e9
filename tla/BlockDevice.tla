----------------------------- MODULE BlockDevice -----------------------------
(***************************************************************************)
(* What a storage driver promises the file systems and swap: the           *)
(* interface of kernel/block/blk.h (BlockDevice, blk::DeviceState) and the *)
(* life of a device in docs/ERROR_HANDLING.md, "Storage probes and         *)
(* hardware cleanup".  Requests are served one at a time and whole; a      *)
(* device leaves Ready only for Offline, when its hardware is quiet, or    *)
(* for Quarantined, which it never leaves; and an answer without an error  *)
(* means that every sector of the request was moved.  The SDHCI, AHCI and  *)
(* IDE drivers are shown to implement this module.                         *)
(***************************************************************************)
EXTENDS Naturals

CONSTANTS Tasks, Sectors, None, Blank

VARIABLES
  state,   \* DeviceState
  quiet,   \* the hardware is stopped (no DMA, no power, interrupts at rest)
  media,   \* media[s]: the last task that wrote sector s, or Blank
  call,    \* call[t]: the request of task t, or None
  buf,     \* buf[t][s]: the sectors a read of t has brought to its buffer
  server   \* the task whose request is being served, or None

vars == <<state, quiet, media, call, buf, server>>

Requests == [write : BOOLEAN, range : SUBSET Sectors]

Init ==
  /\ state = "Offline"
  /\ quiet \in BOOLEAN
  /\ media = [s \in Sectors |-> Blank]
  /\ call = [t \in Tasks |-> None]
  /\ buf = [t \in Tasks |-> [s \in Sectors |-> None]]
  /\ server = None

\* Initialization: nothing is promised of the hardware until it has ended.
BeginInit ==
  /\ state = "Offline"
  /\ state' = "Initializing"
  /\ quiet' \in BOOLEAN
  /\ UNCHANGED <<media, call, buf, server>>

Publish ==
  /\ state = "Initializing"
  /\ state' = "Ready"
  /\ quiet' \in BOOLEAN
  /\ UNCHANGED <<media, call, buf, server>>

\* Only the hardware of an Offline device is known to stay as it is.
Work ==
  /\ state # "Offline"
  /\ quiet' \in BOOLEAN
  /\ UNCHANGED <<state, media, call, buf, server>>

\* Giving the device up: with quiet hardware, or for ever.
GiveUp ==
  /\ state \in {"Initializing", "Ready"}
  /\ \/ state' = "Offline" /\ quiet'
     \/ state' = "Quarantined" /\ quiet' \in BOOLEAN

Abandon ==
  /\ server = None
  /\ GiveUp
  /\ UNCHANGED <<media, call, buf, server>>

\* The call of t returns: its buffer is the caller's again.
Return(t) ==
  /\ call' = [call EXCEPT ![t] = None]
  /\ buf' = [buf EXCEPT ![t] = [s \in Sectors |-> None]]

Request(t) ==
  /\ call[t] = None
  /\ \E r \in Requests : call' = [call EXCEPT ![t] = r]
  /\ UNCHANGED <<state, quiet, media, buf, server>>

Refuse(t) ==
  /\ call[t] # None
  /\ server # t
  /\ Return(t)
  /\ UNCHANGED <<state, quiet, media, server>>

Start(t) ==
  /\ call[t] # None
  /\ state = "Ready"
  /\ server = None
  /\ server' = t
  /\ UNCHANGED <<state, quiet, media, call, buf>>

\* While a request is served the hardware works on it, and only on it.
Move(t) ==
  /\ server = t
  /\ state = "Ready"
  /\ \/ /\ call[t].write
        /\ \E s \in call[t].range : media' = [media EXCEPT ![s] = t]
        /\ UNCHANGED buf
     \/ /\ ~call[t].write
        /\ \E R \in SUBSET call[t].range :
             buf' = [buf EXCEPT ![t] = [s \in Sectors |->
                                          IF s \in R THEN media[s] ELSE @[s]]]
        /\ UNCHANGED media
  /\ quiet' \in BOOLEAN
  /\ UNCHANGED <<state, call, server>>

\* An answer without an error: every sector was moved.
Answer(t) ==
  /\ server = t
  /\ state = "Ready"
  /\ \A s \in call[t].range :
        IF call[t].write THEN media[s] = t ELSE buf[t][s] = media[s]
  /\ Return(t)
  /\ server' = None
  /\ UNCHANGED <<state, quiet, media>>

\* An answer with an error from the hardware ends the device as well.
Break(t) ==
  /\ server = t
  /\ GiveUp
  /\ Return(t)
  /\ server' = None
  /\ UNCHANGED media

\* Nothing is promised of the sectors of a device that is not Ready: a
\* command that was given up may still reach them.
Drift ==
  /\ state \in {"Offline", "Quarantined"}
  /\ media' \in [Sectors -> Tasks \cup {Blank}]
  /\ UNCHANGED <<state, quiet, call, buf, server>>

Next ==
  \/ BeginInit \/ Publish \/ Work \/ Abandon \/ Drift
  \/ \E t \in Tasks :
        Request(t) \/ Refuse(t) \/ Start(t) \/ Move(t) \/ Answer(t) \/ Break(t)

Spec == Init /\ [][Next]_vars
=============================================================================
