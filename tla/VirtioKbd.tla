----------------------------- MODULE VirtioKbd -----------------------------
(***************************************************************************)
(* kernel/drivers/virtio_kbd.cpp over virtio/split_queue.cpp and           *)
(* virtio/pci_transport.cpp: the VirtIO keyboard.  The driver lends the    *)
(* device a ring of event buffers; the device fills them, puts them on the *)
(* used ring and raises the ISR bit; Keyboard::intr takes the events and   *)
(* lends the buffers again.  The device works while the handler runs, may  *)
(* break the protocol, and may not finish a reset in time.                 *)
(***************************************************************************)
EXTENDS Naturals, Sequences

CONSTANTS
  Nil,
  Size,        \* the queue: min(the device's, MAX_QUEUE_SIZE)
  IndexSpan,        \* 2^16: ring indexes are uint16_t
  MaxEvents,   \* bound: keys pressed after a start
  MaxStarts    \* bound: calls of start

ASSUME VirtioAssumption ==
  /\ {Size, IndexSpan, MaxEvents, MaxStarts} \subseteq Nat \ {0}
  /\ IndexSpan % Size = 0 /\ Size < IndexSpan
  /\ Nil \notin Nat \cup [id : Nat, ok : BOOLEAN]

Slots == 0 .. Size - 1

VARIABLES
  kbdState,            \* state_: "Uninitialized", "Ready", "Quarantined"
  pc, caller,       \* the driver's step, and who called stop: start or intr
  starts,
  mapped,           \* the transport's mappings: common_, notify_, isr_
  enabled,          \* the PCI command bits
  size, last,       \* size_ and last_used_ of the queue
  avail, ring,      \* the available ring: index, entries
  used, done,       \* the used ring: index, entries [id, ok]
  completed,        \* what pop_used returned
  events,           \* events_: the number of the key in each buffer, or 0
  delivered,        \* the keys given to cons::push_input
  status,           \* device status: "zero", "setup", "ok", "resetting"
  queueOn,          \* QUEUE_ENABLE: the device may use the rings
  seen, pressed,    \* the device's place in the available ring; events so far
  keys,             \* those of them that are a character's key going down
  posted, isr       \* used entries without their interrupt yet; the ISR bit

kbdDriverVars == <<kbdState, pc, caller, starts, mapped, enabled>>
queueVars == <<size, last, avail, ring>>
deviceVars == <<used, done, events, status, queueOn, seen, pressed, keys,
                posted, isr>>
kbdVars == <<kbdDriverVars, queueVars, completed, delivered, deviceVars>>

\* The firmware may have used the device, and left its status not zero.
KbdInit ==
  /\ kbdState = "Uninitialized" /\ pc = "idle" /\ caller = Nil /\ starts = 0
  /\ mapped = FALSE /\ enabled = FALSE
  /\ size = 0 /\ last = 0 /\ avail = 0 /\ ring = [i \in Slots |-> Nil]
  /\ used = 0 /\ done = [i \in Slots |-> Nil] /\ completed = Nil
  /\ events = [i \in Slots |-> Nil] /\ delivered = <<>>
  /\ status \in {"zero", "setup"} /\ queueOn = FALSE /\ seen = 0 /\ pressed = 0 /\ keys = 0
  /\ posted = FALSE /\ isr = FALSE

-----------------------------------------------------------------------------
\* start and prepare.  Every step before the last may fail and call stop.
Start ==
  /\ pc = "idle" /\ kbdState = "Uninitialized" /\ starts < MaxStarts
  /\ starts' = starts + 1
  /\ enabled' = TRUE
  /\ pc' = "initialize" /\ caller' = "start"
  /\ UNCHANGED <<kbdState, mapped, queueVars, completed, delivered, deviceVars>>

PrepareFails ==
  /\ pc \in {"initialize", "negotiate", "allocate", "pin"}
  /\ pc' = "stop"
  /\ UNCHANGED <<kbdState, caller, starts, mapped, enabled, queueVars, completed,
                 delivered, deviceVars>>

\* PciTransport::initialize: the capabilities are mapped and the device is
\* reset; the poll for its end may run out.
Initialize ==
  /\ pc = "initialize"
  /\ mapped' = TRUE
  /\ status' = IF status = "zero" THEN "zero" ELSE "resetting"
  /\ pc' = "awaitReset"
  /\ UNCHANGED <<kbdState, caller, starts, enabled, queueVars, completed, delivered,
                 used, done, events, queueOn, seen, pressed, keys, posted, isr>>

AwaitReset ==
  /\ pc = "awaitReset"
  /\ pc' = IF status = "zero" THEN "negotiate" ELSE "stop"
  /\ UNCHANGED <<kbdState, caller, starts, mapped, enabled, queueVars, completed,
                 delivered, deviceVars>>

Negotiate ==
  /\ pc = "negotiate"
  /\ status' = "setup"
  /\ pc' = "allocate"
  /\ UNCHANGED <<kbdState, caller, starts, mapped, enabled, queueVars, completed,
                 delivered, used, done, events, queueOn, seen, pressed, keys, posted, isr>>

\* SplitQueue::allocate, then set_buffer and submit of every buffer, and
\* configure_queue.
Allocate ==
  /\ pc = "allocate"
  /\ size' = Size /\ last' = 0
  /\ ring' = [i \in Slots |-> i] /\ avail' = Size
  /\ used' = 0 /\ done' = [i \in Slots |-> Nil]
  /\ events' = [i \in Slots |-> Nil]
  /\ queueOn' = TRUE
  /\ seen' = 0 /\ pressed' = 0 /\ keys' = 0 /\ posted' = FALSE /\ delivered' = <<>>
  /\ pc' = "pin"
  /\ UNCHANGED <<kbdState, caller, starts, mapped, enabled, completed, status, isr>>

GoReady ==
  /\ pc = "pin"
  /\ kbdState' = "Ready"
  /\ status' = "ok"
  /\ pc' = "idle" /\ caller' = Nil
  /\ UNCHANGED <<starts, mapped, enabled, queueVars, completed, delivered, used,
                 done, events, queueOn, seen, pressed, keys, posted, isr>>

-----------------------------------------------------------------------------
\* stop and PciTransport::reset: the status is cleared and polled, unless the
\* registers are not mapped: then there is nothing to reset.
Stop ==
  /\ pc = "stop"
  /\ status' = IF mapped /\ status # "zero" THEN "resetting" ELSE status
  /\ pc' = "awaitStop"
  /\ UNCHANGED <<kbdState, caller, starts, mapped, enabled, queueVars, completed,
                 delivered, used, done, events, queueOn, seen, pressed, keys, posted, isr>>

\* A failed start restores the command register; after a stop from intr the
\* device stays enabled.
Stopped ==
  /\ pc = "awaitStop"
  /\ status = "zero" \/ ~mapped
  /\ size' = 0 /\ last' = 0 /\ avail' = 0 /\ ring' = [i \in Slots |-> Nil]
  /\ mapped' = FALSE
  /\ enabled' = (enabled /\ caller # "start")
  /\ kbdState' = "Uninitialized"
  /\ pc' = "idle" /\ caller' = Nil /\ completed' = Nil
  /\ UNCHANGED <<starts, delivered, deviceVars>>

\* Mutant of ResetTimeout: the queue is released although the device has not
\* finished its reset.
StopTimeoutReleases ==
  /\ pc = "awaitStop"
  /\ mapped /\ status # "zero"
  /\ size' = 0 /\ mapped' = FALSE
  /\ kbdState' = "Quarantined"
  /\ pc' = "idle" /\ caller' = Nil /\ completed' = Nil
  /\ UNCHANGED <<starts, enabled, last, avail, ring, delivered, deviceVars>>

ResetTimeout ==
  /\ pc = "awaitStop"
  /\ mapped /\ status # "zero"
  /\ kbdState' = "Quarantined"
  /\ pc' = "idle" /\ caller' = Nil /\ completed' = Nil
  /\ UNCHANGED <<starts, mapped, enabled, queueVars, delivered, deviceVars>>

-----------------------------------------------------------------------------
\* Keyboard::intr.  The ISR bit is read, and by that cleared, first.
Intr ==
  /\ pc = "idle" /\ isr /\ kbdState # "Uninitialized"
  /\ isr' = FALSE
  /\ pc' = IF kbdState = "Ready" THEN "pop" ELSE "idle"
  /\ caller' = IF kbdState = "Ready" THEN "intr" ELSE Nil
  /\ UNCHANGED <<kbdState, starts, mapped, enabled, queueVars, completed, delivered,
                 used, done, events, status, queueOn, seen, pressed, keys, posted>>

\* pop_used in uint16_t arithmetic; an entry that is no entry fails.
Pending == (used + IndexSpan - last) % IndexSpan

PopUsed ==
  /\ pc = "pop" /\ Pending # 0
  /\ LET entry == done[last % size] IN
     IF Pending > size \/ ~entry.ok
     THEN pc' = "stop" /\ UNCHANGED <<last, completed>>
     ELSE /\ completed' = entry.id
          /\ last' = (last + 1) % IndexSpan
          /\ pc' = "deliver"
  /\ UNCHANGED <<kbdState, caller, starts, mapped, enabled, size, avail, ring,
                 delivered, deviceVars>>

Deliver ==
  /\ pc = "deliver"
  /\ delivered' = IF events[completed] = 0 THEN delivered
                  ELSE Append(delivered, events[completed])
  /\ pc' = "submit"
  /\ UNCHANGED <<kbdState, caller, starts, mapped, enabled, queueVars, completed,
                 deviceVars>>

Submit ==
  /\ pc = "submit"
  /\ ring' = [ring EXCEPT ![avail % size] = completed]
  /\ avail' = (avail + 1) % IndexSpan
  /\ completed' = Nil
  /\ pc' = "pop"
  /\ UNCHANGED <<kbdState, caller, starts, mapped, enabled, size, last, delivered,
                 deviceVars>>

Drained ==
  /\ pc = "pop" /\ Pending = 0
  /\ pc' = "notify"
  /\ UNCHANGED <<kbdState, caller, starts, mapped, enabled, queueVars, completed,
                 delivered, deviceVars>>

\* Mutant of Notify: the ISR bit is cleared once more on the way out.
NotifyAcknowledge ==
  /\ pc = "notify"
  /\ isr' = FALSE
  /\ pc' = "idle" /\ caller' = Nil
  /\ UNCHANGED <<kbdState, starts, mapped, enabled, queueVars, completed, delivered,
                 used, done, events, status, queueOn, seen, pressed, keys, posted>>

Notify ==
  /\ pc = "notify"
  /\ pc' = "idle" /\ caller' = Nil
  /\ UNCHANGED <<kbdState, starts, mapped, enabled, queueVars, completed, delivered,
                 deviceVars>>

-----------------------------------------------------------------------------
\* The device.  Press fills the next buffer lent to it, Raise sets the ISR
\* bit for the entries it has put on the used ring.
Press ==
  /\ status = "ok" /\ queueOn
  /\ pressed < MaxEvents
  /\ seen # avail
  /\ LET id == ring[seen % Size] IN
     /\ \/ events' = [events EXCEPT ![id] = keys + 1] /\ keys' = keys + 1
        \/ events' = [events EXCEPT ![id] = 0] /\ UNCHANGED keys
     /\ \E ok \in BOOLEAN :
          done' = [done EXCEPT ![used % Size] = [id |-> id, ok |-> ok]]
  /\ seen' = (seen + 1) % IndexSpan
  /\ pressed' = pressed + 1
  /\ used' = (used + 1) % IndexSpan
  /\ posted' = TRUE
  /\ UNCHANGED <<kbdDriverVars, queueVars, completed, delivered, status, queueOn, isr>>

Raise ==
  /\ posted
  /\ posted' = FALSE /\ isr' = TRUE
  /\ UNCHANGED <<kbdDriverVars, queueVars, completed, delivered, used, done, events,
                 status, queueOn, seen, pressed, keys>>

ResetDone ==
  /\ status = "resetting"
  /\ status' = "zero" /\ queueOn' = FALSE /\ posted' = FALSE /\ isr' = FALSE
  /\ UNCHANGED <<kbdDriverVars, queueVars, completed, delivered, used, done, events,
                 seen, pressed, keys>>

\* An index that is no index: more entries than the ring has.
Corrupt ==
  /\ status = "ok" /\ queueOn
  /\ used' = (used + Size + 1) % IndexSpan
  /\ done' = [i \in Slots |-> [id |-> 0, ok |-> FALSE]]
  /\ posted' = TRUE
  /\ pressed' = MaxEvents
  /\ UNCHANGED <<kbdDriverVars, queueVars, completed, delivered, events, status,
                 queueOn, seen, keys, isr>>

KbdNext ==
  \/ Start \/ PrepareFails \/ Initialize \/ AwaitReset \/ Negotiate \/ Allocate
  \/ GoReady \/ Stop \/ Stopped \/ ResetTimeout
  \/ Intr \/ PopUsed \/ Deliver \/ Submit \/ Drained \/ Notify
  \/ Press \/ Raise \/ ResetDone \/ Corrupt

KbdSpec == KbdInit /\ [][KbdNext]_kbdVars

-----------------------------------------------------------------------------
\* Buffers lent to the device and not returned, in order.
Lent == [k \in 1 .. (avail + IndexSpan - seen) % IndexSpan |-> ring[(seen + k - 1) % Size]]

\* Buffers the device has returned and the driver has not taken.
Returned == [k \in 1 .. Pending |-> done[(last + k - 1) % Size].id]

Disjoint(s, t) == {s[i] : i \in DOMAIN s} \cap {t[i] : i \in DOMAIN t} = {}

Healthy == \A i \in Slots : done[i] # Nil => done[i].ok

(* As long as the device may use the rings, the queue, the mapping and the *)
(* PCI command bits are kept (Keyboard::stop, "retain mappings, queue and  *)
(* buffers together"); and in a running queue every event buffer belongs   *)
(* to exactly one side: it is lent, returned, or in the handler's hands.   *)
DmaOwned ==
  /\ queueOn => size = Size /\ mapped /\ enabled
  /\ kbdState = "Ready" /\ Healthy /\ pc # "stop" /\ pc # "awaitStop" =>
       /\ Len(Lent) + Len(Returned) + (IF completed = Nil THEN 0 ELSE 1) = Size
       /\ Disjoint(Lent, Returned)
       /\ Disjoint(Lent, <<completed>>) /\ Disjoint(Returned, <<completed>>)
       /\ \A i, j \in DOMAIN Lent : Lent[i] = Lent[j] => i = j

(* Keys reach the console once each and in the order they were pressed,    *)
(* across wrap-around of the ring indexes; and no key is left on the used  *)
(* ring without an interrupt on its way, also when it was put there while  *)
(* Keyboard::intr was draining the ring.                                   *)
KeysDelivered ==
  /\ \A i \in DOMAIN delivered : delivered[i] = i
  /\ kbdState = "Ready" /\ pc = "idle" /\ Pending # 0 => isr \/ posted

(* Keyboard::intr, start and stop over the shared queue: memory the device *)
(* may still write is never taken back, and no key is lost or doubled.     *)
KeyboardExact == DmaOwned /\ KeysDelivered
=============================================================================
