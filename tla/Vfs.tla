-------------------------------- MODULE Vfs --------------------------------
(***************************************************************************)
(* The virtual file system (kernel/fs/vfs.cpp) and the descriptor tables   *)
(* (kernel/fs/fd.cpp): mount slots with their reference counts, and the    *)
(* file systems that are created, published, used and destroyed through    *)
(* them while the tasks interleave.                                        *)
(*                                                                         *)
(* What a file system does between two of these steps is left out: a task  *)
(* that holds a reference may call its file system at any time, and the    *)
(* call may sleep.                                                         *)
(***************************************************************************)
EXTENDS Naturals, FiniteSets

CONSTANTS
    Tasks,   \* the tasks
    Slots,   \* State::mounts_, by mount point
    Fs,      \* the addresses at which a file system object may live
    NoFs,    \* the null FileSystem*
    MaxFd    \* MAX_FD, 16 in the code

ASSUME NoFsAssumption == NoFs \notin Fs
ASSUME TasksAssumption == IsFiniteSet(Tasks)
ASSUME MaxFdAssumption == MaxFd \in Nat

VARIABLES
    fs,             \* MountSlot::fs of each slot
    users,          \* MountSlot::users
    transitioning,  \* MountSlot::transitioning
    life,           \* for each address: "free", "new", "mounted", "unmounted"
    ref,            \* the references: see Places
    pc,             \* where each task is
    slot,           \* the slot the task mounts or unmounts
    owner           \* the unique_ptr<FileSystem> of mount() and umount()

slotVars == <<fs, users, transitioning>>
taskVars == <<pc, slot, owner>>
vars == <<slotVars, life, ref, taskVars>>

\* A reference is a MountRef or an open File: the slot whose count it keeps
\* and the file system it uses.  A task keeps one in a descriptor of its
\* table or, at index MaxFd, in a local variable.
Fds == 0 .. MaxFd - 1
Local == MaxFd
Places == 0 .. MaxFd
Handles == Tasks \X Places
NoRef == [slot |-> NoFs, fs |-> NoFs]
Refs == [slot : Slots, fs : Fs] \cup {NoRef}

Labels == {"idle", "factory", "mount", "publish", "unmount", "destroy", "finish", "call", "file", "exit"}

Init ==
    /\ fs = [s \in Slots |-> NoFs]
    /\ users = [s \in Slots |-> 0]
    /\ transitioning = [s \in Slots |-> FALSE]
    /\ life = [f \in Fs |-> "free"]
    /\ ref = [h \in Handles |-> NoRef]
    /\ pc = [t \in Tasks |-> "idle"]
    /\ slot \in [Tasks -> Slots]
    /\ owner = [t \in Tasks |-> NoFs]

Goto(t, label) == pc' = [pc EXCEPT ![t] = label]

----------------------------------------------------------------------------
(* mount() *)

\* The first section of mount(): reserve the slot.
MountReserve(t, s) ==
    /\ pc[t] = "idle"
    /\ ~transitioning[s]
    /\ fs[s] = NoFs
    /\ transitioning' = [transitioning EXCEPT ![s] = TRUE]
    /\ slot' = [slot EXCEPT ![t] = s]
    /\ Goto(t, "factory")
    /\ UNCHANGED <<fs, users, life, ref, owner>>

\* factory() allocates a file system, or is out of memory.
Factory(t, f) ==
    /\ pc[t] = "factory"
    /\ life[f] = "free"
    /\ life' = [life EXCEPT ![f] = "new"]
    /\ owner' = [owner EXCEPT ![t] = f]
    /\ Goto(t, "mount")
    /\ UNCHANGED <<slotVars, ref, slot>>

FactoryFails(t) ==
    /\ pc[t] = "factory"
    /\ Goto(t, "finish")
    /\ UNCHANGED <<slotVars, life, ref, slot, owner>>

\* owner->mount(dev) reads the device; it may sleep and it may fail.
MountFs(t) ==
    /\ pc[t] = "mount"
    /\ life' = [life EXCEPT ![owner[t]] = "mounted"]
    /\ Goto(t, "publish")
    /\ UNCHANGED <<slotVars, ref, slot, owner>>

\* Mutant of MountFsFails: the file system is released but not destroyed.
MountFsFailsLeak(t) ==
    /\ pc[t] = "mount"
    /\ owner' = [owner EXCEPT ![t] = NoFs]
    /\ Goto(t, "finish")
    /\ UNCHANGED <<slotVars, life, ref, slot>>

MountFsFails(t) ==
    /\ pc[t] = "mount"
    /\ Goto(t, "destroy")
    /\ UNCHANGED <<slotVars, life, ref, slot, owner>>

\* The last section of mount(): the slot takes over the file system.
Publish(t) ==
    /\ pc[t] = "publish"
    /\ fs' = [fs EXCEPT ![slot[t]] = owner[t]]
    /\ owner' = [owner EXCEPT ![t] = NoFs]
    /\ Goto(t, "finish")
    /\ UNCHANGED <<users, transitioning, life, ref, slot>>

----------------------------------------------------------------------------
(* umount() *)

\* Mutant of UmountDetach: the users of the slot are not counted.
UmountDetachBusy(t, s) ==
    /\ pc[t] = "idle"
    /\ ~transitioning[s]
    /\ fs[s] # NoFs
    /\ transitioning' = [transitioning EXCEPT ![s] = TRUE]
    /\ owner' = [owner EXCEPT ![t] = fs[s]]
    /\ fs' = [fs EXCEPT ![s] = NoFs]
    /\ slot' = [slot EXCEPT ![t] = s]
    /\ Goto(t, "unmount")
    /\ UNCHANGED <<users, life, ref>>

\* The section of umount() that takes the file system out of the slot.
UmountDetach(t, s) ==
    /\ pc[t] = "idle"
    /\ ~transitioning[s]
    /\ fs[s] # NoFs
    /\ users[s] = 0
    /\ transitioning' = [transitioning EXCEPT ![s] = TRUE]
    /\ owner' = [owner EXCEPT ![t] = fs[s]]
    /\ fs' = [fs EXCEPT ![s] = NoFs]
    /\ slot' = [slot EXCEPT ![t] = s]
    /\ Goto(t, "unmount")
    /\ UNCHANGED <<users, life, ref>>

\* owner->unmount()
UnmountFs(t) ==
    /\ pc[t] = "unmount"
    /\ life' = [life EXCEPT ![owner[t]] = "unmounted"]
    /\ Goto(t, "destroy")
    /\ UNCHANGED <<slotVars, ref, slot, owner>>

\* owner.reset(), and the destructor of owner when mount() fails.
Destroy(t) ==
    /\ pc[t] = "destroy"
    /\ life' = [life EXCEPT ![owner[t]] = "free"]
    /\ owner' = [owner EXCEPT ![t] = NoFs]
    /\ Goto(t, "finish")
    /\ UNCHANGED <<slotVars, ref, slot>>

\* Mutant of FinishTransition: the slot stays reserved after a failed mount().
FinishTransitionPublished(t) ==
    /\ pc[t] = "finish"
    /\ transitioning' = [transitioning EXCEPT ![slot[t]] = (fs[slot[t]] = NoFs)]
    /\ Goto(t, "idle")
    /\ UNCHANGED <<fs, users, life, ref, slot, owner>>

\* The destructor of MountTransition, at every return of mount() and umount().
FinishTransition(t) ==
    /\ pc[t] = "finish"
    /\ transitioning' = [transitioning EXCEPT ![slot[t]] = FALSE]
    /\ Goto(t, "idle")
    /\ UNCHANGED <<fs, users, life, ref, slot, owner>>

----------------------------------------------------------------------------
(* Uses of a mounted file system *)

\* acquire_mount() by resolve_path() for open(), stat(), readdir(), mkdir(),
\* create(), unlink(), rmdir(), and by print_mount_info().
AcquireMount(t, s) ==
    /\ pc[t] = "idle"
    /\ fs[s] # NoFs
    /\ users' = [users EXCEPT ![s] = @ + 1]
    /\ ref' = [ref EXCEPT ![<<t, Local>>] = [slot |-> s, fs |-> fs[s]]]
    /\ Goto(t, "call")
    /\ UNCHANGED <<fs, transitioning, life, slot, owner>>

\* Drop the reference at handle h: ~MountRef or ~File.
Release(h) ==
    /\ users' = [users EXCEPT ![ref[h].slot] = @ - 1]
    /\ ref' = [ref EXCEPT ![h] = NoRef]
    /\ UNCHANGED <<fs, transitioning, life>>

\* The call returns, with or without an error.
ReleaseMount(t) ==
    /\ pc[t] = "call"
    /\ Release(<<t, Local>>)
    /\ Goto(t, "idle")
    /\ UNCHANGED <<slot, owner>>

\* Mutant of OpenFile: the reference is copied to the file, not moved, and is
\* dropped at the return of open() as well.
OpenFileCopied(t) ==
    /\ pc[t] = "call"
    /\ users' = [users EXCEPT ![ref[<<t, Local>>].slot] = @ - 1]
    /\ Goto(t, "file")
    /\ UNCHANGED <<fs, transitioning, life, ref, slot, owner>>

\* fs->open() succeeds and the file takes over the reference.
OpenFile(t) ==
    /\ pc[t] = "call"
    /\ Goto(t, "file")
    /\ UNCHANGED <<slotVars, life, ref, slot, owner>>

\* A kernel user of open() (exec, the shell) closes the file when it is done;
\* Table::alloc() closes a file for which there is no descriptor.
CloseFile(t) ==
    /\ pc[t] = "file"
    /\ Release(<<t, Local>>)
    /\ Goto(t, "idle")
    /\ UNCHANGED <<slot, owner>>

\* Table::alloc() stores the file at the lowest free descriptor.
AllocFd(t) ==
    /\ pc[t] = "file"
    /\ \E d \in Fds :
        /\ ref[<<t, d>>] = NoRef
        /\ \A e \in 0 .. d - 1 : ref[<<t, e>>] # NoRef
        /\ ref' = [ref EXCEPT ![<<t, d>>] = ref[<<t, Local>>], ![<<t, Local>>] = NoRef]
    /\ Goto(t, "idle")
    /\ UNCHANGED <<slotVars, life, slot, owner>>

\* Table::close()
CloseFd(t, d) ==
    /\ pc[t] = "idle"
    /\ ref[<<t, d>>] # NoRef
    /\ Release(<<t, d>>)
    /\ UNCHANGED taskVars

\* The task exits and its parent destroys it: Table::close_all().
Exit(t) ==
    /\ pc[t] = "idle"
    /\ Goto(t, "exit")
    /\ UNCHANGED <<slotVars, life, ref, slot, owner>>

CloseAll(t, d) ==
    /\ pc[t] = "exit"
    /\ ref[<<t, d>>] # NoRef
    /\ Release(<<t, d>>)
    /\ UNCHANGED taskVars

\* The table is empty; a new task takes the place of the old one.
Fork(t) ==
    /\ pc[t] = "exit"
    /\ \A d \in Fds : ref[<<t, d>>] = NoRef
    /\ Goto(t, "idle")
    /\ UNCHANGED <<slotVars, life, ref, slot, owner>>

----------------------------------------------------------------------------
\* The steps of a mount() or umount() under way.
Transit(t) ==
    \/ \E f \in Fs : Factory(t, f)
    \/ FactoryFails(t)
    \/ MountFs(t) \/ MountFsFails(t) \/ Publish(t)
    \/ UnmountFs(t) \/ Destroy(t) \/ FinishTransition(t)

\* The steps of a use under way.
Return(t) == ReleaseMount(t) \/ OpenFile(t) \/ CloseFile(t) \/ AllocFd(t)

CloseOnExit(t) == (\E d \in Fds : CloseAll(t, d)) \/ Fork(t)

Next ==
    \E t \in Tasks :
        \/ \E s \in Slots : MountReserve(t, s) \/ UmountDetach(t, s) \/ AcquireMount(t, s)
        \/ Transit(t) \/ Return(t)
        \/ \E d \in Fds : CloseFd(t, d)
        \/ Exit(t) \/ CloseOnExit(t)

Spec == Init /\ [][Next]_vars

\* Calls of a file system return, and the scheduler runs every task.
Fairness == \A t \in Tasks : WF_vars(Transit(t)) /\ WF_vars(Return(t)) /\ WF_vars(CloseOnExit(t))

FairSpec == Spec /\ Fairness

----------------------------------------------------------------------------
\* Every variable has its type; in particular no count goes below zero, the
\* assertion of ~File and ReleaseMount.
TypeOK ==
    /\ fs \in [Slots -> Fs \cup {NoFs}]
    /\ users \in [Slots -> Nat]
    /\ transitioning \in [Slots -> BOOLEAN]
    /\ life \in [Fs -> {"free", "new", "mounted", "unmounted"}]
    /\ ref \in [Handles -> Refs]
    /\ pc \in [Tasks -> Labels]
    /\ slot \in [Tasks -> Slots]
    /\ owner \in [Tasks -> Fs \cup {NoFs}]

RefsTo(s) == {h \in Handles : ref[h] # NoRef /\ ref[h].slot = s}

\* users_ counts exactly the calls under way and the open files of the slot.
UsersExact == \A s \in Slots : users[s] = Cardinality(RefsTo(s))

\* A file system that a call or an open file may use is the one its slot has
\* published, and it is mounted: umount() takes none away from its users.
NoDanglingRef ==
    \A h \in Handles : ref[h] # NoRef =>
        fs[ref[h].slot] = ref[h].fs /\ life[ref[h].fs] = "mounted"

\* Every file system object that exists has exactly one owner: the slot that
\* published it, or the mount() or umount() that is working on it.
Holders(f) == {s \in Slots : fs[s] = f}
Workers(f) == {t \in Tasks : owner[t] = f}

OneOwner ==
    \A f \in Fs :
        /\ life[f] = "free" <=> Holders(f) \cup Workers(f) = {}
        /\ \A s1, s2 \in Holders(f) : s1 = s2
        /\ \A t1, t2 \in Workers(f) : t1 = t2
        /\ Holders(f) = {} \/ Workers(f) = {}

InTransit == {"factory", "mount", "publish", "unmount", "destroy", "finish"}

\* One task at a time is in mount() or umount() of a slot, and the slot is
\* marked for as long as that takes, whichever way the call ends.
OneTransition ==
    /\ \A s \in Slots : transitioning[s] <=> \E t \in Tasks : pc[t] \in InTransit /\ slot[t] = s
    /\ \A t, u \in Tasks :
        pc[t] \in InTransit /\ pc[u] \in InTransit /\ slot[t] = slot[u] => t = u

\* The rest of the inductive invariant: who has a file system in hand, in
\* which state it is, and who holds a local reference.
WorkOK ==
    /\ \A t \in Tasks :
        /\ owner[t] # NoFs <=> pc[t] \in {"mount", "publish", "unmount", "destroy"}
        /\ pc[t] = "publish" => life[owner[t]] = "mounted"
        /\ pc[t] \in InTransit \ {"finish"} => fs[slot[t]] = NoFs
        /\ ref[<<t, Local>>] # NoRef <=> pc[t] \in {"call", "file"}
    /\ \A s \in Slots : fs[s] # NoFs => life[fs[s]] = "mounted"

IInv == TypeOK /\ UsersExact /\ NoDanglingRef /\ OneOwner /\ OneTransition /\ WorkOK

\* A slot is never reserved for good: every mount() and umount() ends.
TransitionEnds == \A s \in Slots : transitioning[s] ~> ~transitioning[s]
=============================================================================
