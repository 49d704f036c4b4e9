------------------------------- MODULE Mutex -------------------------------
(***************************************************************************)
(* Mutex (kernel/sync/mutex.cpp) on top of WaitQueue.  lock() keeps        *)
(* interrupts off from the test of held_ to the registration in the wait   *)
(* queue; unlock() clears held_ in one such section and calls wakeup_one() *)
(* in a second, with a gap between them in which other tasks may run.      *)
(*                                                                         *)
(* A task uses the mutex as the drivers do: it never locks what it already *)
(* holds, and unlocks what it locked.                                      *)
(***************************************************************************)
EXTENDS WaitQueue

CONSTANT NoTask

ASSUME NoTaskAssumption == NoTask \notin Tasks

VARIABLES
    held,    \* Mutex::held_
    owner,   \* Mutex::owner_
    pc       \* "out", "lock" (in lock()), "crit" (between), "unlock" (in the gap)

mutexVars == <<wqVars, held, owner, pc>>

MutexInit ==
    /\ WQInit
    /\ held = FALSE
    /\ owner = NoTask
    /\ pc = [t \in Tasks |-> "out"]

Goto(t, place) == pc' = [pc EXCEPT ![t] = place]

\* Mutant of Take: held_ is not tested.
TakeUntested(t) ==
    /\ held' = TRUE
    /\ owner' = t
    /\ Goto(t, "crit")
    /\ UNCHANGED wqVars

\* The section of lock() or try_lock() in which held_ is found clear.
Take(t) ==
    /\ ~held
    /\ held' = TRUE
    /\ owner' = t
    /\ Goto(t, "crit")
    /\ UNCHANGED wqVars

CallLock(t) ==
    /\ pc[t] = "out"
    /\ Goto(t, "lock")
    /\ UNCHANGED <<wqVars, held, owner>>

\* One turn of the loop of lock(): take the mutex, or sleep.
LockTake(t) ==
    /\ pc[t] = "lock" /\ t \notin inside
    /\ Take(t)

\* Mutant of LockSleep: interrupts are on between the test of held_ and the
\* registration, so held_ may have been cleared since.
LockSleepStale(t) ==
    /\ pc[t] = "lock"
    /\ Sleep(t)
    /\ UNCHANGED <<held, owner, pc>>

LockSleep(t) ==
    /\ pc[t] = "lock"
    /\ held
    /\ Sleep(t)
    /\ UNCHANGED <<held, owner, pc>>

\* waitq_.sleep() returns and lock() loops.
LockResume(t) ==
    /\ pc[t] = "lock"
    /\ Resume(t)
    /\ UNCHANGED <<held, owner, pc>>

\* try_lock() that succeeds; one that fails changes nothing.
TryLock(t) == pc[t] = "out" /\ Take(t)

\* unlock() up to the end of its spinlock section.
UnlockClear(t) ==
    /\ pc[t] = "crit"
    /\ held' = FALSE
    /\ owner' = NoTask
    /\ Goto(t, "unlock")
    /\ UNCHANGED wqVars

\* unlock() after the gap.
UnlockWake(t) ==
    /\ pc[t] = "unlock"
    /\ WakeupOne
    /\ Goto(t, "out")
    /\ UNCHANGED <<held, owner>>

MutexNext ==
    \E t \in Tasks :
        \/ CallLock(t) \/ LockTake(t) \/ LockSleep(t) \/ LockResume(t) \/ TryLock(t)
        \/ UnlockClear(t) \/ UnlockWake(t)

MutexSpec == MutexInit /\ [][MutexNext]_mutexVars

\* The scheduler runs every task that is not asleep, so a task gets on with
\* lock() and unlock(), and a critical section ends.
MutexFairness ==
    \A t \in Tasks :
        /\ WF_mutexVars(LockTake(t) \/ LockSleep(t) \/ LockResume(t))
        /\ WF_mutexVars(UnlockClear(t))
        /\ WF_mutexVars(UnlockWake(t))

MutexFairSpec == MutexSpec /\ MutexFairness

----------------------------------------------------------------------------
\* Every variable has its type, and owner_ is set exactly while held_ is.
TypeOK ==
    /\ queue \in Seq(Tasks)
    /\ asleep \in SUBSET Tasks
    /\ inside \in SUBSET Tasks
    /\ held \in BOOLEAN
    /\ owner \in IF held THEN Tasks ELSE {NoTask}
    /\ pc \in [Tasks -> {"out", "lock", "crit", "unlock"}]

\* One task at a time is between lock() and unlock(), and it is the owner the
\* assertion of unlock() asks for.
MutualExclusion == \A t \in Tasks : pc[t] = "crit" <=> (held /\ owner = t)

\* While the mutex is free nobody sleeps unnoticed: some task is still on its
\* way to wake the queue (in the gap of unlock()), or is awake in lock() and
\* will take the mutex and wake the queue later.
NobodyStranded ==
    queue # <<>> /\ ~held =>
        \E t \in Tasks : pc[t] = "unlock" \/ (pc[t] = "lock" /\ t \notin asleep)

\* Only callers of lock() are in sleep(); the rest of the inductive invariant.
SleepersLock == \A t \in inside : pc[t] = "lock"

IInv == TypeOK /\ QueueOK /\ MutualExclusion /\ NobodyStranded /\ SleepersLock

\* Nobody sleeps for ever: a task that went to sleep in lock() is woken,
\* whatever the others do with the mutex in the meantime (it may find the
\* mutex taken again: lock() is not fair).
SleeperWoken == \A t \in Tasks : (t \in asleep /\ pc[t] = "lock") ~> t \notin asleep
=============================================================================
