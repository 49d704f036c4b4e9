----------------------------- MODULE Semaphore -----------------------------
(***************************************************************************)
(* Semaphore (kernel/sync/semaphore.cpp) on top of WaitQueue.  As in Mutex *)
(* down() tests and registers with interrupts off, and up() has a gap      *)
(* between raising count_ and waking the queue.                            *)
(***************************************************************************)
EXTENDS WaitQueue, FiniteSets

CONSTANTS
    Initial,   \* the argument of the constructor
    MaxCount   \* bound: up() is not called at this count

ASSUME CountAssumption == Initial \in Nat /\ MaxCount \in Nat
ASSUME TasksAssumption == IsFiniteSet(Tasks)

VARIABLES
    count,   \* Semaphore::count_
    semPc       \* "out", "down" (in down()), "up" (in the gap of up())

semVars == <<wqVars, count, semPc>>

SemInit ==
    /\ WQInit
    /\ count = Initial
    /\ semPc = [t \in Tasks |-> "out"]

SemGoto(t, place) == semPc' = [semPc EXCEPT ![t] = place]

CallDown(t) ==
    /\ semPc[t] = "out"
    /\ SemGoto(t, "down")
    /\ UNCHANGED <<wqVars, count>>

\* The section of down() or try_down() in which count_ is found positive.
TakePermit(t) ==
    /\ count > 0
    /\ count' = count - 1
    /\ SemGoto(t, "out")
    /\ UNCHANGED wqVars

DownTake(t) ==
    /\ semPc[t] = "down" /\ t \notin inside
    /\ TakePermit(t)

\* Mutant of DownSleep: interrupts are on between the test of count_ and the
\* registration, so count_ may have been raised since.
DownSleepStale(t) ==
    /\ semPc[t] = "down"
    /\ Sleep(t)
    /\ UNCHANGED <<count, semPc>>

DownSleep(t) ==
    /\ semPc[t] = "down"
    /\ count = 0
    /\ Sleep(t)
    /\ UNCHANGED <<count, semPc>>

\* waitq_.sleep() returns and down() loops.
DownResume(t) ==
    /\ semPc[t] = "down"
    /\ Resume(t)
    /\ UNCHANGED <<count, semPc>>

\* try_down() that succeeds; one that fails changes nothing.
TryDown(t) == semPc[t] = "out" /\ TakePermit(t)

\* up() up to the end of its spinlock section.
UpAdd(t) ==
    /\ semPc[t] = "out"
    /\ count < MaxCount
    /\ count' = count + 1
    /\ SemGoto(t, "up")
    /\ UNCHANGED wqVars

\* Mutant of UpWake: nobody is woken when other permits are still unclaimed,
\* as if one wakeup served them all.
UpWakeIfFirst(t) ==
    /\ semPc[t] = "up"
    /\ IF count = 1 THEN WakeupOne ELSE UNCHANGED wqVars
    /\ SemGoto(t, "out")
    /\ UNCHANGED count

\* up() after the gap.
UpWake(t) ==
    /\ semPc[t] = "up"
    /\ WakeupOne
    /\ SemGoto(t, "out")
    /\ UNCHANGED count

SemNext ==
    \E t \in Tasks :
        \/ CallDown(t) \/ DownTake(t) \/ DownSleep(t) \/ DownResume(t) \/ TryDown(t)
        \/ UpAdd(t) \/ UpWake(t)

SemSpec == SemInit /\ [][SemNext]_semVars

\* The scheduler runs every task that is not asleep.  Nobody has to call up().
SemFairness ==
    \A t \in Tasks :
        /\ WF_semVars(DownTake(t) \/ DownSleep(t) \/ DownResume(t))
        /\ WF_semVars(UpWake(t))

SemFairSpec == SemSpec /\ SemFairness

----------------------------------------------------------------------------
\* Every variable has its type; in particular count_ is never negative.
SemTypeOK ==
    /\ queue \in Seq(Tasks)
    /\ asleep \in SUBSET Tasks
    /\ inside \in SUBSET Tasks
    /\ count \in Nat
    /\ semPc \in [Tasks -> {"out", "down", "up"}]

Upping == {t \in Tasks : semPc[t] = "up"}

Trying == {t \in Tasks : semPc[t] = "down" /\ t \notin asleep}

\* While anybody sleeps in down(), every permit that is free has a task on
\* its way to it: one that is awake in down() and will take a permit, or one
\* in the gap of up() that will wake a sleeper.
PermitsClaimed == queue # <<>> => count <= Cardinality(Upping) + Cardinality(Trying)

\* Only callers of down() are in sleep(); the rest of the inductive invariant.
SleepersDown == \A t \in inside : semPc[t] = "down"

SemIInv == SemTypeOK /\ QueueOK /\ PermitsClaimed /\ SleepersDown

\* No task sleeps on while permits stay free.
PermitWakes == \A t \in Tasks : (t \in asleep /\ count > 0) ~> (t \notin asleep \/ count = 0)
=============================================================================
