----------------------------- MODULE SyncProofs -----------------------------
(***************************************************************************)
(* Proofs about the wait queue and what is built on it: the mutex, the     *)
(* semaphore and the console input, for any set of tasks, any initial      *)
(* count and any size of the ring; and about the kernel log, which dmesg   *)
(* reads while others append to it.                                        *)
(***************************************************************************)
EXTENDS Mutex, Semaphore, Console, KernelLog, Integers, FiniteSetTheorems, SequenceTheorems, TLAPS

(***************************************************************************)
(* What the operations of WaitQueue do to its invariant                    *)
(***************************************************************************)

LEMMA EmptyQueueOK == WQInit => QueueOK
<1> SUFFICES ASSUME WQInit PROVE QueueOK
    BY Zenon
<1>1. Len(queue) = 0 /\ 1 .. 0 = {}
    BY DEF WQInit
<1> QED BY <1>1, Zenon DEF WQInit, QueueOK, Queued

\* sleep() links a task that is not linked yet.
LEMMA SleeperJoins ==
    ASSUME queue \in Seq(Tasks), QueueOK, NEW t \in Tasks, Sleep(t)
    PROVE  QueueOK' /\ queue' \in Seq(Tasks)
<1> USE DEF Sleep
<1>1. Len(queue) \in Nat /\ queue' = Append(queue, t)
    OBVIOUS
<1>2. /\ queue' \in Seq(Tasks)
      /\ Len(queue') = Len(queue) + 1
      /\ \A i \in 1 .. Len(queue) : queue'[i] = queue[i]
      /\ queue'[Len(queue) + 1] = t
    BY <1>1
<1>3. t \notin Queued
    BY Zenon DEF QueueOK
<1>4. Queued' = Queued \cup {t}
    BY <1>1, <1>2 DEF Queued
<1>5. \A i, j \in 1 .. Len(queue') : queue'[i] = queue'[j] => i = j
  <2> TAKE i, j \in 1 .. Len(queue')
  <2>1. \A k \in 1 .. Len(queue) : queue[k] # t
      BY <1>3, Zenon DEF Queued
  <2>2. \A k, l \in 1 .. Len(queue) : queue[k] = queue[l] => k = l
      BY Zenon DEF QueueOK
  <2>3. /\ i \in 1 .. Len(queue) \/ i = Len(queue) + 1
        /\ j \in 1 .. Len(queue) \/ j = Len(queue) + 1
      BY <1>1, <1>2
  <2> QED BY <1>2, <2>1, <2>2, <2>3, Zenon
<1> QED BY <1>2, <1>4, <1>5, Zenon DEF QueueOK

\* sleep() finds its entry already unlinked when it resumes: wakeup_one() and
\* wakeup_all() unlinked it.
LEMMA ResumeFindsUnlinked ==
    ASSUME QueueOK, NEW t \in Tasks, Resume(t)
    PROVE  QueueOK' /\ queue' = queue
<1>1. queue' = queue
    BY Zenon DEF Resume, Unlink, QueueOK
<1> QED BY <1>1, Zenon DEF Resume, QueueOK, Queued

\* What a wakeup does to a queue that is not empty: the oldest sleeper leaves
\* it, and the others stay.
LEMMA OldestLeaves ==
    ASSUME queue \in Seq(Tasks), QueueOK, queue # <<>>, WakeupOne
    PROVE  /\ QueueOK'
           /\ queue' \in Seq(Tasks)
           /\ Head(queue) \in inside
           /\ asleep' = asleep \ {Head(queue)}
           /\ inside' = inside
<1>1. /\ queue' = Tail(queue) /\ asleep' = asleep \ {Head(queue)} /\ inside' = inside
    BY Zenon DEF WakeupOne
<1>2. Len(queue) \in Nat /\ Len(queue) > 0
    OBVIOUS
<1>3. /\ Len(queue') = Len(queue) - 1
      /\ \A i \in 1 .. Len(queue') : queue'[i] = queue[i + 1]
      /\ queue' \in Seq(Tasks)
    BY <1>1, <1>2
<1>4. Head(queue) = queue[1]
    BY <1>2
<1>5. Head(queue) \in asleep /\ Head(queue) \in inside
    BY <1>2, <1>4 DEF QueueOK, Queued
<1>6. Queued' = asleep'
  <2>1. ASSUME NEW i \in 1 .. Len(queue')
        PROVE  queue'[i] \in asleep'
    <3>1. i + 1 \in 1 .. Len(queue) /\ 1 \in 1 .. Len(queue) /\ i + 1 # 1
        BY <1>2, <1>3
    <3>2. queue[i + 1] \in asleep /\ queue[i + 1] # queue[1]
        BY <3>1, Zenon DEF QueueOK, Queued
    <3> QED BY <1>1, <1>3, <1>4, <3>2, Zenon
  <2>2. ASSUME NEW t \in asleep'
        PROVE  \E i \in 1 .. Len(queue') : queue'[i] = t
    <3>1. t \in asleep /\ t # queue[1]
        BY <1>1, <1>4, Zenon
    <3>2. PICK i \in 1 .. Len(queue) : queue[i] = t
        BY <3>1, Zenon DEF QueueOK, Queued
    <3>3. i - 1 \in 1 .. Len(queue') /\ (i - 1) + 1 = i
        BY <1>2, <1>3, <3>1, <3>2
    <3> QED BY <1>3, <3>2, <3>3, Zenon
  <2> QED BY <2>1, <2>2, Zenon DEF Queued
<1>7. \A i, j \in 1 .. Len(queue') : queue'[i] = queue'[j] => i = j
  <2> TAKE i, j \in 1 .. Len(queue')
  <2>1. i + 1 \in 1 .. Len(queue) /\ j + 1 \in 1 .. Len(queue)
      BY <1>2, <1>3
  <2>2. queue[i + 1] = queue[j + 1] => i + 1 = j + 1
      BY <2>1, Zenon DEF QueueOK
  <2>3. i \in Int /\ j \in Int
      BY <1>2, <1>3
  <2> QED BY <1>3, <2>2, <2>3
<1> QED BY <1>1, <1>3, <1>5, <1>6, <1>7, Zenon DEF QueueOK

\* A step that leaves the list and the tasks alone keeps them consistent.
LEMMA UnchangedQueueOK == QueueOK /\ UNCHANGED wqVars => QueueOK'
BY Zenon DEF QueueOK, Queued, wqVars

\* wakeup_all() leaves nobody linked and nobody asleep.
LEMMA AllLeave ==
    ASSUME QueueOK, WakeupAll
    PROVE  QueueOK' /\ queue' \in Seq(Tasks) /\ asleep' = {}
<1>1. queue' = <<>> /\ asleep' = {} /\ inside' = inside
    BY Zenon DEF WakeupAll, QueueOK
<1>2. Len(queue') = 0 /\ 1 .. 0 = {}
    BY <1>1
<1> QED BY <1>1, <1>2 DEF QueueOK, Queued

\* No step of the queue wakes a task while one linked before it sleeps on.
LEMMA OldestFirst ==
    ASSUME queue \in Seq(Tasks), QueueOK, [WQNext]_wqVars,
           NEW i \in 1 .. Len(queue), NEW j \in 1 .. Len(queue), i < j, queue[j] \notin asleep'
    PROVE  queue[i] \notin asleep'
<1>1. queue[i] \in asleep /\ queue[j] \in asleep /\ queue # <<>>
    BY DEF QueueOK, Queued
<1>2. CASE WakeupOne
  <2>1. asleep' = asleep \ {queue[1]} /\ 1 \in 1 .. Len(queue)
      BY <1>1, <1>2 DEF WakeupOne
  <2>2. queue[j] = queue[1]
      BY <1>1, <2>1, Zenon
  <2>3. j = 1
      BY <2>1, <2>2, Zenon DEF QueueOK
  <2> QED BY <2>3
<1>3. CASE WakeupAll
    BY <1>3, AllLeave, Zenon
<1>4. CASE \E t \in Tasks : Sleep(t) \/ Resume(t)
    BY <1>1, <1>4, Zenon DEF Sleep, Resume
<1>5. CASE UNCHANGED wqVars
    BY <1>1, <1>5, Zenon DEF wqVars
<1> QED BY <1>2, <1>3, <1>4, <1>5, Zenon DEF WQNext

\* Tasks are woken in the order in which sleep() linked them, however sleeps,
\* wakeups and late returns from sleep() interleave, for any set of tasks.
THEOREM WakeupsInOrder == WQSpec => FifoWakeup
<1> DEFINE Inv == queue \in Seq(Tasks) /\ QueueOK
<1>1. WQInit => Inv
    BY EmptyQueueOK DEF WQInit
<1>2. Inv /\ [WQNext]_wqVars => Inv'
  <2> SUFFICES ASSUME Inv, [WQNext]_wqVars PROVE Inv'
      BY Zenon
  <2>1. ASSUME NEW t \in Tasks, Sleep(t) PROVE Inv'
      BY <2>1, SleeperJoins, Zenon
  <2>2. ASSUME NEW t \in Tasks, Resume(t) PROVE Inv'
      BY <2>2, ResumeFindsUnlinked, Zenon
  <2>3. CASE WakeupOne
    <3>1. CASE queue = <<>>
        BY <2>3, <3>1, UnchangedQueueOK, Zenon DEF WakeupOne, wqVars
    <3> QED BY <2>3, <3>1, OldestLeaves, Zenon
  <2>4. CASE WakeupAll
      BY <2>4, AllLeave, Zenon
  <2>5. CASE UNCHANGED wqVars
      BY <2>5, UnchangedQueueOK, Zenon DEF wqVars
  <2> QED BY <2>1, <2>2, <2>3, <2>4, <2>5, Zenon DEF WQNext
<1>3. Inv /\ [WQNext]_wqVars =>
        [\A i, j \in 1 .. Len(queue) : i < j /\ queue[j] \notin asleep' => queue[i] \notin asleep']_wqVars
    BY OldestFirst, Zenon
<1> QED BY <1>1, <1>2, <1>3, PTL DEF WQSpec, FifoWakeup

(***************************************************************************)
(* Mutex                                                                   *)
(***************************************************************************)

LEMMA MutexInitInv == MutexInit => IInv
<1> SUFFICES ASSUME MutexInit PROVE IInv
    BY Zenon
<1>1. QueueOK
    BY EmptyQueueOK, Zenon DEF MutexInit
<1>2. queue \in Seq(Tasks) /\ asleep \in SUBSET Tasks /\ inside \in SUBSET Tasks
    BY DEF MutexInit, WQInit
<1>3. held \in BOOLEAN /\ ~held /\ owner \in {NoTask}
    BY Zenon DEF MutexInit
<1>4. pc \in [Tasks -> {"out", "lock", "crit", "unlock"}]
    BY Zenon DEF MutexInit
<1>5. TypeOK
    BY <1>2, <1>3, <1>4, Zenon DEF TypeOK
<1> QED BY <1>1, <1>5, Zenon DEF MutexInit, WQInit, IInv, MutualExclusion, NobodyStranded, SleepersLock

LEMMA CallLockInv == ASSUME IInv, NEW t \in Tasks, CallLock(t) PROVE IInv'
BY DEF IInv, CallLock, Goto, wqVars, TypeOK, QueueOK, Queued, MutualExclusion, NobodyStranded,
       SleepersLock

\* Taking the mutex, from lock() or from try_lock().
LEMMA TakeInv == ASSUME IInv, NEW t \in Tasks, t \notin inside, Take(t) PROVE IInv'
BY DEF IInv, Take, Goto, wqVars, TypeOK, QueueOK, Queued, MutualExclusion, NobodyStranded,
       SleepersLock

LEMMA LockSleepInv == ASSUME IInv, NEW t \in Tasks, LockSleep(t) PROVE IInv'
<1>1. QueueOK' /\ queue' \in Seq(Tasks)
    BY SleeperJoins, Zenon DEF IInv, TypeOK, LockSleep
<1>2. TypeOK' /\ MutualExclusion' /\ NobodyStranded' /\ SleepersLock'
    BY <1>1, Zenon DEF IInv, LockSleep, Sleep, TypeOK, MutualExclusion, NobodyStranded, SleepersLock
<1> QED BY <1>1, <1>2, Zenon DEF IInv

LEMMA LockResumeInv == ASSUME IInv, NEW t \in Tasks, LockResume(t) PROVE IInv'
<1>1. QueueOK' /\ queue' = queue
    BY ResumeFindsUnlinked, Zenon DEF IInv, LockResume
<1> QED BY <1>1, Zenon DEF IInv, LockResume, Resume, TypeOK, MutualExclusion, NobodyStranded, SleepersLock

LEMMA UnlockClearInv == ASSUME IInv, NEW t \in Tasks, UnlockClear(t) PROVE IInv'
<1> USE DEF UnlockClear, Goto, wqVars
<1>1. TypeOK'
    BY Zenon DEF IInv, TypeOK
<1>2. QueueOK'
    BY Zenon DEF IInv, QueueOK, Queued
<1>3. MutualExclusion'
    BY Zenon DEF IInv, TypeOK, MutualExclusion
<1>4. NobodyStranded' /\ SleepersLock'
    BY Zenon DEF IInv, TypeOK, NobodyStranded, SleepersLock
<1> QED BY <1>1, <1>2, <1>3, <1>4, Zenon DEF IInv

LEMMA UnlockWakeInv == ASSUME IInv, NEW t \in Tasks, UnlockWake(t) PROVE IInv'
<1>1. CASE queue = <<>>
    BY <1>1 DEF IInv, UnlockWake, WakeupOne, Goto, wqVars, TypeOK, QueueOK, Queued,
                MutualExclusion, NobodyStranded, SleepersLock
<1>2. CASE queue # <<>>
  <2> DEFINE h == Head(queue)
  <2>1. /\ QueueOK' /\ queue' \in Seq(Tasks) /\ h \in inside
        /\ asleep' = asleep \ {h} /\ inside' = inside
      BY <1>2, OldestLeaves, Zenon DEF IInv, TypeOK, UnlockWake
  <2> HIDE DEF h
  <2>2. TypeOK' /\ MutualExclusion' /\ SleepersLock'
      BY <2>1, Zenon DEF IInv, UnlockWake, Goto, TypeOK, MutualExclusion, SleepersLock
  <2>3. h \in Tasks /\ h # t /\ pc'[h] = "lock" /\ h \notin asleep'
      BY <2>1, Zenon DEF IInv, UnlockWake, Goto, TypeOK, SleepersLock
  <2>4. NobodyStranded'
      BY <2>3, Zenon DEF NobodyStranded
  <2> QED BY <2>1, <2>2, <2>4, Zenon DEF IInv
<1> QED BY <1>1, <1>2, Zenon

LEMMA MutexInductive == IInv /\ [MutexNext]_mutexVars => IInv'
<1> SUFFICES ASSUME IInv, [MutexNext]_mutexVars PROVE IInv'
    BY Zenon
<1>1. ASSUME NEW t \in Tasks, LockTake(t) PROVE IInv'
    BY <1>1, TakeInv, Zenon DEF LockTake
<1>2. ASSUME NEW t \in Tasks, TryLock(t) PROVE IInv'
    BY <1>2, TakeInv, Zenon DEF TryLock, IInv, SleepersLock
<1>3. CASE UNCHANGED mutexVars
    BY <1>3 DEF mutexVars, wqVars, IInv, TypeOK, QueueOK, Queued, MutualExclusion, NobodyStranded,
                SleepersLock
<1> QED BY <1>1, <1>2, <1>3, CallLockInv, LockSleepInv, LockResumeInv, UnlockClearInv,
           UnlockWakeInv, Zenon DEF MutexNext

\* The conjunction that carries the induction.
THEOREM MutexInvariance == MutexSpec => []IInv
BY MutexInitInv, MutexInductive, PTL DEF MutexSpec

\* Mutex::lock() and unlock() keep two tasks out of the critical section at
\* once, for any number of tasks.
THEOREM Exclusion == MutexSpec => []MutualExclusion
BY MutexInvariance, PTL DEF IInv

\* The gap in Mutex::unlock() between clearing held_ and wakeup_one() strands
\* no sleeper of lock(), for any number of tasks.
THEOREM NoStrandedSleeper == MutexSpec => []NobodyStranded
BY MutexInvariance, PTL DEF IInv

\* The entries on the stacks of sleep() are linked exactly while their tasks
\* sleep, however lock() and unlock() interleave.
THEOREM QueueConsistent == MutexSpec => []QueueOK
BY MutexInvariance, PTL DEF IInv

(***************************************************************************)
(* Semaphore                                                               *)
(***************************************************************************)

LEMMA FiniteSides ==
    /\ IsFiniteSet(Upping) /\ Cardinality(Upping) \in Nat
    /\ IsFiniteSet(Trying) /\ Cardinality(Trying) \in Nat
<1>1. Upping \in SUBSET Tasks /\ Trying \in SUBSET Tasks
    BY Zenon DEF Upping, Trying
<1>2. IsFiniteSet(Upping) /\ IsFiniteSet(Trying)
    BY <1>1, TasksAssumption, FS_Subset, Zenon
<1> QED BY <1>2, FS_CardinalityType, Zenon

LEMMA FiniteSidesNext == Cardinality(Upping') \in Nat /\ Cardinality(Trying') \in Nat
<1>1. Upping' \in SUBSET Tasks /\ Trying' \in SUBSET Tasks
    BY Zenon DEF Upping, Trying
<1>2. IsFiniteSet(Upping') /\ IsFiniteSet(Trying')
    BY <1>1, TasksAssumption, FS_Subset, Zenon
<1> QED BY <1>2, FS_CardinalityType, Zenon

LEMMA SemInitInv == SemInit => SemIInv
<1> SUFFICES ASSUME SemInit PROVE SemIInv
    BY Zenon
<1>1. QueueOK
    BY EmptyQueueOK, Zenon DEF SemInit
<1>2. SemTypeOK
    BY CountAssumption DEF SemInit, WQInit, SemTypeOK
<1> QED BY <1>1, <1>2, Zenon DEF SemInit, WQInit, SemIInv, PermitsClaimed, SleepersDown

LEMMA CallDownInv == ASSUME SemIInv, NEW t \in Tasks, CallDown(t) PROVE SemIInv'
<1> USE DEF CallDown, SemGoto, wqVars
<1>1. SemTypeOK' /\ SleepersDown'
    BY Zenon DEF SemIInv, SemTypeOK, SleepersDown
<1>2. QueueOK'
    BY UnchangedQueueOK, Zenon DEF SemIInv
<1>3. t \notin asleep
    BY Zenon DEF SemIInv, QueueOK, SleepersDown
<1>4. Upping' = Upping /\ Trying' = Trying \cup {t}
    BY <1>3, Zenon DEF SemIInv, SemTypeOK, Upping, Trying
<1>5. Cardinality(Trying') = Cardinality(Trying) \/ Cardinality(Trying') = Cardinality(Trying) + 1
    BY <1>4, FiniteSides, FS_AddElement, Zenon
<1>6. PermitsClaimed'
    BY <1>4, <1>5, FiniteSides DEF SemIInv, SemTypeOK, PermitsClaimed
<1> QED BY <1>1, <1>2, <1>6, Zenon DEF SemIInv

LEMMA DownTakeInv == ASSUME SemIInv, NEW t \in Tasks, DownTake(t) PROVE SemIInv'
<1> USE DEF DownTake, TakePermit, SemGoto, wqVars
<1>1. SemTypeOK' /\ SleepersDown'
    BY DEF SemIInv, SemTypeOK, SleepersDown
<1>2. QueueOK'
    BY UnchangedQueueOK, Zenon DEF SemIInv
<1>3. t \in Trying
    BY Zenon DEF SemIInv, QueueOK, Trying
<1>4. Upping' = Upping /\ Trying' = Trying \ {t}
    BY Zenon DEF SemIInv, SemTypeOK, Upping, Trying
<1>5. Cardinality(Trying') = Cardinality(Trying) - 1
    BY <1>3, <1>4, FiniteSides, FS_RemoveElement, Zenon
<1>6. PermitsClaimed'
    BY <1>4, <1>5, FiniteSides DEF SemIInv, SemTypeOK, PermitsClaimed
<1> QED BY <1>1, <1>2, <1>6, Zenon DEF SemIInv

LEMMA TryDownInv == ASSUME SemIInv, NEW t \in Tasks, TryDown(t) PROVE SemIInv'
<1> USE DEF TryDown, TakePermit, SemGoto, wqVars
<1>1. SemTypeOK' /\ SleepersDown'
    BY DEF SemIInv, SemTypeOK, SleepersDown
<1>2. QueueOK'
    BY UnchangedQueueOK, Zenon DEF SemIInv
<1>3. Upping' = Upping /\ Trying' = Trying
    BY Zenon DEF SemIInv, SemTypeOK, Upping, Trying
<1>4. PermitsClaimed'
    BY <1>3, FiniteSides DEF SemIInv, SemTypeOK, PermitsClaimed
<1> QED BY <1>1, <1>2, <1>4, Zenon DEF SemIInv

LEMMA DownSleepInv == ASSUME SemIInv, NEW t \in Tasks, DownSleep(t) PROVE SemIInv'
<1>1. QueueOK' /\ queue' \in Seq(Tasks)
    BY SleeperJoins, Zenon DEF SemIInv, SemTypeOK, DownSleep
<1>2. SemTypeOK' /\ SleepersDown'
    BY <1>1, Zenon DEF SemIInv, DownSleep, Sleep, SemTypeOK, SleepersDown
<1>3. PermitsClaimed'
  <2>1. count' = 0
      BY Zenon DEF DownSleep
  <2> QED BY <2>1, FiniteSidesNext DEF PermitsClaimed
<1> QED BY <1>1, <1>2, <1>3, Zenon DEF SemIInv

LEMMA DownResumeInv == ASSUME SemIInv, NEW t \in Tasks, DownResume(t) PROVE SemIInv'
<1>1. QueueOK' /\ queue' = queue
    BY ResumeFindsUnlinked, Zenon DEF SemIInv, DownResume
<1>2. Upping' = Upping /\ Trying' = Trying
    BY Zenon DEF DownResume, Resume, Upping, Trying
<1> QED BY <1>1, <1>2, Zenon DEF SemIInv, DownResume, Resume, SemTypeOK, PermitsClaimed, SleepersDown

LEMMA UpAddInv == ASSUME SemIInv, NEW t \in Tasks, UpAdd(t) PROVE SemIInv'
<1> USE DEF UpAdd, SemGoto, wqVars
<1>1. SemTypeOK' /\ SleepersDown'
    BY DEF SemIInv, SemTypeOK, SleepersDown
<1>2. QueueOK'
    BY UnchangedQueueOK, Zenon DEF SemIInv
<1>3. t \notin Upping
    BY Zenon DEF Upping
<1>4. Upping' = Upping \cup {t} /\ Trying' = Trying
    BY Zenon DEF SemIInv, SemTypeOK, Upping, Trying
<1>5. Cardinality(Upping') = Cardinality(Upping) + 1
    BY <1>3, <1>4, FiniteSides, FS_AddElement, Zenon
<1>6. PermitsClaimed'
    BY <1>4, <1>5, FiniteSides DEF SemIInv, SemTypeOK, PermitsClaimed
<1> QED BY <1>1, <1>2, <1>6, Zenon DEF SemIInv

LEMMA UpWakeInv == ASSUME SemIInv, NEW t \in Tasks, UpWake(t) PROVE SemIInv'
<1>1. CASE queue = <<>>
  <2>1. QueueOK' /\ queue' = <<>>
      BY <1>1, UnchangedQueueOK, Zenon DEF SemIInv, UpWake, WakeupOne, wqVars
  <2> QED BY <1>1, <2>1, Zenon DEF SemIInv, UpWake, WakeupOne, SemGoto, wqVars, SemTypeOK, PermitsClaimed,
                            SleepersDown
<1>2. CASE queue # <<>>
  <2> DEFINE h == Head(queue)
  <2>1. /\ QueueOK' /\ queue' \in Seq(Tasks) /\ h \in inside
        /\ asleep' = asleep \ {h} /\ inside' = inside
      BY <1>2, OldestLeaves, Zenon DEF SemIInv, SemTypeOK, UpWake
  <2>2. h \in asleep
    <3>1. queue[1] = h /\ 1 \in 1 .. Len(queue)
        BY <1>2 DEF SemIInv, SemTypeOK
    <3> QED BY <3>1, Zenon DEF SemIInv, QueueOK, Queued
  <2> HIDE DEF h
  <2>3. SemTypeOK' /\ SleepersDown'
      BY <2>1, Zenon DEF SemIInv, UpWake, SemGoto, SemTypeOK, SleepersDown
  <2>4. h \in Tasks /\ semPc[h] = "down" /\ h # t /\ h \notin Trying /\ t \in Upping
      BY <2>1, <2>2, Zenon DEF SemIInv, UpWake, SemTypeOK, SleepersDown, Trying, Upping
  <2>5. Upping' = Upping \ {t} /\ Trying' = Trying \cup {h}
      BY <2>1, <2>4, Zenon DEF SemIInv, UpWake, SemGoto, SemTypeOK, Trying, Upping
  <2>6. Cardinality(Upping') = Cardinality(Upping) - 1
      BY <2>4, <2>5, FiniteSides, FS_RemoveElement, Zenon
  <2>7. Cardinality(Trying') = Cardinality(Trying) + 1
      BY <2>4, <2>5, FiniteSides, FS_AddElement, Zenon
  <2>8. PermitsClaimed'
      BY <1>2, <2>6, <2>7, FiniteSides DEF SemIInv, UpWake, SemTypeOK, PermitsClaimed
  <2> QED BY <2>1, <2>3, <2>8, Zenon DEF SemIInv
<1> QED BY <1>1, <1>2, Zenon

LEMMA SemInductive == SemIInv /\ [SemNext]_semVars => SemIInv'
<1> SUFFICES ASSUME SemIInv, [SemNext]_semVars PROVE SemIInv'
    BY Zenon
<1>1. CASE UNCHANGED semVars
  <2>1. QueueOK' /\ Upping' = Upping /\ Trying' = Trying
      BY <1>1, UnchangedQueueOK, Zenon DEF SemIInv, semVars, wqVars, Upping, Trying
  <2> QED BY <1>1, <2>1, Zenon DEF semVars, wqVars, SemIInv, SemTypeOK, PermitsClaimed, SleepersDown
<1> QED BY <1>1, CallDownInv, DownTakeInv, TryDownInv, DownSleepInv, DownResumeInv, UpAddInv,
           UpWakeInv, Zenon DEF SemNext

\* The conjunction that carries the induction.
THEOREM SemInvariance == SemSpec => []SemIInv
BY SemInitInv, SemInductive, PTL DEF SemSpec

\* count_ never goes below zero, whichever of down(), try_down() and up()
\* interleave.
THEOREM CountNonNegative == SemSpec => []SemTypeOK
BY SemInvariance, PTL DEF SemIInv

\* Semaphore::up() with its gap before wakeup_one() leaves no permit unclaimed
\* beside a sleeper of down(), for any finite number of tasks.
THEOREM NoIdlePermit == SemSpec => []PermitsClaimed
BY SemInvariance, PTL DEF SemIInv

(***************************************************************************)
(* The ring of console input implements the queue of InputQueue            *)
(***************************************************************************)

ConsoleTypeOK ==
    /\ read \in 0 .. Size - 1 /\ write \in 0 .. Size - 1
    /\ input \in [0 .. Size - 1 -> Chars \cup {NoChar}]
    /\ got \in [Readers -> Chars \cup {NoChar}]

\* The remainders the ring takes, of numbers below twice its size.
LEMMA Wrap ==
  ASSUME NEW x \in Nat, x < Size + Size
  PROVE  x % Size = IF x < Size THEN x ELSE x - Size
<1> DEFINE q == x \div Size
           r == x % Size
<1>1. q \in Nat /\ r \in 0 .. Size - 1 /\ x = Size * q + r /\ Size \in Nat \ {0}
  BY SizeAssumption, SMT
<1> HIDE DEF q, r
<1>2. CASE q = 0
  BY <1>1, <1>2 DEF r
<1>3. CASE q = 1
  <2>1. x = Size + r
    BY <1>1, <1>3
  <2> QED BY <1>1, <2>1 DEF r
<1>4. CASE q # 0 /\ q # 1
  <2>1. PICK d \in Nat : q = 2 + d
    <3>1. q - 2 \in Nat /\ q = 2 + (q - 2)
      BY <1>1, <1>4
    <3> QED BY <3>1, Zenon
  <2>2. Size * q = Size + Size + Size * d /\ Size * d \in Nat
    BY <1>1, <2>1
  <2> QED BY <1>1, <2>2
<1> QED BY <1>2, <1>3, <1>4, Zenon

\* How many characters a ring that is read at r and written at w holds.
LEMMA HeldOf ==
  ASSUME NEW r \in 0 .. Size - 1, NEW w \in 0 .. Size - 1
  PROVE  /\ (w + Size - r) % Size = IF r <= w THEN w - r ELSE w + Size - r
         /\ (w + Size - r) % Size \in 0 .. Size - 1
<1>1. Size \in Nat /\ r \in Nat /\ w \in Nat /\ r < Size /\ w < Size
  BY SizeAssumption
<1> DEFINE x == w + Size - r
<1>2. x \in Nat /\ x < Size + Size
  BY <1>1
<1> HIDE DEF x
<1>3. x % Size = IF x < Size THEN x ELSE x - Size
  BY <1>2, Wrap, Zenon
<1> QED BY <1>1, <1>2, <1>3 DEF x

\* The slot of the i-th of h characters of a ring that is read at r.
LEMMA SlotOf ==
  ASSUME NEW r \in 0 .. Size - 1, NEW h \in 0 .. Size - 1, NEW i \in 1 .. h + 1
  PROVE  /\ (r + i - 1) % Size = IF r + i - 1 < Size THEN r + i - 1 ELSE r + i - 1 - Size
         /\ (r + i - 1) % Size \in 0 .. Size - 1
<1>1. Size \in Nat /\ r \in Nat /\ r < Size /\ h \in Nat /\ h < Size
  BY SizeAssumption
<1> DEFINE x == r + i - 1
<1>2. x \in Nat /\ x < Size + Size
  BY <1>1
<1> HIDE DEF x
<1>3. x % Size = IF x < Size THEN x ELSE x - Size
  BY <1>2, Wrap, Zenon
<1> QED BY <1>1, <1>2, <1>3 DEF x

\* What a ring holds is a sequence.
LEMMA ContentsOf ==
  ASSUME NEW S, NEW f \in [0 .. Size - 1 -> S],
         NEW r \in 0 .. Size - 1, NEW h \in 0 .. Size - 1
  PROVE  LET s == [i \in 1 .. h |-> f[(r + i - 1) % Size]]
         IN /\ s \in Seq(S) /\ Len(s) = h
            /\ \A i \in 1 .. h : s[i] = f[(r + i - 1) % Size]
<1>1. h \in Nat
  BY SizeAssumption
<1>2. ASSUME NEW i \in 1 .. h
      PROVE  f[(r + i - 1) % Size] \in S
  <2>1. i \in 1 .. h + 1
    BY <1>1
  <2>2. (r + i - 1) % Size \in 0 .. Size - 1
    BY <2>1, SlotOf, Zenon
  <2> QED BY <2>2, Zenon
<1> QED BY <1>1, <1>2

-----------------------------------------------------------------------------
(* The steps.                                                              *)

\* A ring that is not full takes the character behind the others
\* (push_input()).
LEMMA PushArrives ==
  ASSUME ConsoleTypeOK, NEW c \in Chars, PushInput(c)
  PROVE  ConsoleTypeOK' /\ [Fifo!Next]_<<Contents, got>>
<1> DEFINE S == Chars \cup {NoChar}
           next == (write + 1) % Size
<1>1. /\ Size \in Nat /\ Size >= 1 /\ read \in 0 .. Size - 1 /\ write \in 0 .. Size - 1
      /\ input \in [0 .. Size - 1 -> S]
  BY SizeAssumption, Zenon DEF ConsoleTypeOK
<1>2. next = (IF write + 1 < Size THEN write + 1 ELSE 0) /\ next \in 0 .. Size - 1
  <2> DEFINE x == write + 1
  <2>1. x \in Nat /\ x < Size + Size
    BY <1>1
  <2> HIDE DEF x
  <2>2. x % Size = IF x < Size THEN x ELSE x - Size
    BY <2>1, Wrap, Zenon
  <2> QED BY <1>1, <2>2 DEF x
<1>3. CASE next = read
  <2>1. UNCHANGED consoleVars
    BY <1>3, Zenon DEF PushInput
  <2> QED BY <2>1, Zenon DEF consoleVars, ringVars, ConsoleTypeOK, Contents, Held
<1>4. CASE next # read
  <2>1. /\ input' = [input EXCEPT ![write] = c] /\ write' = next
        /\ read' = read /\ got' = got
    BY <1>4, Zenon DEF PushInput
  <2> HIDE DEF next
  <2>2. ConsoleTypeOK'
    BY <1>1, <1>2, <2>1, Zenon DEF ConsoleTypeOK
  <2>3. input' \in [0 .. Size - 1 -> S]
    BY <1>1, <2>1, Zenon
  <2>4. /\ Held = (IF read <= write THEN write - read ELSE write + Size - read)
        /\ Held \in 0 .. Size - 1
    BY <1>1, HeldOf, Zenon DEF Held
  <2>5. /\ Held' = (IF read <= next THEN next - read ELSE next + Size - read)
        /\ Held' \in 0 .. Size - 1
    BY <1>1, <1>2, <2>1, HeldOf, Zenon DEF Held
  <2>6. Held' = Held + 1 /\ Held + 1 \in Nat /\ Held < Size - 1
    BY <1>1, <1>2, <1>4, <2>4, <2>5
  <2>7. /\ Contents \in Seq(S) /\ Len(Contents) = Held
        /\ \A i \in 1 .. Held : Contents[i] = input[(read + i - 1) % Size]
    BY <1>1, <2>4, ContentsOf DEF Contents
  <2>8. /\ Contents' \in Seq(S) /\ Len(Contents') = Held'
        /\ \A i \in 1 .. Held' : Contents'[i] = input'[(read + i - 1) % Size]
    <3> DEFINE f == input'
               h == Held'
    <3>1. Contents' = [i \in 1 .. h |-> f[(read + i - 1) % Size]]
      BY <2>1 DEF Contents
    <3>2. f \in [0 .. Size - 1 -> S] /\ h \in 0 .. Size - 1
      BY <2>3, <2>5, Zenon
    <3> HIDE DEF f, h
    <3>3. LET s == [i \in 1 .. h |-> f[(read + i - 1) % Size]]
          IN /\ s \in Seq(S) /\ Len(s) = h
             /\ \A i \in 1 .. h : s[i] = f[(read + i - 1) % Size]
      BY <1>1, <3>2, ContentsOf
    <3> QED BY <3>1, <3>3, Zenon DEF f, h
  <2>9. ASSUME NEW i \in 1 .. Held
        PROVE  Contents'[i] = Contents[i]
    <3>1. i \in 1 .. Held + 1 /\ i \in 1 .. Held'
      BY <2>4, <2>6
    <3> DEFINE k == (read + i - 1) % Size
    <3>2. /\ k = (IF read + i - 1 < Size THEN read + i - 1 ELSE read + i - 1 - Size)
          /\ k \in 0 .. Size - 1
      BY <1>1, <2>4, <3>1, SlotOf, Zenon
    <3> HIDE DEF k
    <3>3. k # write
      BY <1>1, <2>4, <3>2
    <3>4. Contents'[i] = input'[k] /\ Contents[i] = input[k]
      BY <2>7, <2>8, <3>1, Zenon DEF k
    <3> QED BY <1>1, <2>1, <3>2, <3>3, <3>4, Zenon
  <2>10. Contents'[Held + 1] = c
    <3>1. Held + 1 \in 1 .. Held + 1 /\ Held + 1 \in 1 .. Held'
      BY <2>4, <2>6
    <3> DEFINE j == Held + 1
               k == (read + j - 1) % Size
    <3>2. j \in 1 .. Held + 1 /\ j \in 1 .. Held' /\ j = Held + 1
      BY <3>1, Zenon
    <3> HIDE DEF j
    <3>3. k = IF read + j - 1 < Size THEN read + j - 1 ELSE read + j - 1 - Size
      BY <1>1, <2>4, <3>2, SlotOf, Zenon
    <3>4. Contents'[j] = input'[k]
      BY <2>8, <3>2, Zenon
    <3> HIDE DEF k
    <3>5. k = write
      BY <1>1, <2>4, <3>2, <3>3
    <3> QED BY <1>1, <2>1, <3>2, <3>4, <3>5, Zenon
  <2>11. Contents' = Append(Contents, c)
    <3>1. /\ Append(Contents, c) \in Seq(S) /\ Len(Append(Contents, c)) = Held + 1
          /\ \A i \in 1 .. Held : Append(Contents, c)[i] = Contents[i]
          /\ Append(Contents, c)[Held + 1] = c
      BY <2>4, <2>7
    <3>2. \A i \in 1 .. Held + 1 : i \in 1 .. Held \/ i = Held + 1
      BY <2>4
    <3>3. \A i \in 1 .. Len(Contents') : Contents'[i] = Append(Contents, c)[i]
      BY <2>6, <2>8, <2>9, <2>10, <3>1, <3>2, Zenon
    <3>4. Len(Contents') = Len(Append(Contents, c))
      BY <2>6, <2>8, <3>1, Zenon
    <3> QED BY <2>8, <3>1, <3>3, <3>4, SeqEqual, Zenon
  <2>12. Len(Contents) < Size - 1
    BY <2>6, <2>7, Zenon
  <2>13. Fifo!Arrive(c)
    BY <2>1, <2>11, <2>12, Zenon DEF Fifo!Arrive
  <2> QED BY <2>2, <2>13, Zenon DEF Fifo!Next
<1> QED BY <1>3, <1>4, Zenon

\* A reader gets the oldest character and leaves the others (getc()).
LEMMA TakeDelivers ==
  ASSUME ConsoleTypeOK, NEW t \in Readers, GetcTake(t)
  PROVE  ConsoleTypeOK' /\ [Fifo!Next]_<<Contents, got>>
<1> DEFINE S == Chars \cup {NoChar}
           next == (read + 1) % Size
<1>1. /\ Size \in Nat /\ Size >= 1 /\ read \in 0 .. Size - 1 /\ write \in 0 .. Size - 1
      /\ input \in [0 .. Size - 1 -> S]
  BY SizeAssumption, Zenon DEF ConsoleTypeOK
<1>2. next = (IF read + 1 < Size THEN read + 1 ELSE 0) /\ next \in 0 .. Size - 1
  <2> DEFINE x == read + 1
  <2>1. x \in Nat /\ x < Size + Size
    BY <1>1
  <2> HIDE DEF x
  <2>2. x % Size = IF x < Size THEN x ELSE x - Size
    BY <2>1, Wrap, Zenon
  <2> QED BY <1>1, <2>2 DEF x
<1>3. /\ read # write /\ got' = [got EXCEPT ![t] = input[read]] /\ read' = next
      /\ input' = input /\ write' = write
  BY Zenon DEF GetcTake
<1> HIDE DEF next
<1>4. ConsoleTypeOK'
  BY <1>1, <1>2, <1>3, Zenon DEF ConsoleTypeOK
<1>5. /\ Held = (IF read <= write THEN write - read ELSE write + Size - read)
      /\ Held \in 0 .. Size - 1
  BY <1>1, HeldOf, Zenon DEF Held
<1>6. /\ Held' = (IF next <= write THEN write - next ELSE write + Size - next)
      /\ Held' \in 0 .. Size - 1
  BY <1>1, <1>2, <1>3, HeldOf, Zenon DEF Held
<1>7. Held' = Held - 1 /\ Held >= 1
  BY <1>1, <1>2, <1>3, <1>5, <1>6
<1>8. /\ Contents \in Seq(S) /\ Len(Contents) = Held
      /\ \A i \in 1 .. Held : Contents[i] = input[(read + i - 1) % Size]
  BY <1>1, <1>5, ContentsOf DEF Contents
<1>9. /\ Contents' \in Seq(S) /\ Len(Contents') = Held'
      /\ \A i \in 1 .. Held' : Contents'[i] = input[(next + i - 1) % Size]
  <2> DEFINE h == Held'
  <2>1. Contents' = [i \in 1 .. h |-> input[(next + i - 1) % Size]]
    BY <1>3, Zenon DEF Contents
  <2>2. h \in 0 .. Size - 1
    BY <1>6, Zenon
  <2> HIDE DEF h
  <2>3. LET s == [i \in 1 .. h |-> input[(next + i - 1) % Size]]
        IN /\ s \in Seq(S) /\ Len(s) = h
           /\ \A i \in 1 .. h : s[i] = input[(next + i - 1) % Size]
    BY <1>1, <1>2, <2>2, ContentsOf
  <2> QED BY <2>1, <2>3, Zenon DEF h
<1>10. Contents # <<>> /\ Head(Contents) = input[read]
  <2>1. 1 \in 1 .. Held /\ 1 \in 1 .. Held + 1
    BY <1>5, <1>7
  <2>2. (read + 1 - 1) % Size = read
    BY <1>1, <1>5, <2>1, SlotOf
  <2>3. Contents[1] = input[read]
    BY <1>8, <2>1, <2>2, Zenon
  <2> QED BY <1>5, <1>7, <1>8, <2>3
<1>11. ASSUME NEW i \in 1 .. Held'
       PROVE  Contents'[i] = Contents[i + 1]
  <2> DEFINE j == i + 1
  <2>1. i \in 1 .. Held' + 1 /\ j \in 1 .. Held /\ j \in 1 .. Held + 1
    BY <1>5, <1>6, <1>7
  <2> DEFINE k == (next + i - 1) % Size
             l == (read + j - 1) % Size
             h == Held'
  <2>2. h \in 0 .. Size - 1 /\ i \in 1 .. h + 1
    BY <1>6, <2>1, Zenon
  <2>3. Contents'[i] = input[k] /\ Contents[j] = input[l]
    BY <1>8, <1>9, <2>1, Zenon
  <2> HIDE DEF h
  <2>4. k = IF next + i - 1 < Size THEN next + i - 1 ELSE next + i - 1 - Size
    BY <1>2, <2>2, SlotOf, Zenon
  <2>5. j = i + 1
    BY Zenon
  <2> HIDE DEF j
  <2>6. l = IF read + j - 1 < Size THEN read + j - 1 ELSE read + j - 1 - Size
    BY <1>1, <1>5, <2>1, SlotOf, Zenon
  <2> HIDE DEF k, l
  <2>7. k = l
    BY <1>1, <1>2, <1>5, <1>7, <2>1, <2>4, <2>5, <2>6
  <2> QED BY <2>3, <2>5, <2>7, Zenon
<1>12. Contents' = Tail(Contents)
  <2>1. /\ Tail(Contents) \in Seq(S) /\ Len(Tail(Contents)) = Held - 1
        /\ \A i \in 1 .. Held - 1 : Tail(Contents)[i] = Contents[i + 1]
    BY <1>5, <1>7, <1>8, <1>10
  <2>2. \A i \in 1 .. Len(Contents') : Contents'[i] = Tail(Contents)[i]
    BY <1>7, <1>9, <1>11, <2>1, Zenon
  <2>3. Len(Contents') = Len(Tail(Contents))
    BY <1>7, <1>9, <2>1, Zenon
  <2> QED BY <1>9, <2>1, <2>2, <2>3, SeqEqual, Zenon
<1>13. Fifo!Deliver(t)
  BY <1>3, <1>10, <1>12, Zenon DEF Fifo!Deliver
<1> QED BY <1>4, <1>13, Zenon DEF Fifo!Next

\* The other steps of a reader touch neither the ring nor what was delivered.
LEMMA OthersStutter ==
  ASSUME ConsoleTypeOK, UNCHANGED <<input, read, write, got>>
  PROVE  ConsoleTypeOK' /\ [Fifo!Next]_<<Contents, got>>
BY Zenon DEF ConsoleTypeOK, Contents, Held

\* The ring of console input is a queue of Size - 1 characters: whatever the
\* order of interrupts and readers, a character is dropped only when the queue
\* is full, and every other is delivered once, in order of arrival
\* (Console::push_input, getc).
THEOREM ConsoleRefinement == ConsoleSpec => ImplementsQueue
<1>1. ConsoleInit => ConsoleTypeOK /\ Fifo!Init
  <2> SUFFICES ASSUME ConsoleInit PROVE ConsoleTypeOK /\ Fifo!Init
    BY Zenon
  <2>1. ConsoleTypeOK
    BY SizeAssumption DEF ConsoleInit, ConsoleTypeOK
  <2>2. Held = 0
    BY <2>1, HeldOf DEF ConsoleInit, Held, ConsoleTypeOK
  <2>3. Contents = <<>>
    BY <2>2 DEF Contents
  <2> QED BY <2>1, <2>3, Zenon DEF ConsoleInit, Fifo!Init
<1>2. ConsoleTypeOK /\ [ConsoleNext]_consoleVars => ConsoleTypeOK' /\ [Fifo!Next]_<<Contents, got>>
  <2> SUFFICES ASSUME ConsoleTypeOK, [ConsoleNext]_consoleVars
               PROVE  ConsoleTypeOK' /\ [Fifo!Next]_<<Contents, got>>
    BY Zenon
  <2>1. CASE \E c \in Chars : PushInput(c)
    BY <2>1, PushArrives, Zenon
  <2>2. ASSUME NEW t \in Readers, GetcTake(t)
        PROVE  ConsoleTypeOK' /\ [Fifo!Next]_<<Contents, got>>
    BY <2>2, TakeDelivers, Zenon
  <2>3. ASSUME NEW t \in Readers, CallGetc(t) \/ GetcSleep(t) \/ GetcResume(t)
        PROVE  ConsoleTypeOK' /\ [Fifo!Next]_<<Contents, got>>
    BY <2>3, OthersStutter, Zenon DEF CallGetc, GetcSleep, GetcResume, ringVars
  <2>4. CASE UNCHANGED consoleVars
    BY <2>4, OthersStutter, Zenon DEF consoleVars, ringVars
  <2> QED BY <2>1, <2>2, <2>3, <2>4, Zenon DEF ConsoleNext
<1> QED BY <1>1, <1>2, PTL DEF ConsoleSpec, ImplementsQueue, Fifo!Spec

(***************************************************************************)
(* DumpExact for a ring of any size, any number of records and any set of  *)
(* levels and messages                                                     *)
(***************************************************************************)

(* Two numbers less than RECORD_COUNT apart that share a slot are equal,   *)
(* and a slot comes round after RECORD_COUNT numbers.                      *)

\* What the remainder is, as the ring uses it.
LEMMA SlotRange ==
  ASSUME NEW s \in Nat
  PROVE  /\ s % RECORD_COUNT \in 0 .. RECORD_COUNT - 1
         /\ s \div RECORD_COUNT \in Nat
         /\ s = RECORD_COUNT * (s \div RECORD_COUNT) + (s % RECORD_COUNT)
BY LogAssumption, SMT

\* Two records that share a slot of records_ and are less than a round apart
\* are the same.
LEMMA SameSlot ==
  ASSUME NEW s \in Nat, NEW n \in Nat, s <= n, n < s + RECORD_COUNT,
         s % RECORD_COUNT = n % RECORD_COUNT
  PROVE  s = n
<1> DEFINE q == s \div RECORD_COUNT
           p == n \div RECORD_COUNT
           r == s % RECORD_COUNT
<1>1. /\ q \in Nat /\ p \in Nat /\ r \in Nat /\ RECORD_COUNT \in Nat \ {0}
      /\ s = RECORD_COUNT * q + r /\ n = RECORD_COUNT * p + r
  BY SlotRange, LogAssumption
<1> HIDE DEF q, p, r
<1>2. CASE p > q
  <2>1. PICK d \in Nat : p = q + 1 + d
    <3>1. p - q - 1 \in Nat /\ p = q + 1 + (p - q - 1)
      BY <1>1, <1>2
    <3> QED BY <3>1, Zenon
  <2>2. RECORD_COUNT * p = RECORD_COUNT * q + RECORD_COUNT + RECORD_COUNT * d
    BY <1>1, <2>1
  <2>3. RECORD_COUNT * d >= 0 /\ RECORD_COUNT * d \in Nat /\ RECORD_COUNT * q \in Nat
    BY <1>1, <2>1
  <2> QED BY <1>1, <2>2, <2>3
<1>3. CASE p < q
  <2>1. PICK d \in Nat : q = p + 1 + d
    <3>1. q - p - 1 \in Nat /\ q = p + 1 + (q - p - 1)
      BY <1>1, <1>3
    <3> QED BY <3>1, Zenon
  <2>2. RECORD_COUNT * q = RECORD_COUNT * p + RECORD_COUNT + RECORD_COUNT * d
    BY <1>1, <2>1
  <2>3. RECORD_COUNT * d >= 0 /\ RECORD_COUNT * d \in Nat /\ RECORD_COUNT * p \in Nat
    BY <1>1, <2>1
  <2> QED BY <1>1, <2>2, <2>3
<1>4. p = q => s = n
  BY <1>1, Zenon
<1> QED BY <1>1, <1>2, <1>3, <1>4

\* The slot of a record comes round RECORD_COUNT records later.
LEMMA NextRound ==
  ASSUME NEW s \in Nat
  PROVE  (s + RECORD_COUNT) % RECORD_COUNT = s % RECORD_COUNT
<1> DEFINE n == s + RECORD_COUNT
           q == s \div RECORD_COUNT
           p == n \div RECORD_COUNT
           a == s % RECORD_COUNT
           b == n % RECORD_COUNT
<1>1. /\ q \in Nat /\ p \in Nat /\ RECORD_COUNT \in Nat \ {0} /\ n \in Nat
      /\ a \in 0 .. RECORD_COUNT - 1 /\ b \in 0 .. RECORD_COUNT - 1
      /\ s = RECORD_COUNT * q + a /\ n = RECORD_COUNT * p + b /\ n = s + RECORD_COUNT
  BY SlotRange, LogAssumption
<1> HIDE DEF n, q, p, a, b
<1>2. CASE p > q + 1
  <2>1. PICK d \in Nat : p = q + 2 + d
    <3>1. p - q - 2 \in Nat /\ p = q + 2 + (p - q - 2)
      BY <1>1, <1>2
    <3> QED BY <3>1, Zenon
  <2>2. RECORD_COUNT * p = RECORD_COUNT * q + RECORD_COUNT + RECORD_COUNT + RECORD_COUNT * d
    BY <1>1, <2>1
  <2>3. RECORD_COUNT * d >= 0 /\ RECORD_COUNT * d \in Nat /\ RECORD_COUNT * q \in Nat
    BY <1>1, <2>1
  <2> QED BY <1>1, <2>2, <2>3
<1>3. CASE p < q + 1
  <2>1. PICK d \in Nat : q = p + d
    <3>1. q - p \in Nat /\ q = p + (q - p)
      BY <1>1, <1>3
    <3> QED BY <3>1, Zenon
  <2>2. RECORD_COUNT * q = RECORD_COUNT * p + RECORD_COUNT * d
    BY <1>1, <2>1
  <2>3. RECORD_COUNT * d >= 0 /\ RECORD_COUNT * d \in Nat /\ RECORD_COUNT * p \in Nat
    BY <1>1, <2>1
  <2> QED BY <1>1, <2>2, <2>3
<1>4. CASE p = q + 1
  <2>1. RECORD_COUNT * p = RECORD_COUNT * q + RECORD_COUNT
    BY <1>1, <1>4
  <2>2. RECORD_COUNT * q \in Nat
    BY <1>1
  <2>3. a = b
    BY <1>1, <2>1, <2>2
  <2> QED BY <2>3, Zenon DEF a, b, n
<1> QED BY <1>1, <1>2, <1>3, <1>4

-----------------------------------------------------------------------------
(* The inductive invariant.                                                *)

Record == [sequence : Nat, level : Levels \cup {0}, message : Messages \cup {"blank"}]

DumpState ==
  [pc : {"read", "print", "done"}, begin : Nat, end : Nat, sequence : Nat,
   record : Record, overwritten : Nat, printed : Seq(Record)]

LogTypeOK ==
  /\ next_sequence \in Nat
  /\ said \in Seq(Record) /\ Len(said) = next_sequence
  /\ records \in [0 .. RECORD_COUNT - 1 -> Record]
  /\ dump = Idle \/ dump \in DumpState

\* The slot of a record holds it until the record a round later takes it, and
\* from then on a later one.
RingOK ==
  \A s \in 0 .. next_sequence - 1 :
    LET record == records[s % RECORD_COUNT]
    IN /\ record.sequence \in s .. next_sequence - 1
       /\ record = said[record.sequence + 1]
       /\ Gone(s, next_sequence) <=> record.sequence # s

\* The bounds of a dump, and what the copy it is about to print is.
DumpOK ==
  dump # Idle =>
    /\ dump.begin <= dump.sequence /\ dump.sequence <= dump.end
    /\ dump.end <= next_sequence
    /\ dump.pc = "print" =>
         /\ dump.sequence < dump.end
         /\ dump.record.sequence < next_sequence
         /\ dump.record = said[dump.record.sequence + 1]
         /\ dump.record.sequence # dump.sequence => Gone(dump.sequence, next_sequence)

LogIInv == LogTypeOK /\ RingOK /\ DumpOK /\ DumpExact

-----------------------------------------------------------------------------
(* The steps.                                                              *)

\* The empty ring, with nothing said (the constructor of KernelLog).
LEMMA LogInitIInv == LogInit => LogIInv
<1> SUFFICES ASSUME LogInit PROVE LogIInv
  BY Zenon
<1>1. LogTypeOK
  <2>1. Blank \in Record
    BY Zenon DEF Blank, Record
  <2> QED BY <2>1, LogAssumption DEF LogInit, LogTypeOK
<1>2. RingOK
  BY DEF LogInit, RingOK
<1>3. DumpOK /\ DumpExact
  BY Zenon DEF LogInit, DumpOK, DumpExact, Idle
<1> QED BY <1>1, <1>2, <1>3, Zenon DEF LogIInv

\* dump is Idle exactly when its pc says so.
LEMMA IdlePc ==
  ASSUME LogTypeOK
  PROVE  dump.pc = "idle" <=> dump = Idle
BY DEF LogTypeOK, Idle, DumpState

\* A record that is appended leaves what was said before it, and what a dump
\* has printed and copied of it (append()).
LEMMA AppendIInv ==
  ASSUME LogIInv, append
  PROVE  LogIInv'
<1> USE DEF LogIInv
<1> DEFINE n == next_sequence
<1>1. PICK level \in Levels, message \in Messages :
        LET record == [sequence |-> n, level |-> level, message |-> message]
        IN /\ records' = [records EXCEPT ![n % RECORD_COUNT] = record]
           /\ said' = Append(said, record)
  BY Zenon DEF append
<1> DEFINE new == [sequence |-> n, level |-> level, message |-> message]
<1>2. n \in Nat /\ n' = n + 1 /\ new \in Record /\ new.sequence = n
  BY LogAssumption, Zenon DEF append, LogTypeOK, Record
<1>3. n % RECORD_COUNT \in 0 .. RECORD_COUNT - 1
  BY <1>2, SlotRange, Zenon
<1>4. dump' = dump
  BY Zenon DEF append
<1>5. LogTypeOK'
  BY <1>1, <1>2, <1>3, <1>4 DEF LogTypeOK
<1>6. \A i \in Nat : i < n => said'[i + 1] = said[i + 1]
  BY <1>1, <1>2 DEF LogTypeOK
<1>7. said'[n + 1] = new
  BY <1>1, <1>2 DEF LogTypeOK
<1>8. RingOK'
  <2> SUFFICES ASSUME NEW s \in 0 .. n
               PROVE  LET record == records'[s % RECORD_COUNT]
                      IN /\ record.sequence \in s .. n
                         /\ record = said'[record.sequence + 1]
                         /\ Gone(s, n + 1) <=> record.sequence # s
    BY <1>2 DEF RingOK, Gone
  <2>0. s \in Nat /\ s % RECORD_COUNT \in 0 .. RECORD_COUNT - 1
    BY <1>2, SlotRange
  <2>1. CASE s % RECORD_COUNT = n % RECORD_COUNT
    <3>1. records'[s % RECORD_COUNT] = new
      BY <1>1, <1>3, <2>1, Zenon DEF LogTypeOK
    <3>2. n < s + RECORD_COUNT => s = n
      BY <1>2, <2>0, <2>1, SameSlot
    <3>3. Gone(s, n + 1) <=> n # s
      BY <1>2, <2>0, <3>2, LogAssumption DEF Gone
    <3> QED BY <1>2, <1>7, <2>0, <3>1, <3>3
  <2>2. CASE s % RECORD_COUNT # n % RECORD_COUNT
    <3>1. records'[s % RECORD_COUNT] = records[s % RECORD_COUNT]
      BY <1>1, <1>3, <2>0, <2>2, Zenon DEF LogTypeOK
    <3>2. s \in 0 .. n - 1
      BY <1>2, <2>0, <2>2
    <3> DEFINE old == records[s % RECORD_COUNT]
    <3>3. /\ old.sequence \in s .. n - 1
          /\ old = said[old.sequence + 1]
          /\ Gone(s, n) <=> old.sequence # s
      BY <3>2, Zenon DEF RingOK
    <3>4. s + RECORD_COUNT # n
      BY <2>0, <2>2, NextRound, Zenon
    <3>5. Gone(s, n + 1) <=> Gone(s, n)
      BY <1>2, <2>0, <3>4, LogAssumption DEF Gone
    <3>6. old.sequence \in Nat /\ old.sequence < n /\ old.sequence \in s .. n
      BY <1>2, <2>0, <3>3
    <3>7. old = said'[old.sequence + 1]
      BY <1>6, <3>3, <3>6, Zenon
    <3> HIDE DEF old
    <3> QED BY <3>1, <3>3, <3>5, <3>6, <3>7, Zenon DEF old
  <2> QED BY <2>1, <2>2, Zenon
<1>9. \A s \in Nat : Gone(s, n) => Gone(s, n')
  BY <1>2, LogAssumption DEF Gone
<1>10. DumpOK'
  <2> SUFFICES ASSUME dump # Idle PROVE DumpOK'
    BY <1>4, Zenon DEF DumpOK
  <2>1. dump \in DumpState /\ dump.record \in Record
    BY Zenon DEF LogTypeOK, DumpState
  <2>2. /\ dump.begin \in Nat /\ dump.sequence \in Nat /\ dump.end \in Nat
        /\ dump.record.sequence \in Nat
    BY <2>1, Zenon DEF DumpState, Record
  <2> QED BY <1>2, <1>4, <1>6, <1>9, <2>2 DEF DumpOK
<1>11. DumpExact'
  <2> SUFFICES ASSUME dump # Idle PROVE DumpExact'
    BY <1>4, IdlePc, Zenon DEF DumpExact
  <2>1. dump.pc # "idle"
    BY IdlePc, Zenon
  <2>2. /\ dump.begin \in Nat /\ dump.sequence \in Nat /\ dump.end \in Nat
        /\ dump.printed \in Seq(Record) /\ dump.sequence <= n
    BY <1>2 DEF LogTypeOK, DumpState, DumpOK
  <2>3. Printed' = Printed /\ Missed' = Missed
    BY <1>4, Zenon DEF Printed, Missed
  <2>4. \A i \in DOMAIN dump.printed :
          dump.printed[i].sequence \in Nat /\ dump.printed[i].sequence < n
    <3> TAKE i \in DOMAIN dump.printed
    <3>1. dump.printed[i].sequence \in dump.begin .. dump.sequence - 1
      BY <2>1, Zenon DEF DumpExact, Printed
    <3> QED BY <1>2, <2>2, <3>1
  <2>5. Missed \subseteq Nat
    BY <2>2 DEF Missed
  <2>6. \A i \in DOMAIN dump.printed :
          dump.printed[i] = said'[dump.printed[i].sequence + 1]
    BY <1>6, <2>1, <2>4, Zenon DEF DumpExact
  <2> QED BY <1>4, <1>9, <2>1, <2>3, <2>5, <2>6, Zenon DEF DumpExact
<1> QED BY <1>5, <1>8, <1>10, <1>11, Zenon

\* A dump begins with the oldest record of the ring (the head of dump()).
LEMMA BeginIInv ==
  ASSUME LogIInv, dump_begin
  PROVE  LogIInv'
<1> USE DEF LogIInv
<1> DEFINE begin == IF next_sequence > RECORD_COUNT THEN next_sequence - RECORD_COUNT ELSE 0
<1>1. dump' = [pc |-> "read", begin |-> begin, end |-> next_sequence, sequence |-> begin,
               record |-> Blank, overwritten |-> 0, printed |-> <<>>]
  BY Zenon DEF dump_begin
<1>2. next_sequence \in Nat /\ begin \in Nat /\ begin <= next_sequence
  BY LogAssumption DEF LogTypeOK
<1>3. UNCHANGED <<records, next_sequence, said>>
  BY Zenon DEF dump_begin
<1>4. \A s \in 0 .. begin - 1 : Gone(s, next_sequence)
  BY <1>2, LogAssumption DEF Gone
<1> HIDE DEF begin
<1>5. LogTypeOK'
  <2>1. Blank \in Record
    BY Zenon DEF Blank, Record
  <2> QED BY <1>1, <1>2, <1>3, <2>1 DEF LogTypeOK, DumpState
<1>6. RingOK'
  BY <1>3, Zenon DEF RingOK, Gone
<1>7. DumpOK'
  BY <1>1, <1>2, <1>3 DEF DumpOK
<1>8. DumpExact'
  <2>1. Printed' = {} /\ DOMAIN dump'.printed = {}
    BY <1>1 DEF Printed
  <2>2. Missed' = {}
    BY <1>1, <1>2 DEF Missed
  <2> QED BY <1>1, <1>4, <2>1, <2>2, FS_EmptySet, Zenon DEF DumpExact, Gone
<1> QED BY <1>5, <1>6, <1>7, <1>8, Zenon

\* The copy is the record asked for, or a later one of the same slot.
LEMMA CopyIInv ==
  ASSUME LogIInv, dump_copy
  PROVE  LogIInv'
<1> USE DEF LogIInv
<1>1. dump # Idle /\ dump \in DumpState /\ dump.pc # "idle"
  BY IdlePc, Zenon DEF dump_copy, LogTypeOK, Idle
<1>2. UNCHANGED <<records, next_sequence, said>>
  BY Zenon DEF dump_copy
<1>3. /\ dump.sequence \in 0 .. next_sequence - 1 /\ dump.sequence \in Nat
      /\ dump.sequence % RECORD_COUNT \in 0 .. RECORD_COUNT - 1
  <2>1. dump.sequence \in Nat /\ dump.end \in Nat /\ next_sequence \in Nat
    BY <1>1, Zenon DEF DumpState, LogTypeOK
  <2> QED BY <1>1, <2>1, SlotRange DEF DumpOK, dump_copy
<1> DEFINE record == records[dump.sequence % RECORD_COUNT]
<1>4. /\ record \in Record
      /\ record.sequence \in dump.sequence .. next_sequence - 1
      /\ record = said[record.sequence + 1]
      /\ Gone(dump.sequence, next_sequence) <=> record.sequence # dump.sequence
  BY <1>3, Zenon DEF RingOK, LogTypeOK
<1>5. dump' = [dump EXCEPT !.record = record, !.pc = "print"]
  BY Zenon DEF dump_copy
<1> HIDE DEF record
<1>6. LogTypeOK'
  BY <1>1, <1>2, <1>4, <1>5, Zenon DEF LogTypeOK, DumpState
<1>7. RingOK'
  BY <1>2, Zenon DEF RingOK, Gone
<1>8. /\ dump'.pc = "print" /\ dump'.record = record
      /\ dump'.begin = dump.begin /\ dump'.end = dump.end
      /\ dump'.sequence = dump.sequence /\ dump'.printed = dump.printed
      /\ dump'.overwritten = dump.overwritten
  BY <1>1, <1>5, Zenon DEF DumpState
<1>9. DumpOK'
  <2>1. dump.sequence < dump.end
    BY Zenon DEF dump_copy
  <2>2. record.sequence < next_sequence
    BY <1>3, <1>4 DEF LogTypeOK
  <2> QED BY <1>1, <1>2, <1>4, <1>8, <2>1, <2>2, Zenon DEF DumpOK, Gone
<1>10. DumpExact'
  <2>1. Printed' = Printed /\ Missed' = Missed
    BY <1>8, Zenon DEF Printed, Missed
  <2> QED BY <1>1, <1>2, <1>8, <2>1, Zenon DEF DumpExact, Gone
<1> QED BY <1>6, <1>7, <1>9, <1>10, Zenon

\* A record is printed whole, or counted once it has left the ring.
LEMMA PrintIInv ==
  ASSUME LogIInv, dump_print
  PROVE  LogIInv'
<1> USE DEF LogIInv
<1>1. dump # Idle /\ dump \in DumpState /\ dump.pc = "print"
  BY DEF dump_print, LogTypeOK, Idle
<1>2. UNCHANGED <<records, next_sequence, said>>
  BY Zenon DEF dump_print
<1>3. /\ dump.begin \in Nat /\ dump.sequence \in Nat /\ dump.end \in Nat
      /\ dump.record \in Record /\ dump.overwritten \in Nat
      /\ dump.printed \in Seq(Record) /\ next_sequence \in Nat
  BY <1>1, Zenon DEF DumpState, LogTypeOK
<1>4. /\ dump'.pc = "read" /\ dump'.begin = dump.begin /\ dump'.end = dump.end
      /\ dump'.sequence = dump.sequence + 1 /\ dump' \in DumpState
  <2>1. CASE dump.record.sequence # dump.sequence
    <3>1. dump' = [dump EXCEPT !.pc = "read", !.sequence = dump.sequence + 1,
                               !.overwritten = dump.overwritten + 1]
      BY <1>1, <2>1, Zenon DEF dump_print, DumpState
    <3>2. dump.sequence + 1 \in Nat /\ dump.overwritten + 1 \in Nat
      BY <1>3
    <3> QED BY <1>1, <3>1, <3>2, Zenon DEF DumpState
  <2>2. CASE dump.record.sequence = dump.sequence
    <3> DEFINE longer == Append(dump.printed, dump.record)
    <3>1. dump' = [dump EXCEPT !.pc = "read", !.sequence = dump.sequence + 1,
                               !.printed = longer]
      BY <1>1, <2>2, Zenon DEF dump_print, DumpState
    <3>2. longer \in Seq(Record) /\ dump.sequence + 1 \in Nat
      BY <1>3
    <3> HIDE DEF longer
    <3> QED BY <1>1, <3>1, <3>2, Zenon DEF DumpState
  <2> QED BY <2>1, <2>2, Zenon
<1>5. LogTypeOK'
  BY <1>2, <1>4, Zenon DEF LogTypeOK
<1>6. RingOK'
  BY <1>2, Zenon DEF RingOK, Gone
<1>7. DumpOK'
  BY <1>1, <1>2, <1>3, <1>4 DEF DumpOK
<1>8. IsFiniteSet(Missed)
  <2>1. IsFiniteSet(dump.begin .. dump.sequence - 1)
    <3>1. dump.begin \in Int /\ dump.sequence - 1 \in Int
      BY <1>3
    <3> QED BY <3>1, FS_Interval, Zenon
  <2>2. Missed \in SUBSET (dump.begin .. dump.sequence - 1)
    BY Zenon DEF Missed
  <2> QED BY <2>1, <2>2, FS_Subset, Zenon
<1>9. Printed \subseteq dump.begin .. dump.sequence - 1 /\ dump.sequence \notin Missed
  BY <1>1, <1>3 DEF DumpExact, Missed
<1>10. dump.begin .. dump'.sequence - 1 = (dump.begin .. dump.sequence - 1) \cup {dump.sequence}
  BY <1>1, <1>3, <1>4 DEF DumpOK
<1>11. DumpExact'
  <2>1. CASE dump.record.sequence # dump.sequence
    <3>1. dump'.printed = dump.printed /\ dump'.overwritten = dump.overwritten + 1
      BY <1>1, <2>1, Zenon DEF dump_print, DumpState
    <3>2. Printed' = Printed
      BY <3>1, Zenon DEF Printed
    <3>3. dump.sequence \notin Printed
      BY <1>3, <1>9
    <3>4. Missed' = Missed \cup {dump.sequence}
      BY <1>4, <1>10, <3>2, <3>3, Zenon DEF Missed
    <3>5. Cardinality(Missed') = dump'.overwritten
      <4>1. Cardinality(Missed \cup {dump.sequence}) = Cardinality(Missed) + 1
        BY <1>8, <1>9, FS_AddElement, Zenon
      <4>2. Cardinality(Missed) = dump.overwritten
        BY <1>1, Zenon DEF DumpExact
      <4> QED BY <3>1, <3>4, <4>1, <4>2, Zenon
    <3>6. \A s \in Missed' : Gone(s, next_sequence)
      BY <1>1, <2>1, <3>4, Zenon DEF DumpExact, DumpOK
    <3>7. Printed' \subseteq dump'.begin .. dump'.sequence - 1
      BY <1>4, <1>9, <1>10, <3>2, Zenon
    <3> QED BY <1>1, <1>2, <1>4, <3>1, <3>5, <3>6, <3>7, Zenon DEF DumpExact, Gone
  <2>2. CASE dump.record.sequence = dump.sequence
    <3>1. /\ dump'.printed = Append(dump.printed, dump.record)
          /\ dump'.overwritten = dump.overwritten
      BY <1>1, <2>2, Zenon DEF dump_print, DumpState
    <3> DEFINE l == Len(dump.printed)
    <3>2. /\ DOMAIN dump.printed = 1 .. l /\ DOMAIN dump'.printed = 1 .. l + 1
          /\ l \in Nat /\ dump'.printed[l + 1] = dump.record
          /\ \A i \in 1 .. l : dump'.printed[i] = dump.printed[i]
      BY <1>3, <3>1
    <3> HIDE DEF l
    <3>3. Printed' = Printed \cup {dump.sequence}
      <4>1. DOMAIN dump'.printed = (1 .. l) \cup {l + 1}
        BY <3>2
      <4> QED BY <2>2, <3>2, <4>1 DEF Printed
    <3>4. Missed' = Missed
      BY <1>3, <1>4, <1>10, <3>3 DEF Missed
    <3>5. Printed' \subseteq dump'.begin .. dump'.sequence - 1
      BY <1>4, <1>9, <1>10, <3>3, Zenon
    <3>6. \A i \in 1 .. l : dump.sequence > dump.printed[i].sequence
      <4> TAKE i \in 1 .. l
      <4>1. dump.printed[i].sequence \in dump.begin .. dump.sequence - 1
        BY <1>9, <3>2, Zenon DEF Printed
      <4> QED BY <1>3, <4>1
    <3>7. ASSUME NEW i \in DOMAIN dump'.printed
          PROVE  /\ dump'.printed[i] = said[dump'.printed[i].sequence + 1]
                 /\ i > 1 => dump'.printed[i].sequence > dump'.printed[i - 1].sequence
      <4>1. CASE i \in 1 .. l
        <5>1. i > 1 => i - 1 \in 1 .. l
          BY <3>2, <4>1
        <5> QED BY <1>1, <3>2, <4>1, <5>1, Zenon DEF DumpExact
      <4>2. CASE i = l + 1
        <5>1. i > 1 => i - 1 \in 1 .. l /\ i - 1 = l
          BY <3>2, <4>2
        <5>2. i > 1 => dump.sequence > dump'.printed[i - 1].sequence
          BY <3>2, <3>6, <5>1, Zenon
        <5>3. dump'.printed[i] = dump.record
          BY <3>2, <4>2, Zenon
        <5>4. dump.record = said[dump.record.sequence + 1]
          BY <1>1, Zenon DEF DumpOK
        <5> QED BY <2>2, <5>2, <5>3, <5>4, Zenon
      <4> QED BY <3>2, <4>1, <4>2
    <3> QED BY <1>1, <1>2, <1>4, <3>1, <3>4, <3>5, <3>7, Zenon DEF DumpExact, Gone
  <2> QED BY <2>1, <2>2, Zenon
<1> QED BY <1>5, <1>6, <1>7, <1>11, Zenon

\* A dump ends when it has passed every record it set out to print.
LEMMA EndIInv ==
  ASSUME LogIInv, dump_end
  PROVE  LogIInv'
<1> USE DEF LogIInv
<1>1. dump # Idle /\ dump \in DumpState /\ dump.pc # "idle"
  BY DEF dump_end, LogTypeOK, Idle
<1>2. UNCHANGED <<records, next_sequence, said>>
  BY Zenon DEF dump_end
<1>3. /\ dump' \in DumpState /\ dump'.pc = "done"
      /\ dump'.begin = dump.begin /\ dump'.end = dump.end
      /\ dump'.sequence = dump.sequence /\ dump'.printed = dump.printed
      /\ dump'.overwritten = dump.overwritten
  BY <1>1, Zenon DEF dump_end, DumpState
<1>4. LogTypeOK'
  BY <1>2, <1>3, Zenon DEF LogTypeOK
<1>5. RingOK'
  BY <1>2, Zenon DEF RingOK, Gone
<1>6. DumpOK'
  BY <1>1, <1>2, <1>3, Zenon DEF DumpOK
<1>7. DumpExact'
  <2>1. Printed' = Printed /\ Missed' = Missed
    BY <1>3, Zenon DEF Printed, Missed
  <2>2. dump.sequence = dump.end
    BY Zenon DEF dump_end
  <2> QED BY <1>1, <1>2, <1>3, <2>1, <2>2, Zenon DEF DumpExact, Gone
<1> QED BY <1>4, <1>5, <1>6, <1>7, Zenon

\* A step that touches neither the ring nor the dump.
LEMMA LogUntouchedIInv ==
  ASSUME LogIInv, UNCHANGED <<records, next_sequence, said, dump>>
  PROVE  LogIInv'
BY DEF LogIInv, LogTypeOK, RingOK, DumpOK, DumpExact, Printed, Missed, Gone

\* dmesg prints the history, and accounts for every record it does not print,
\* for a ring of any size and any number of records appended while it prints
\* (KernelLog::append, dump).
THEOREM DumpCorrect == LogSpec => []DumpExact
<1>1. LogIInv /\ [LogNext]_logVars => LogIInv'
  <2> SUFFICES ASSUME LogIInv, [LogNext]_logVars PROVE LogIInv'
    BY Zenon
  <2>1. CASE append
    BY <2>1, AppendIInv, Zenon
  <2>2. CASE dump_begin
    BY <2>2, BeginIInv, Zenon
  <2>3. CASE dump_copy
    BY <2>3, CopyIInv, Zenon
  <2>4. CASE dump_print
    BY <2>4, PrintIInv, Zenon
  <2>5. CASE dump_end
    BY <2>5, EndIInv, Zenon
  <2>6. CASE set_console_level \/ UNCHANGED logVars
    BY <2>6, LogUntouchedIInv, Zenon DEF set_console_level, logVars
  <2> QED BY <2>1, <2>2, <2>3, <2>4, <2>5, <2>6, Zenon DEF LogNext
<1>2. LogIInv => DumpExact
  BY Zenon DEF LogIInv
<1> QED BY <1>1, <1>2, LogInitIInv, PTL DEF LogSpec
=============================================================================
