--------------------------- MODULE ProcessProofs ---------------------------
(***************************************************************************)
(* The invariants of Process for every number of pids and every set of     *)
(* exit codes, and that Process implements ProcessTree.  Then Exec: what   *)
(* a started program's memory is, for every file and address-space layout. *)
(***************************************************************************)
EXTENDS Process, Exec, WellFoundedInduction, TLAPS

\* A set of pids that is not empty has a largest pid.
LEMMA LargestPid ==
    ASSUME NEW S \in SUBSET Tasks, S # {}
    PROVE  \E m \in S : \A n \in S : n <= m
<1> DEFINE T == {MaxPid - s : s \in S}
<1>1. T \subseteq Nat /\ T # {}
  <2>1. \A s \in S : MaxPid - s \in Nat
    BY MaxPidAssumption DEF Tasks
  <2>2. T \subseteq Nat
    BY <2>1, Zenon
  <2>3. PICK s : s \in S
    BY Zenon
  <2>4. MaxPid - s \in T
    BY <2>3, Zenon
  <2> QED BY <2>2, <2>4, Zenon
<1>2. PICK x \in T : \A y \in T : ~ (<<y, x>> \in OpToRel(<, Nat))
  BY <1>1, WFMin, NatLessThanWellFounded, Zenon
<1>3. \A y \in T : ~(y < x)
  BY <1>1, <1>2, Zenon DEF OpToRel
<1>4. PICK m \in S : x = MaxPid - m
  BY Zenon
<1>5. \A n \in S : n <= m
  <2> TAKE n \in S
  <2>1. MaxPid - n \in T
    BY Zenon
  <2>2. ~(MaxPid - n < x)
    BY <1>3, <2>1, Zenon
  <2>3. m \in Int /\ n \in Int
    BY MaxPidAssumption DEF Tasks
  <2> QED
    BY <1>4, <2>2, <2>3, MaxPidAssumption
<1> QED
  BY <1>5, Zenon

\* idle and init are tasks.
LEMMA BootTasks == Idle \in Tasks /\ InitProc \in Tasks
BY MaxPidAssumption DEF Idle, InitProc, Tasks

\* A quantum is at least one tick (calc_time_slice).
LEMMA QuantumPositive ==
    ASSUME NEW prio \in 0 .. 31
    PROVE  CalcTimeSlice(prio) \in Nat /\ CalcTimeSlice(prio) > 0
BY DEF CalcTimeSlice, BASE_TIMESLICE, LOWEST_PRIORITY, DEFAULT

AllStates == TaskState \cup {"Freed"}
OffCpu == {"Sleeping", "Zombie", "Freed", "Uninit"}
OnCpu == {"Runnable", "Running"}

\* What the callers of schedule() leave: idle can run, and the current task
\* is the only one that may be Running.
Schedulable(st) ==
    /\ st \in [Tasks -> AllStates]
    /\ st[Idle] \in OnCpu
    /\ \A t \in Tasks : st[t] = "Running" => t = current
    /\ st[current] = "Runnable" => current = Idle

\* What schedule() makes of it: the CPU changes hands between tasks that can
\* run, nobody else is touched, and the new owner has a quantum.
HandedOver(st) ==
    /\ current' \in Tasks
    /\ current' = Idle \/ st[current'] \in OnCpu
    /\ state' \in [Tasks -> AllStates]
    /\ \A t \in Tasks : st[t] \in OffCpu => state'[t] = st[t]
    /\ \A t \in Tasks : st[t] \in OnCpu => state'[t] \in OnCpu
    /\ \A t \in Tasks : state'[t] = "Running" => t = current'
    /\ state'[current'] = "Running" \/ (current' = Idle /\ state'[Idle] = "Runnable")
    /\ time_slice' \in [Tasks -> Nat]
    /\ current' # Idle => time_slice'[current'] > 0
    /\ cursor' \in Tasks \cup {NoTask}

\* idle, being published, bounds the search for the newest task.
LEMMA ScanStartType ==
    ASSUME cursor \in Tasks \cup {NoTask}, NEW st, st[Idle] \in OnCpu
    PROVE  /\ ScanStart(st) \in Tasks
           /\ cursor = NoTask => st[ScanStart(st)] \notin {"Uninit", "Freed"}
           /\ cursor # NoTask => ScanStart(st) = cursor
<1> DEFINE S == {t \in Tasks : st[t] \notin {"Uninit", "Freed"}}
<1>1. Idle \in S
  BY MaxPidAssumption DEF Idle, Tasks, OnCpu
<1>2. PICK m \in S : \A n \in S : n <= m
  BY <1>1, LargestPid, Zenon
<1>3. \A u \in Tasks : u > m => st[u] \in {"Uninit", "Freed"}
  <2> TAKE u \in Tasks
  <2> HAVE u > m
  <2>1. ~(u <= m)
    BY MaxPidAssumption DEF Tasks
  <2> QED
    BY <1>2, <2>1, Zenon
<1> HIDE DEF S
<1>4. m \in Tasks /\ st[m] \notin {"Uninit", "Freed"}
  BY Zenon DEF S
<1> QED
  BY <1>3, <1>4, Zenon DEF ScanStart

\* idle, being published and first, also ends the search for the next node.
LEMMA NextNodeType ==
    ASSUME NEW st, st[Idle] \in OnCpu, NEW t \in Tasks, t # Idle
    PROVE  NextNode(st, t) \in Tasks /\ st[NextNode(st, t)] \notin {"Uninit", "Freed"}
<1> DEFINE S == {u \in Tasks : u < t /\ st[u] \notin {"Uninit", "Freed"}}
<1>1. Idle \in S
  BY MaxPidAssumption DEF Idle, Tasks, OnCpu
<1>2. PICK m \in S : \A n \in S : n <= m
  BY <1>1, LargestPid, Zenon
<1>3. \A v \in Tasks : m < v /\ v < t => st[v] \in {"Uninit", "Freed"}
  <2> TAKE v \in Tasks
  <2> HAVE m < v /\ v < t
  <2>1. ~(v <= m)
    BY MaxPidAssumption DEF Tasks
  <2> QED
    BY <1>2, <2>1, Zenon
<1> HIDE DEF S
<1>4. m \in Tasks /\ m < t /\ st[m] \notin {"Uninit", "Freed"}
  BY Zenon DEF S
<1> QED
  BY <1>3, <1>4, Zenon DEF NextNode

\* Scheduler::schedule() hands the CPU over properly.
LEMMA ScheduleHandsOver ==
    ASSUME TypeOK, NEW st, Schedulable(st),
           NEW sl \in [Tasks -> Nat], Schedule(st, sl)
    PROVE  HandedOver(st)
<1>1. PICK chosen \in PickNext(st) :
        /\ cursor' = CursorAfter(st, chosen)
        /\ time_slice' = [sl EXCEPT ![chosen] =
                            IF @ <= 0 THEN CalcTimeSlice(priority[chosen]) ELSE @]
        /\ current' = chosen
        /\ state' = IF chosen = current THEN st
                    ELSE [st EXCEPT ![current] = IF @ = "Running" THEN "Runnable" ELSE @,
                                    ![chosen] = "Running"]
  BY Zenon DEF Schedule
<1>2. chosen = Idle \/ (chosen \in Tasks /\ Eligible(st, chosen))
  BY Zenon DEF PickNext
<1>3. chosen \in Tasks /\ Idle \in Tasks /\ current \in Tasks
  BY <1>2, BootTasks, Zenon DEF TypeOK
<1>4. st[chosen] = "Runnable" \/ (chosen = current /\ st[chosen] = "Running") \/ chosen = Idle
  BY <1>2, Zenon DEF Eligible
<1>5. cursor' \in Tasks
  <2>1. CASE chosen = Idle
    BY <1>1, <2>1, ScanStartType, Zenon DEF CursorAfter, Schedulable, TypeOK
  <2>2. CASE chosen # Idle
    BY <1>1, <1>3, <2>2, NextNodeType, Zenon DEF CursorAfter, Schedulable
  <2> QED
    BY <2>1, <2>2, Zenon
<1>6. time_slice' \in [Tasks -> Nat] /\ time_slice'[chosen] > 0
  <2>1. priority[chosen] \in 0 .. 31
    BY <1>3, Zenon DEF TypeOK, HIGHEST_PRIORITY, IDLE_PRIO
  <2>2. CalcTimeSlice(priority[chosen]) \in Nat /\ CalcTimeSlice(priority[chosen]) > 0
    BY <2>1, QuantumPositive, Zenon
  <2> QED
    BY <1>1, <1>3, <2>2
<1>7. state' \in [Tasks -> AllStates]
  BY <1>1, <1>3, Zenon DEF Schedulable, AllStates, TaskState
<1>8. /\ \A t \in Tasks : st[t] \in OffCpu => state'[t] = st[t]
      /\ \A t \in Tasks : st[t] \in OnCpu => state'[t] \in OnCpu
      /\ \A t \in Tasks : state'[t] = "Running" => t = chosen
      /\ state'[chosen] = "Running" \/ (chosen = Idle /\ state'[Idle] = "Runnable")
  BY <1>1, <1>3, <1>4, Zenon DEF Schedulable, OffCpu, OnCpu
<1> QED
  BY <1>1, <1>3, <1>4, <1>5, <1>6, <1>7, <1>8, Zenon DEF HandedOver, OnCpu

LiveStates == {"Sleeping", "Runnable", "Running"}

\* A handover changes no task's state but between Runnable and Running.
LEMMA HandOverKeeps ==
    ASSUME NEW st, Schedulable(st), HandedOver(st), NEW t \in Tasks
    PROVE  /\ \A x \in OffCpu : state'[t] = x <=> st[t] = x
           /\ Live(t)' <=> st[t] \in LiveStates
           /\ Published(t)' <=> st[t] \in LiveStates \cup {"Zombie"}
BY Zenon DEF Schedulable, HandedOver, Live, Published, OffCpu, OnCpu, LiveStates,
       AllStates, TaskState

\* The current states can be scheduled.
LEMMA InvSchedulable ==
    ASSUME IInv
    PROVE  Schedulable(state)
BY Zenon DEF IInv, TypeOK, CpuOK, BootOK, Schedulable, AllStates, OnCpu

\* A step that does nothing but schedule keeps the invariant.
LEMMA PureScheduleInv ==
    ASSUME IInv, NEW sl \in [Tasks -> Nat], Schedule(state, sl), next_pid > InitProc,
           UNCHANGED <<parent, child_list, exit_code, wait_state, next_pid, user,
                       collected, priority, pcVars>>
    PROVE  IInv'
<1> USE DEF pcVars
<1>1. Schedulable(state) /\ HandedOver(state)
  BY InvSchedulable, ScheduleHandsOver, Zenon DEF IInv
<1>2. \A t \in Tasks : /\ \A x \in OffCpu : state'[t] = x <=> state[t] = x
                       /\ Live(t)' <=> Live(t)
                       /\ Published(t)' <=> Published(t)
  BY <1>1, HandOverKeeps, Zenon DEF Live, Published, LiveStates
<1>3. TypeOK'
  BY <1>1, Zenon DEF IInv, TypeOK, HandedOver, AllStates
<1>4. NoLostWakeup'
  BY <1>2, Zenon DEF IInv, TypeOK, NoLostWakeup, OffCpu, Matches
<1>5. TreeOK'
  BY <1>2, Zenon DEF IInv, TypeOK, TreeOK
<1>6. CpuOK'
  BY <1>1, Zenon DEF HandedOver, CpuOK
<1>7. SleepOK'
  BY <1>2, Zenon DEF IInv, TypeOK, SleepOK, OffCpu
<1>8. BootOK'
  <2>1. next_pid' # InitProc
    BY DEF IInv, TypeOK, InitProc
  <2> QED
    BY <1>1, <1>2, <2>1, BootTasks, Zenon DEF IInv, BootOK, HandedOver, OffCpu, OnCpu
<1> QED
  BY <1>3, <1>4, <1>5, <1>6, <1>7, <1>8, Zenon DEF IInv

LEMMA TickInv ==
    ASSUME IInv, Tick
    PROVE  IInv'
<1> DEFINE left == IF time_slice[current] > 0 THEN time_slice[current] - 1
                                              ELSE time_slice[current]
           sl == [time_slice EXCEPT ![current] = left]
<1>1. current \in Tasks /\ time_slice[current] \in Nat /\ next_pid > InitProc
  BY DEF IInv, TypeOK, Tick, BootOK, InitProc
<1>2. sl \in [Tasks -> Nat]
  BY <1>1 DEF IInv, TypeOK
<1>3. CASE left <= 0
  BY <1>1, <1>2, <1>3, PureScheduleInv, Zenon DEF Tick
<1>4. CASE ~(left <= 0)
  <2>1. /\ time_slice' = sl
        /\ UNCHANGED <<state, parent, child_list, exit_code, wait_state, next_pid, user,
                       collected, priority, current, cursor, entries, pc, wait_pid>>
    BY <1>4, Zenon DEF Tick, pcVars
  <2>2. time_slice'[current] > 0
    BY <1>1, <1>4, <2>1 DEF IInv, TypeOK
  <2>3. TypeOK'
    BY <1>2, <2>1, Zenon DEF IInv, TypeOK
  <2>4. NoLostWakeup' /\ TreeOK' /\ SleepOK' /\ BootOK'
    BY <2>1 DEF IInv, NoLostWakeup, TreeOK, SleepOK, BootOK, Live, Published, Matches
  <2>5. CpuOK'
    BY <2>1, <2>2, Zenon DEF IInv, CpuOK
  <2> QED
    BY <2>3, <2>4, <2>5, Zenon DEF IInv
<1> QED
  BY <1>3, <1>4, Zenon

LEMMA IdleLoopInv ==
    ASSUME IInv, IdleLoop
    PROVE  IInv'
BY PureScheduleInv, Zenon DEF IdleLoop, IInv, TypeOK

\* wakeup_one() on a wait queue.
LEMMA WakeupOneInv ==
    ASSUME IInv, NEW t \in Tasks, WakeupOne(t)
    PROVE  IInv'
<1> USE DEF IInv, schedVars
<1>1. state[t] = "Sleeping" /\ pc[t] = "sleep"
  BY Zenon DEF WakeupOne, SleepOK
<1>2. /\ state' = [state EXCEPT ![t] = "Runnable"]
      /\ entries' = entries \ {t}
      /\ UNCHANGED <<parent, child_list, exit_code, wait_state, next_pid, user,
                     collected, schedVars, pc, wait_pid>>
  BY Zenon DEF WakeupOne
<1>3. TypeOK'
  BY <1>2, Zenon DEF TypeOK, TaskState
<1>4. \A c \in Tasks : /\ Live(c)' <=> Live(c)
                       /\ Published(c)' <=> Published(c)
                       /\ state'[c] \in {"Uninit", "Freed"} => state'[c] = state[c]
                       /\ state[c] \in {"Uninit", "Freed"} => state'[c] = state[c]
  BY <1>1, <1>2, Zenon DEF TypeOK, Live, Published
<1>5. NoLostWakeup'
  BY <1>1, <1>2, <1>4, Zenon DEF TypeOK, NoLostWakeup, Matches
<1>6. TreeOK'
  BY <1>2, <1>4, Zenon DEF TypeOK, TreeOK
<1>7. CpuOK'
  BY <1>1, <1>2, Zenon DEF TypeOK, CpuOK
<1>8. SleepOK'
  BY <1>1, <1>2, <1>4, Zenon DEF TypeOK, SleepOK
<1>9. BootOK'
  BY <1>1, <1>2, <1>4, BootTasks, Zenon DEF TypeOK, BootOK
<1> QED
  BY <1>3, <1>5, <1>6, <1>7, <1>8, <1>9, Zenon

\* fork() publishes a child whose pid was unused.
LEMMA ForkInv ==
    ASSUME IInv, NEW p \in Tasks, NEW isUser \in BOOLEAN, Fork(p, isUser)
    PROVE  IInv'
<1> USE DEF IInv
<1>0. PICK c \in Tasks : c = next_pid
  BY DEF Fork, TypeOK, Tasks
<1>1. c \in Tasks /\ c # Idle /\ c \in Int
  BY <1>0, MaxPidAssumption DEF TypeOK, Tasks, Idle
<1>2. /\ state[c] = "Uninit" /\ c # current /\ c # p
      /\ pc[c] = "run" /\ wait_state[c] = 0 /\ c \notin entries
      /\ child_list[c] = {}
      /\ state[p] \in OnCpu /\ p = current
  <2>1. state[c] = "Uninit"
    BY <1>0, <1>1 DEF BootOK
  <2>2. state[current] \in OnCpu
    BY Zenon DEF CpuOK, OnCpu
  <2>3. pc[c] = "run" /\ wait_state[c] = 0 /\ c \notin entries
    BY <1>1, <2>1, Zenon DEF SleepOK, Live, TypeOK
  <2>4. \A d \in Tasks : d \notin child_list[c]
    <3> SUFFICES ASSUME NEW d \in Tasks, d \in child_list[c] PROVE FALSE
      BY Zenon
    <3>1. Published(d) /\ parent[d] = c
      BY <1>1, Zenon DEF TreeOK
    <3>2. d # Idle
      BY <1>1, <3>1 DEF TreeOK, Tasks, Idle
    <3>3. Live(c)
      BY <3>1, <3>2, Zenon DEF TreeOK
    <3> QED
      BY <2>1, <3>3, Zenon DEF Live
  <2> QED
    BY <1>1, <2>1, <2>2, <2>3, <2>4, Zenon DEF Fork, OnCpu, TypeOK
<1>3. /\ next_pid' = c + 1
      /\ parent' = [parent EXCEPT ![c] = p]
      /\ child_list' = [child_list EXCEPT ![p] = @ \cup {c}]
      /\ state' = [state EXCEPT ![c] = "Runnable"]
      /\ priority' = [priority EXCEPT ![c] = priority[p]]
      /\ time_slice' = [time_slice EXCEPT ![c] = CalcTimeSlice(priority[p])]
      /\ user' = [user EXCEPT ![c] = isUser]
      /\ UNCHANGED <<exit_code, wait_state, collected, current, cursor, entries,
                     pc, wait_pid>>
  BY <1>0, Zenon DEF Fork, pcVars
<1>4. TypeOK'
  <2>1. priority[p] \in 0 .. 31
    BY Zenon DEF TypeOK, HIGHEST_PRIORITY, IDLE_PRIO
  <2>2. CalcTimeSlice(priority[p]) \in Nat
    BY <2>1, QuantumPositive, Zenon
  <2>3. next_pid' \in 1 .. MaxPid + 1
    BY <1>0, <1>1, <1>3, MaxPidAssumption DEF TypeOK, Tasks
  <2> QED
    BY <1>1, <1>3, <2>2, <2>3, Zenon DEF TypeOK, TaskState
<1>5. \A t \in Tasks \ {c} : state'[t] = state[t] /\ (Live(t)' <=> Live(t))
                           /\ (Published(t)' <=> Published(t))
  BY <1>1, <1>3, Zenon DEF TypeOK, Live, Published
<1>6. Live(c)' /\ Published(c)' /\ state'[c] = "Runnable" /\ ~Published(c)
  BY <1>1, <1>2, <1>3, Zenon DEF TypeOK, Live, Published
<1>7. NoLostWakeup'
  <2> SUFFICES ASSUME NEW t \in Tasks, state'[t] = "Sleeping", pc'[t] = "wait"
               PROVE  /\ \E d \in child_list'[t] : Matches(wait_pid'[t], d)
                      /\ \A d \in child_list'[t] : Matches(wait_pid'[t], d) => Live(d)'
    BY Zenon DEF NoLostWakeup, Matches
  <2>1. t # c /\ t # p /\ child_list'[t] = child_list[t] /\ c \notin child_list[t]
    BY <1>1, <1>2, <1>3, <1>5, <1>6 DEF TypeOK, OnCpu, TreeOK
  <2> QED
    BY <1>3, <1>5, <2>1, Zenon DEF NoLostWakeup, TypeOK
<1>8. TreeOK'
  <2>1. \A q, d \in Tasks : d \in child_list'[q] <=> (Published(d)' /\ parent'[d] = q)
    BY <1>1, <1>2, <1>3, <1>5, <1>6 DEF TypeOK, TreeOK
  <2>2. ASSUME NEW d \in Tasks \ {Idle}, Published(d)'
        PROVE  parent'[d] \in Tasks /\ state'[parent'[d]] \in LiveStates
    <3>1. CASE d = c
      BY <1>1, <1>2, <1>3, <1>5, <3>1 DEF TypeOK, OnCpu, LiveStates
    <3>2. CASE d # c
      <4>1. parent'[d] = parent[d] /\ parent[d] \in Tasks /\ Live(parent[d])
        BY <1>1, <1>3, <1>5, <2>2, <3>2 DEF TypeOK, TreeOK
      <4> QED
        BY <1>1, <1>2, <1>5, <4>1, Zenon DEF Live, LiveStates
    <3> QED
      BY <3>1, <3>2, Zenon
  <2>3. \A d \in Tasks : parent'[d] < d
    BY <1>0, <1>1, <1>2, <1>3 DEF TreeOK, BootOK, TypeOK, OnCpu, Tasks
  <2> QED
    BY <2>1, <2>2, <2>3, Zenon DEF TreeOK, Live, LiveStates
<1>9. CpuOK'
  BY <1>1, <1>2, <1>3, Zenon DEF TypeOK, CpuOK
<1>10. SleepOK'
  BY <1>1, <1>2, <1>3, <1>5, <1>6, Zenon DEF TypeOK, SleepOK
<1>11. BootOK'
  <2>1. \A t \in Tasks : t >= next_pid' <=> state'[t] = "Uninit"
    BY <1>0, <1>1, <1>3, <1>5, <1>6 DEF BootOK, Tasks
  <2>2. next_pid' > InitProc => Live(InitProc)'
    BY <1>0, <1>1, <1>3, <1>5, <1>6, BootTasks DEF BootOK, InitProc, TypeOK
  <2>3. next_pid' # InitProc
    BY <1>1, <1>3 DEF InitProc, Tasks, Idle
  <2> QED
    BY <1>1, <1>3, <1>5, <1>6, <2>1, <2>2, <2>3, BootTasks, Zenon DEF BootOK, TypeOK
<1> QED
  BY <1>4, <1>7, <1>8, <1>9, <1>10, <1>11, Zenon

\* exit(): the parent is told, the children go to init, the CPU is given up.
LEMMA ExitInv ==
    ASSUME IInv, NEW t \in Tasks, NEW code \in ExitCodes, Exit(t, code)
    PROVE  IInv'
<1> USE DEF IInv
<1> DEFINE st == AfterExit(t)
           p == parent[t]
<1>1. /\ t = current /\ t # Idle /\ t # InitProc /\ pc[t] = "run"
      /\ state[t] = "Running" /\ wait_state[t] = 0
  BY Zenon DEF Exit, Free, CpuOK, SleepOK, TypeOK
<1>2. p \in Tasks /\ Live(p) /\ p # t /\ Live(InitProc)
  <2>1. p \in Tasks /\ Live(p)
    BY <1>1, Zenon DEF TreeOK, Published, Live
  <2>2. next_pid > InitProc
    BY <1>1 DEF BootOK, TypeOK, InitProc
  <2>3. p # t
    BY <1>1 DEF TreeOK, Tasks
  <2> QED
    BY <2>1, <2>2, <2>3, Zenon DEF BootOK
<1>3. /\ st[t] = "Zombie"
      /\ \A u \in Tasks \ {t} : \/ st[u] = state[u]
                                \/ st[u] = "Runnable" /\ wait_state[u] = 1
      /\ wait_state[p] = 1 => st[p] = "Runnable"
      /\ (\E c \in child_list[t] : state[c] = "Zombie") /\ wait_state[InitProc] = 1
            => st[InitProc] = "Runnable"
      /\ st \in [Tasks -> AllStates]
  BY <1>1, <1>2, BootTasks, Zenon DEF AfterExit, WakeupIf, TypeOK, AllStates, TaskState
<1>4. \A u \in Tasks : wait_state[u] = 1 => Live(u) /\ u # t /\ u # Idle
  BY <1>1, Zenon DEF SleepOK, BootOK
<1>5. Schedulable(st)
  BY <1>1, <1>3, <1>4, BootTasks DEF Schedulable, CpuOK, BootOK, OnCpu
<1> HIDE DEF st
<1>6. HandedOver(st)
  <2>1. Schedule(st, time_slice)
    BY Zenon DEF Exit, st
  <2> QED
    BY <1>5, <2>1, ScheduleHandsOver, Zenon DEF TypeOK
<1>7. /\ exit_code' = [exit_code EXCEPT ![t] = code]
      /\ parent' = [c \in Tasks |-> IF c \in child_list[t] THEN InitProc ELSE parent[c]]
      /\ child_list' = [child_list EXCEPT ![InitProc] = @ \cup child_list[t], ![t] = {}]
      /\ UNCHANGED <<wait_state, next_pid, user, collected, priority, entries, pc, wait_pid>>
  BY Zenon DEF Exit, pcVars, ParentAfterExit, ChildrenAfterExit
<1>8. \A u \in Tasks \ {t} :
        /\ Live(u)' <=> Live(u)
        /\ Published(u)' <=> Published(u)
        /\ state'[u] = "Sleeping" <=> st[u] = "Sleeping"
        /\ st[u] = "Sleeping" => state[u] = "Sleeping"
        /\ \A x \in {"Uninit", "Freed", "Zombie"} : state'[u] = x <=> state[u] = x
  BY <1>3, <1>4, <1>5, <1>6, HandOverKeeps DEF Live, Published, LiveStates, OffCpu
<1>9. state'[t] = "Zombie" /\ Published(t)' /\ Published(t)
  BY <1>1, <1>3, <1>5, <1>6, HandOverKeeps DEF OffCpu, Published, Live
<1>10. TypeOK'
  BY <1>6, <1>7, BootTasks, Zenon DEF TypeOK, HandedOver, AllStates
<1>11. NoLostWakeup'
  <2> SUFFICES ASSUME NEW u \in Tasks, state'[u] = "Sleeping", pc'[u] = "wait"
               PROVE  /\ \E d \in child_list'[u] : Matches(wait_pid'[u], d)
                      /\ \A d \in child_list'[u] : Matches(wait_pid'[u], d) => Live(d)'
    BY Zenon DEF NoLostWakeup, Matches
  <2>1. /\ u # t /\ state[u] = "Sleeping" /\ st[u] = "Sleeping" /\ pc[u] = "wait"
        /\ wait_state[u] = 1 /\ u # p
    BY <1>3, <1>7, <1>8, <1>9, Zenon DEF SleepOK
  <2>2. t \notin child_list[u]
    BY <2>1, Zenon DEF TreeOK
  <2>3. \A d \in child_list[u] : d \in Tasks /\ d # t /\ (Matches(wait_pid[u], d) => Live(d)')
    BY <1>8, <2>1, <2>2, Zenon DEF NoLostWakeup, TypeOK
  <2>4. \E d \in child_list[u] : Matches(wait_pid[u], d)
    BY <2>1, Zenon DEF NoLostWakeup
  <2>5. CASE u # InitProc
    BY <1>7, <2>1, <2>3, <2>4, <2>5, Zenon DEF TypeOK
  <2>6. CASE u = InitProc
    <3>1. \A d \in child_list[t] : d \in Tasks /\ Published(d) /\ state[d] # "Zombie" /\ d # t
      BY <1>2, <1>3, <2>1, <2>6 DEF TreeOK, TypeOK
    <3>2. \A d \in child_list[t] : Live(d)'
      BY <1>8, <3>1, Zenon DEF Published
    <3>3. child_list'[u] = child_list[u] \cup child_list[t] /\ wait_pid'[u] = wait_pid[u]
      BY <1>7, <2>1, <2>6, BootTasks, Zenon DEF TypeOK
    <3> QED
      BY <2>3, <2>4, <3>2, <3>3, Zenon
  <2> QED
    BY <2>5, <2>6, Zenon
<1>12. TreeOK'
  <2>1. \A q, d \in Tasks : d \in child_list'[q] <=> (Published(d)' /\ parent'[d] = q)
    <3> SUFFICES ASSUME NEW q \in Tasks, NEW d \in Tasks
                 PROVE  d \in child_list'[q] <=> (Published(d)' /\ parent'[d] = q)
      BY Zenon
    <3>1. /\ child_list'[q] = IF q = t THEN {} ELSE IF q = InitProc
                                 THEN child_list[q] \cup child_list[t] ELSE child_list[q]
          /\ parent'[d] = IF d \in child_list[t] THEN InitProc ELSE parent[d]
      BY <1>1, <1>7, BootTasks, Zenon DEF TypeOK
    <3>2. Published(d)' <=> Published(d)
      BY <1>8, <1>9, Zenon
    <3> QED
      BY <1>1, <3>1, <3>2 DEF TreeOK
  <2>2. ASSUME NEW d \in Tasks \ {Idle}, Published(d)'
        PROVE  parent'[d] \in Tasks /\ state'[parent'[d]] \in LiveStates
    <3>1. Published(d) /\ parent[d] \in Tasks /\ Live(parent[d])
      BY <1>8, <1>9, <2>2, Zenon DEF TreeOK
    <3>2. parent'[d] \in Tasks /\ parent'[d] # t /\ Live(parent'[d])
      BY <1>1, <1>2, <1>7, <3>1, BootTasks, Zenon DEF TreeOK
    <3> QED
      BY <1>8, <3>2, Zenon DEF Live, LiveStates
  <2>3. \A d \in Tasks : parent'[d] < d
    BY <1>1, <1>7 DEF TreeOK, TypeOK, Tasks, InitProc, Idle
  <2> QED
    BY <2>1, <2>2, <2>3, Zenon DEF TreeOK, Live, LiveStates
<1>13. CpuOK'
  BY <1>6, Zenon DEF HandedOver, CpuOK
<1>14. SleepOK'
  <2> SUFFICES ASSUME NEW u \in Tasks
               PROVE  /\ wait_state[u] = 1 <=> pc[u] = "wait"
                      /\ u \in entries => state'[u] = "Sleeping" /\ pc[u] = "sleep"
                      /\ state'[u] = "Sleeping" => wait_state[u] = 1 \/ u \in entries
                      /\ pc[u] # "run" => Live(u)'
    BY <1>7, Zenon DEF SleepOK
  <2>1. CASE u = t
    BY <1>1, <1>9, <2>1, Zenon DEF SleepOK
  <2>2. CASE u # t
    BY <1>3, <1>8, <2>2 DEF SleepOK
  <2> QED
    BY <2>1, <2>2, Zenon
<1>15. BootOK'
  <2>1. \A u \in Tasks : u >= next_pid' <=> state'[u] = "Uninit"
    BY <1>1, <1>7, <1>8, <1>9, Zenon DEF BootOK
  <2>2. \A u \in Tasks : parent'[u] = NoTask \/ state'[u] \notin {"Uninit", "Freed"}
    BY <1>7, <1>8, <1>9, Zenon DEF BootOK, TreeOK, Published, Live
  <2>3. state'[Idle] \in {"Runnable", "Running"} /\ pc'[Idle] = "run"
    BY <1>5, <1>6, <1>7, BootTasks, Zenon DEF BootOK, Schedulable, HandedOver, OnCpu
  <2>4. Live(InitProc)' /\ next_pid' # InitProc
    BY <1>1, <1>2, <1>7, <1>8, BootTasks, Zenon DEF BootOK
  <2> QED
    BY <2>1, <2>2, <2>3, <2>4, Zenon DEF BootOK
<1> QED
  BY <1>10, <1>11, <1>12, <1>13, <1>14, <1>15, Zenon

\* Steps that only move the program counter of the running task.
LEMMA WaitCallInv ==
    ASSUME IInv, NEW t \in Tasks, NEW pid \in Tasks, Wait(t, pid)
    PROVE  IInv'
<1> USE DEF IInv
<1>1. /\ t = current /\ t # Idle /\ pc[t] = "run" /\ state[t] = "Running"
      /\ pc' = [pc EXCEPT ![t] = "scan"]
      /\ wait_pid' = [wait_pid EXCEPT ![t] = pid]
      /\ UNCHANGED <<procVars, schedVars, entries>>
  BY DEF Wait, Free, CpuOK, InitProc, Idle
<1>2. TypeOK'
  BY <1>1, Zenon DEF TypeOK, procVars, schedVars, Places
<1>3. NoLostWakeup' /\ TreeOK' /\ CpuOK' /\ SleepOK' /\ BootOK'
  BY <1>1, BootTasks DEF TypeOK, procVars, schedVars, NoLostWakeup, TreeOK, CpuOK, SleepOK,
     BootOK, Live, Published, Matches
<1> QED
  BY <1>2, <1>3, Zenon

LEMMA WaitNotFoundInv ==
    ASSUME IInv, NEW t \in Tasks, WaitNotFound(t)
    PROVE  IInv'
<1> USE DEF IInv
<1>1. /\ t = current /\ pc[t] = "scan" /\ t # Idle /\ state[t] = "Running"
      /\ pc' = [pc EXCEPT ![t] = "run"]
      /\ wait_pid' = [wait_pid EXCEPT ![t] = 0]
      /\ UNCHANGED <<procVars, schedVars, entries>>
  BY Zenon DEF WaitNotFound, BootOK, CpuOK
<1>2. TypeOK'
  BY <1>1, BootTasks, Zenon DEF TypeOK, procVars, schedVars, Places, Idle
<1>3. NoLostWakeup' /\ TreeOK' /\ CpuOK' /\ SleepOK' /\ BootOK'
  BY <1>1, BootTasks DEF TypeOK, procVars, schedVars, NoLostWakeup, TreeOK, CpuOK, SleepOK,
     BootOK, Live, Published, Matches
<1> QED
  BY <1>2, <1>3, Zenon

\* The schedule() of wait() returned: the task is running again.
LEMMA WaitResumeInv ==
    ASSUME IInv, NEW t \in Tasks, WaitResume(t)
    PROVE  IInv'
<1> USE DEF IInv
<1>1. /\ t = current /\ pc[t] = "wait" /\ t # Idle /\ state[t] = "Running"
      /\ wait_state' = [wait_state EXCEPT ![t] = 0]
      /\ pc' = [pc EXCEPT ![t] = "scan"]
      /\ UNCHANGED <<state, parent, child_list, exit_code, next_pid, user,
                     collected, schedVars, entries, wait_pid>>
  BY Zenon DEF WaitResume, BootOK, CpuOK
<1>2. TypeOK'
  BY <1>1, Zenon DEF TypeOK, schedVars, Places
<1>3. NoLostWakeup' /\ TreeOK' /\ CpuOK' /\ SleepOK' /\ BootOK'
  BY <1>1, BootTasks DEF TypeOK, schedVars, NoLostWakeup, TreeOK, CpuOK, SleepOK,
     BootOK, Live, Published, Matches
<1> QED
  BY <1>2, <1>3, Zenon

LEMMA QueueResumeInv ==
    ASSUME IInv, NEW t \in Tasks, QueueResume(t)
    PROVE  IInv'
<1> USE DEF IInv
<1>1. /\ t = current /\ pc[t] = "sleep" /\ t # Idle /\ state[t] = "Running"
      /\ pc' = [pc EXCEPT ![t] = "run"]
      /\ entries' = entries \ {t}
      /\ UNCHANGED <<procVars, schedVars, wait_pid>>
  BY Zenon DEF QueueResume, BootOK, CpuOK
<1>2. TypeOK'
  BY <1>1, Zenon DEF TypeOK, procVars, schedVars, Places
<1>3. NoLostWakeup' /\ TreeOK' /\ CpuOK' /\ SleepOK' /\ BootOK'
  BY <1>1, BootTasks DEF TypeOK, procVars, schedVars, NoLostWakeup, TreeOK, CpuOK, SleepOK,
     BootOK, Live, Published, Matches
<1> QED
  BY <1>2, <1>3, Zenon

\* The running task goes to sleep and gives up the CPU.
LEMMA FallAsleep ==
    ASSUME IInv, NEW t \in Tasks, t = current, t # Idle,
           Schedule([state EXCEPT ![t] = "Sleeping"], time_slice)
    PROVE  /\ HandedOver([state EXCEPT ![t] = "Sleeping"])
           /\ state[t] = "Running"
           /\ state'[t] = "Sleeping"
           /\ \A u \in Tasks \ {t} : \A x \in OffCpu : state'[u] = x <=> state[u] = x
           /\ \A u \in Tasks : /\ Live(u)' <=> Live(u)
                               /\ Published(u)' <=> Published(u)
           /\ state'[Idle] \in OnCpu
           /\ next_pid > InitProc
<1> DEFINE st == [state EXCEPT ![t] = "Sleeping"]
<1>1. state[t] = "Running" /\ next_pid > InitProc
  BY DEF IInv, CpuOK, BootOK, TypeOK, InitProc
<1>2. /\ st[t] = "Sleeping"
      /\ \A u \in Tasks \ {t} : st[u] = state[u]
      /\ st \in [Tasks -> AllStates]
  BY Zenon DEF IInv, TypeOK, AllStates, TaskState
<1> HIDE DEF st
<1>3. Schedulable(st)
  BY <1>2, BootTasks, Zenon DEF IInv, CpuOK, BootOK, Schedulable, OnCpu
<1>4. HandedOver(st)
  <2>1. Schedule(st, time_slice)
    BY Zenon DEF st
  <2> QED
    BY <1>3, <2>1, ScheduleHandsOver, Zenon DEF IInv, TypeOK
<1>5. state'[t] = "Sleeping"
  BY <1>2, <1>3, <1>4, HandOverKeeps, Zenon DEF OffCpu
<1>6. \A u \in Tasks \ {t} : /\ \A x \in OffCpu : state'[u] = x <=> state[u] = x
                             /\ Live(u)' <=> Live(u)
                             /\ Published(u)' <=> Published(u)
  BY <1>2, <1>3, <1>4, HandOverKeeps DEF Live, Published, LiveStates
<1>7. Live(t)' /\ Live(t) /\ Published(t)' /\ Published(t)
  BY <1>1, <1>5, Zenon DEF Live, Published
<1>8. state'[Idle] \in OnCpu
  BY <1>3, <1>4, BootTasks, Zenon DEF Schedulable, HandedOver
<1> QED
  BY <1>1, <1>4, <1>5, <1>6, <1>7, <1>8, Zenon DEF st

\* wait() goes to sleep: it has just seen that no child is a zombie.
LEMMA WaitSleepInv ==
    ASSUME IInv, NEW t \in Tasks, WaitSleep(t)
    PROVE  IInv'
<1> USE DEF IInv
<1>1. t = current /\ pc[t] = "scan" /\ t # Idle
  BY Zenon DEF WaitSleep, BootOK
<1>2. /\ wait_state' = [wait_state EXCEPT ![t] = 1]
      /\ pc' = [pc EXCEPT ![t] = "wait"]
      /\ UNCHANGED <<parent, child_list, exit_code, next_pid, user, collected,
                     priority, entries, wait_pid>>
      /\ Schedule([state EXCEPT ![t] = "Sleeping"], time_slice)
  BY Zenon DEF WaitSleep
<1>3. /\ HandedOver([state EXCEPT ![t] = "Sleeping"])
      /\ state[t] = "Running" /\ state'[t] = "Sleeping"
      /\ \A u \in Tasks \ {t} : \A x \in OffCpu : state'[u] = x <=> state[u] = x
      /\ \A u \in Tasks : /\ Live(u)' <=> Live(u)
                          /\ Published(u)' <=> Published(u)
      /\ state'[Idle] \in OnCpu /\ next_pid > InitProc
  BY <1>1, <1>2, FallAsleep, Zenon
<1>4. TypeOK'
  BY <1>2, <1>3, Zenon DEF TypeOK, HandedOver, Places, AllStates
<1>5. NoLostWakeup'
  <2> SUFFICES ASSUME NEW u \in Tasks, state'[u] = "Sleeping", pc'[u] = "wait"
               PROVE  /\ \E d \in child_list[u] : Matches(wait_pid[u], d)
                      /\ \A d \in child_list[u] : Matches(wait_pid[u], d) => Live(d)'
    BY <1>2, Zenon DEF NoLostWakeup, Matches
  <2>1. \A d \in child_list[u] : d \in Tasks /\ Published(d)
    BY Zenon DEF TypeOK, TreeOK
  <2>2. CASE u = t
    <3>1. /\ \E d \in child_list[t] : Matches(wait_pid[t], d)
          /\ \A d \in child_list[t] : Matches(wait_pid[t], d) => state[d] # "Zombie"
      BY Zenon DEF WaitSleep
    <3> QED
      BY <1>3, <2>1, <2>2, <3>1, Zenon DEF Published
  <2>3. CASE u # t
    <3>1. state[u] = "Sleeping" /\ pc[u] = "wait"
      BY <1>2, <1>3, <2>3, Zenon DEF TypeOK, OffCpu
    <3> QED
      BY <1>3, <2>1, <3>1, Zenon DEF NoLostWakeup
  <2> QED
    BY <2>2, <2>3, Zenon
<1>6. TreeOK'
  BY <1>2, <1>3, Zenon DEF TypeOK, TreeOK
<1>7. CpuOK'
  BY <1>3, Zenon DEF HandedOver, CpuOK
<1>8. SleepOK'
  BY <1>1, <1>2, <1>3, Zenon DEF TypeOK, SleepOK, OffCpu
<1>9. BootOK'
  <2>1. next_pid' # InitProc
    BY <1>2, <1>3 DEF TypeOK, InitProc
  <2>2. \A u \in Tasks : \A x \in {"Uninit", "Freed"} : state'[u] = x <=> state[u] = x
    BY <1>3, Zenon DEF OffCpu
  <2> QED
    BY <1>1, <1>2, <1>3, <2>1, <2>2, BootTasks, Zenon DEF BootOK, OnCpu, TypeOK
<1> QED
  BY <1>4, <1>5, <1>6, <1>7, <1>8, <1>9, Zenon

\* WaitQueue::sleep() links the task before it gives up the CPU.
LEMMA QueueSleepInv ==
    ASSUME IInv, NEW t \in Tasks, QueueSleep(t)
    PROVE  IInv'
<1> USE DEF IInv
<1>1. t = current /\ pc[t] = "run" /\ t # Idle
  BY Zenon DEF QueueSleep, Free
<1>2. /\ entries' = entries \cup {t}
      /\ pc' = [pc EXCEPT ![t] = "sleep"]
      /\ UNCHANGED <<parent, child_list, exit_code, wait_state, next_pid, user,
                     collected, priority, wait_pid>>
      /\ Schedule([state EXCEPT ![t] = "Sleeping"], time_slice)
  BY Zenon DEF QueueSleep
<1>3. /\ HandedOver([state EXCEPT ![t] = "Sleeping"])
      /\ state[t] = "Running" /\ state'[t] = "Sleeping"
      /\ \A u \in Tasks \ {t} : \A x \in OffCpu : state'[u] = x <=> state[u] = x
      /\ \A u \in Tasks : /\ Live(u)' <=> Live(u)
                          /\ Published(u)' <=> Published(u)
      /\ state'[Idle] \in OnCpu /\ next_pid > InitProc
  BY <1>1, <1>2, FallAsleep, Zenon
<1>4. TypeOK'
  <2>1. entries' \in SUBSET Tasks
    BY <1>2, Zenon DEF TypeOK
  <2>2. pc' \in [Tasks -> Places]
    BY <1>2, Zenon DEF TypeOK, Places
  <2> QED
    BY <1>2, <1>3, <2>1, <2>2, Zenon DEF TypeOK, HandedOver, AllStates
<1>5. NoLostWakeup'
  <2> SUFFICES ASSUME NEW u \in Tasks, state'[u] = "Sleeping", pc'[u] = "wait"
               PROVE  /\ \E d \in child_list[u] : Matches(wait_pid[u], d)
                      /\ \A d \in child_list[u] : Matches(wait_pid[u], d) => Live(d)'
    BY <1>2, Zenon DEF NoLostWakeup, Matches
  <2>1. u # t /\ state[u] = "Sleeping" /\ pc[u] = "wait"
    BY <1>2, <1>3, Zenon DEF TypeOK, OffCpu
  <2> QED
    BY <1>3, <2>1, Zenon DEF NoLostWakeup, TypeOK
<1>6. TreeOK'
  BY <1>2, <1>3, Zenon DEF TypeOK, TreeOK
<1>7. CpuOK'
  BY <1>3, Zenon DEF HandedOver, CpuOK
<1>8. SleepOK'
  <2> SUFFICES ASSUME NEW u \in Tasks
               PROVE  /\ wait_state[u] = 1 <=> pc'[u] = "wait"
                      /\ u \in entries' => state'[u] = "Sleeping" /\ pc'[u] = "sleep"
                      /\ state'[u] = "Sleeping" => wait_state[u] = 1 \/ u \in entries'
                      /\ pc'[u] # "run" => Live(u)'
    BY <1>2, Zenon DEF SleepOK
  <2>1. CASE u = t
    BY <1>1, <1>2, <1>3, <2>1, Zenon DEF SleepOK, TypeOK, Live
  <2>2. CASE u # t
    BY <1>2, <1>3, <2>2, Zenon DEF SleepOK, TypeOK, OffCpu
  <2> QED
    BY <2>1, <2>2, Zenon
<1>9. BootOK'
  <2>1. next_pid' # InitProc
    BY <1>2, <1>3 DEF TypeOK, InitProc
  <2>2. \A u \in Tasks : \A x \in {"Uninit", "Freed"} : state'[u] = x <=> state[u] = x
    BY <1>3, Zenon DEF OffCpu
  <2> QED
    BY <1>1, <1>2, <1>3, <2>1, <2>2, BootTasks, Zenon DEF BootOK, OnCpu, TypeOK
<1> QED
  BY <1>4, <1>5, <1>6, <1>7, <1>8, <1>9, Zenon

\* wait() frees a zombie that has no children left.
LEMMA ReapInv ==
    ASSUME IInv, NEW t \in Tasks, NEW c \in Tasks, Reap(t, c)
    PROVE  IInv'
<1> USE DEF IInv
<1>1. /\ t = current /\ pc[t] = "scan" /\ t # Idle /\ state[t] = "Running"
      /\ c \in child_list[t] /\ state[c] = "Zombie" /\ parent[c] = t
      /\ c # t /\ c # Idle /\ c # InitProc
      /\ pc[c] = "run" /\ wait_state[c] = 0 /\ c \notin entries
  <2>1. t = current /\ pc[t] = "scan" /\ c \in child_list[t] /\ state[c] = "Zombie"
    BY Zenon DEF Reap
  <2>2. t # Idle /\ state[t] = "Running" /\ parent[c] = t /\ c # t
    BY <2>1, Zenon DEF BootOK, CpuOK, TreeOK
  <2>3. pc[c] = "run" /\ wait_state[c] = 0 /\ c \notin entries
    BY <2>1, Zenon DEF SleepOK, Live, TypeOK
  <2>4. c # Idle
    BY <2>1, Zenon DEF BootOK
  <2>5. c # InitProc
    BY <2>1, <2>2 DEF BootOK, Live, TypeOK, InitProc
  <2> QED
    BY <2>1, <2>2, <2>3, <2>4, <2>5, Zenon
<1>2. /\ collected' = [collected EXCEPT ![c] = exit_code[c]]
      /\ cursor' = IF cursor = c THEN NoTask ELSE cursor
      /\ child_list' = [child_list EXCEPT ![t] = @ \ {c}]
      /\ state' = [state EXCEPT ![c] = "Freed"]
      /\ parent' = [parent EXCEPT ![c] = NoTask]
      /\ exit_code' = [exit_code EXCEPT ![c] = NoCode]
      /\ pc' = [pc EXCEPT ![t] = "run"]
      /\ wait_pid' = [wait_pid EXCEPT ![t] = 0]
      /\ UNCHANGED <<wait_state, next_pid, user, priority, time_slice, current, entries>>
  BY Zenon DEF Reap
<1>3. TypeOK'
  BY <1>2, BootTasks, Zenon DEF TypeOK, TaskState, Places, Idle
<1>4. \A u \in Tasks \ {c} : state'[u] = state[u] /\ (Live(u)' <=> Live(u))
                            /\ (Published(u)' <=> Published(u))
  BY <1>2, Zenon DEF TypeOK, Live, Published
<1>5. state'[c] = "Freed" /\ ~Live(c)' /\ ~Published(c)'
  BY <1>2, Zenon DEF TypeOK, Live, Published
<1>6. NoLostWakeup'
  <2> SUFFICES ASSUME NEW u \in Tasks, state'[u] = "Sleeping", pc'[u] = "wait"
               PROVE  /\ \E d \in child_list'[u] : Matches(wait_pid'[u], d)
                      /\ \A d \in child_list'[u] : Matches(wait_pid'[u], d) => Live(d)'
    BY Zenon DEF NoLostWakeup, Matches
  <2>1. u # t /\ u # c /\ state[u] = "Sleeping" /\ pc[u] = "wait"
    BY <1>1, <1>2, <1>4, <1>5, Zenon DEF TypeOK
  <2>2. child_list'[u] = child_list[u] /\ wait_pid'[u] = wait_pid[u] /\ c \notin child_list[u]
    BY <1>1, <1>2, <2>1, Zenon DEF TypeOK, TreeOK
  <2> QED
    BY <1>4, <2>1, <2>2, Zenon DEF NoLostWakeup, TypeOK
<1>7. TreeOK'
  <2>1. \A q, d \in Tasks : d \in child_list'[q] <=> (Published(d)' /\ parent'[d] = q)
    <3> SUFFICES ASSUME NEW q \in Tasks, NEW d \in Tasks
                 PROVE  d \in child_list'[q] <=> (Published(d)' /\ parent'[d] = q)
      BY Zenon
    <3>1. CASE d = c
      BY <1>1, <1>2, <1>5, <3>1 DEF TreeOK, TypeOK
    <3>2. CASE d # c
      BY <1>1, <1>2, <1>4, <3>2 DEF TreeOK, TypeOK
    <3> QED
      BY <3>1, <3>2, Zenon
  <2>2. ASSUME NEW d \in Tasks \ {Idle}, Published(d)'
        PROVE  parent'[d] \in Tasks /\ state'[parent'[d]] \in LiveStates
    <3>1. d # c /\ parent'[d] = parent[d] /\ parent[d] \in Tasks /\ Live(parent[d])
      BY <1>2, <1>4, <1>5, <2>2 DEF TreeOK, TypeOK
    <3>2. parent[d] # c
      BY <1>1, <3>1, Zenon DEF Live
    <3> QED
      BY <1>4, <3>1, <3>2, Zenon DEF Live, LiveStates
  <2>3. \A d \in Tasks : parent'[d] < d
    BY <1>2 DEF TreeOK, TypeOK, Tasks, NoTask
  <2> QED
    BY <2>1, <2>2, <2>3, Zenon DEF TreeOK, Live, LiveStates
<1>8. CpuOK'
  BY <1>1, <1>2, Zenon DEF TypeOK, CpuOK
<1>9. SleepOK'
  BY <1>1, <1>2, <1>4, <1>5, Zenon DEF TypeOK, SleepOK
<1>10. BootOK'
  BY <1>1, <1>2, <1>4, <1>5, BootTasks, Zenon DEF TypeOK, BootOK
<1> QED
  BY <1>3, <1>6, <1>7, <1>8, <1>9, <1>10, Zenon

\* The invariant is inductive.
LEMMA Inductive == IInv /\ [Next]_vars => IInv'
<1> SUFFICES ASSUME IInv, [Next]_vars PROVE IInv'
  BY Zenon
<1>1. CASE Tick
  BY <1>1, TickInv, Zenon
<1>2. CASE IdleLoop
  BY <1>2, IdleLoopInv, Zenon
<1>3. CASE \E t \in Tasks : WakeupOne(t)
  BY <1>3, WakeupOneInv, Zenon
<1>4. CASE \E t \in Tasks : TaskStep(t)
  <2>1. PICK t \in Tasks : TaskStep(t)
    BY <1>4, Zenon
  <2> QED
    BY <2>1, ForkInv, ExitInv, WaitCallInv, ReapInv, WaitNotFoundInv, WaitSleepInv,
       WaitResumeInv, QueueSleepInv, QueueResumeInv, Zenon DEF TaskStep
<1>5. CASE UNCHANGED vars
  BY <1>5 DEF vars, procVars, schedVars, pcVars, IInv, TypeOK, NoLostWakeup, TreeOK,
     CpuOK, SleepOK, BootOK, Live, Published, Matches
<1> QED
  BY <1>1, <1>2, <1>3, <1>4, <1>5, Zenon DEF Next

LEMMA InitInv == Init => IInv
<1> SUFFICES ASSUME Init PROVE IInv
  BY Zenon
<1> USE BootTasks DEF Init
<1>1. TypeOK
  BY MaxPidAssumption DEF TypeOK, TaskState, Places, HIGHEST_PRIORITY, IDLE_PRIO, DEFAULT, Idle
<1>2. NoLostWakeup
  BY Zenon DEF NoLostWakeup
<1>3. TreeOK
  BY DEF TreeOK, Live, Published, NoTask, Tasks, Idle
<1>4. CpuOK
  BY Zenon DEF CpuOK
<1>5. SleepOK
  BY DEF SleepOK
<1>6. BootOK
  BY DEF BootOK, Tasks, Idle, InitProc
<1> QED
  BY <1>1, <1>2, <1>3, <1>4, <1>5, <1>6, Zenon DEF IInv

\* The inductive invariant holds of every reachable state.
THEOREM Invariance == Spec => []IInv
BY InitInv, Inductive, PTL DEF Spec

\* No wakeup is lost between exit() and wait(), for any number of tasks.
THEOREM NoWakeupIsLost == Spec => []NoLostWakeup
BY Invariance, PTL DEF IInv

\* The process tree stays consistent and every zombie has a living parent.
THEOREM TreeConsistent == Spec => []TreeOK
BY Invariance, PTL DEF IInv

\* One task owns the CPU, and a sleeping task has one reason to sleep.
THEOREM CpuAndSleep == Spec => [](CpuOK /\ SleepOK)
BY Invariance, PTL DEF IInv

----------------------------------------------------------------------------
(* The refinement of ProcessTree *)

StatusOf(x) ==
    CASE x = "Uninit" -> "unborn"
      [] x = "Zombie" -> "exited"
      [] x = "Freed" -> "gone"
      [] OTHER -> "alive"

\* Steps that leave the tree alone.
SameTree ==
    /\ \A u \in Tasks : Status(u)' = Status(u)
    /\ UNCHANGED <<parent, exit_code, collected>>

LEMMA SameTreeStutters ==
    ASSUME SameTree
    PROVE  UNCHANGED Tree!vars
BY Zenon DEF SameTree, Tree!vars

\* A handover of the CPU shows nowhere in the tree.
LEMMA HandOverStatus ==
    ASSUME NEW st, Schedulable(st), HandedOver(st), NEW u \in Tasks
    PROVE  Status(u)' = StatusOf(st[u])
<1>1. CASE st[u] \in OffCpu
  BY <1>1, Zenon DEF HandedOver, Status, StatusOf
<1>2. CASE st[u] \in OnCpu
  BY <1>2, Zenon DEF HandedOver, Status, StatusOf, OnCpu
<1>3. st[u] \in OffCpu \cup OnCpu
  BY Zenon DEF Schedulable, AllStates, TaskState, OnCpu, OffCpu
<1> QED
  BY <1>1, <1>2, <1>3, Zenon

\* The initial states are those of the tree.
LEMMA InitRefines == Init => Tree!Init
BY Zenon DEF Init, Tree!Init, Status

LEMMA PureScheduleRefines ==
    ASSUME IInv, NEW sl \in [Tasks -> Nat], Schedule(state, sl),
           UNCHANGED <<parent, exit_code, collected>>
    PROVE  SameTree
<1>1. Schedulable(state) /\ HandedOver(state)
  BY InvSchedulable, ScheduleHandsOver, Zenon DEF IInv
<1> QED
  BY <1>1, HandOverStatus, Zenon DEF SameTree, Status, StatusOf

LEMMA TickRefines ==
    ASSUME IInv, Tick
    PROVE  SameTree
<1> DEFINE left == IF time_slice[current] > 0 THEN time_slice[current] - 1
                                              ELSE time_slice[current]
           sl == [time_slice EXCEPT ![current] = left]
<1>1. sl \in [Tasks -> Nat]
  BY DEF IInv, TypeOK
<1>2. CASE left <= 0
  BY <1>1, <1>2, PureScheduleRefines, Zenon DEF Tick
<1>3. CASE ~(left <= 0)
  BY <1>3, Zenon DEF Tick, SameTree, Status
<1> QED
  BY <1>2, <1>3, Zenon

LEMMA IdleLoopRefines ==
    ASSUME IInv, IdleLoop
    PROVE  SameTree
BY PureScheduleRefines, Zenon DEF IInv, TypeOK, IdleLoop

LEMMA WakeupOneRefines ==
    ASSUME IInv, NEW t \in Tasks, WakeupOne(t)
    PROVE  SameTree
<1>1. state[t] = "Sleeping" /\ state' = [state EXCEPT ![t] = "Runnable"]
  BY Zenon DEF IInv, SleepOK, WakeupOne
<1> QED
  BY <1>1, Zenon DEF IInv, TypeOK, WakeupOne, SameTree, Status

\* A task that falls asleep stays alive.
LEMMA FallAsleepRefines ==
    ASSUME IInv, NEW t \in Tasks, t = current, t # Idle,
           Schedule([state EXCEPT ![t] = "Sleeping"], time_slice),
           UNCHANGED <<parent, exit_code, collected>>
    PROVE  SameTree
<1>1. /\ state[t] = "Running" /\ state'[t] = "Sleeping"
      /\ \A u \in Tasks \ {t} : \A x \in OffCpu : state'[u] = x <=> state[u] = x
  BY FallAsleep, Zenon
<1> QED
  BY <1>1, Zenon DEF SameTree, Status, OffCpu

LEMMA ForkRefines ==
    ASSUME IInv, NEW p \in Tasks, NEW isUser \in BOOLEAN, Fork(p, isUser)
    PROVE  Tree!Next
<1>1. PICK c \in Tasks : c = next_pid
  BY DEF IInv, Fork, TypeOK, Tasks
<1>2. state[c] = "Uninit" /\ state[p] \in OnCpu
  BY <1>1 DEF IInv, TypeOK, BootOK, Fork, CpuOK, OnCpu, Tasks
<1>3. /\ state' = [state EXCEPT ![c] = "Runnable"]
      /\ parent' = [parent EXCEPT ![c] = p]
      /\ UNCHANGED <<exit_code, collected>>
  BY <1>1, Zenon DEF Fork
<1>4. Status(c) = "unborn" /\ Status(p) = "alive"
  BY <1>2, Zenon DEF Status, OnCpu
<1>5. \A u \in Tasks : Status(u)' = IF u = c THEN "alive" ELSE Status(u)
  BY <1>3, Zenon DEF IInv, TypeOK, Status
<1>6. Tree!Spawn(p, c)
  BY <1>3, <1>4, <1>5, Zenon DEF Tree!Spawn
<1> QED
  BY <1>6, Zenon DEF Tree!Next

LEMMA ReapRefines ==
    ASSUME IInv, NEW t \in Tasks, NEW c \in Tasks, Reap(t, c)
    PROVE  Tree!Next
<1>1. state[c] = "Zombie" /\ parent[c] = t /\ state[t] \in OnCpu
  BY Zenon DEF IInv, TreeOK, CpuOK, Reap, OnCpu
<1>2. Status(c) = "exited" /\ Status(t) = "alive"
  BY <1>1, Zenon DEF Status, OnCpu
<1>3. \A u \in Tasks : Status(u)' = IF u = c THEN "gone" ELSE Status(u)
  BY Zenon DEF IInv, TypeOK, Status, Reap
<1>4. Tree!Collect(t, c)
  BY <1>1, <1>2, <1>3, Zenon DEF Tree!Collect, Reap
<1> QED
  BY <1>4, Zenon DEF Tree!Next

LEMMA ExitRefines ==
    ASSUME IInv, NEW t \in Tasks, NEW code \in ExitCodes, Exit(t, code)
    PROVE  Tree!Next
<1> DEFINE st == AfterExit(t)
<1>1. /\ t = current /\ t # Idle /\ t # InitProc
      /\ state[t] = "Running" /\ wait_state[t] = 0
  BY Zenon DEF IInv, Exit, Free, CpuOK, SleepOK, TypeOK
<1>2. parent[t] \in Tasks /\ parent[t] # t
  BY <1>1 DEF IInv, TreeOK, Published, Live, Tasks
<1>3. /\ st[t] = "Zombie"
      /\ \A u \in Tasks \ {t} : \/ st[u] = state[u]
                                \/ st[u] = "Runnable" /\ wait_state[u] = 1
      /\ st \in [Tasks -> AllStates]
  BY <1>1, <1>2, BootTasks, Zenon DEF IInv, AfterExit, WakeupIf, TypeOK, AllStates, TaskState
<1>4. \A u \in Tasks : wait_state[u] = 1 => Live(u) /\ u # t /\ u # Idle
  BY <1>1 DEF IInv, SleepOK, BootOK
<1>5. Schedulable(st)
  BY <1>1, <1>3, <1>4, BootTasks, Zenon DEF IInv, Schedulable, CpuOK, BootOK, OnCpu
<1> HIDE DEF st
<1>6. HandedOver(st)
  <2>1. Schedule(st, time_slice)
    BY Zenon DEF Exit, st
  <2> QED
    BY <1>5, <2>1, ScheduleHandsOver, Zenon DEF IInv, TypeOK
<1>7. \A u \in Tasks : Status(u)' = IF u = t THEN "exited" ELSE Status(u)
  BY <1>3, <1>4, <1>5, <1>6, HandOverStatus DEF Status, StatusOf, Live
<1>8. \A c \in Tasks : c \in child_list[t] <=> parent[c] = t
  BY DEF IInv, TypeOK, TreeOK, BootOK, Published, Live, TaskState, Tasks, NoTask
<1>9. parent' = [c \in Tasks |-> IF parent[c] = t THEN InitProc ELSE parent[c]]
  BY <1>8, Zenon DEF Exit, ParentAfterExit
<1>10. Status(t) = "alive"
  BY <1>1, Zenon DEF Status
<1>11. Tree!Die(t, code)
  BY <1>1, <1>7, <1>9, <1>10, Zenon DEF Tree!Die, Exit
<1> QED
  BY <1>11, Zenon DEF Tree!Next

\* Every step is a step of the tree or leaves it alone.
LEMMA StepRefines == IInv /\ [Next]_vars => [Tree!Next]_(Tree!vars)
<1> SUFFICES ASSUME IInv, [Next]_vars PROVE Tree!Next \/ UNCHANGED Tree!vars
  BY Zenon
<1>1. CASE Tick
  BY <1>1, TickRefines, SameTreeStutters, Zenon
<1>2. CASE IdleLoop
  BY <1>2, IdleLoopRefines, SameTreeStutters, Zenon
<1>3. CASE \E t \in Tasks : WakeupOne(t)
  BY <1>3, WakeupOneRefines, SameTreeStutters, Zenon
<1>4. CASE \E t \in Tasks : TaskStep(t)
  <2>1. PICK t \in Tasks : TaskStep(t)
    BY <1>4, Zenon
  <2>2. CASE \E isUser \in BOOLEAN : Fork(t, isUser)
    BY <2>2, ForkRefines, Zenon
  <2>3. CASE \E code \in ExitCodes : Exit(t, code)
    BY <2>3, ExitRefines, Zenon
  <2>4. CASE \E c \in Tasks : Reap(t, c)
    BY <2>4, ReapRefines, Zenon
  <2>5. CASE WaitSleep(t)
    <3>1. t = current /\ t # Idle
      BY <2>5, Zenon DEF WaitSleep, IInv, BootOK
    <3> QED
      BY <2>5, <3>1, FallAsleepRefines, SameTreeStutters, Zenon DEF WaitSleep
  <2>6. CASE QueueSleep(t)
    BY <2>6, FallAsleepRefines, SameTreeStutters, Zenon DEF QueueSleep, Free
  <2>7. CASE WaitNotFound(t) \/ WaitResume(t) \/ QueueResume(t)
             \/ \E pid \in Tasks : Wait(t, pid)
    <3>1. SameTree
      BY <2>7, Zenon DEF WaitNotFound, WaitResume, QueueResume, Wait, procVars, SameTree, Status
    <3> QED
      BY <3>1, SameTreeStutters, Zenon
  <2> QED
    BY <2>1, <2>2, <2>3, <2>4, <2>5, <2>6, <2>7, Zenon DEF TaskStep
<1>5. CASE UNCHANGED vars
  <2>1. SameTree
    BY <1>5, Zenon DEF vars, procVars, SameTree, Status
  <2> QED
    BY <2>1, SameTreeStutters, Zenon
<1> QED
  BY <1>1, <1>2, <1>3, <1>4, <1>5, Zenon DEF Next

\* fork(), exit() and wait() under the scheduler implement the process tree.
THEOREM Refinement == Spec => ImplementsTree
<1>1. Spec => Tree!Init /\ [][Tree!Next]_(Tree!vars)
  BY InitRefines, Invariance, StepRefines, PTL DEF Spec
<1> QED
  BY <1>1, Zenon DEF ImplementsTree, Tree!Spec

----------------------------------------------------------------------------
(* The cursor of the scheduling policy *)

\* Wherever schedule() leaves the cursor, there is a task.
LEMMA ScheduleCursor ==
    ASSUME TypeOK, NEW st, Schedulable(st), NEW sl \in [Tasks -> Nat], Schedule(st, sl),
           cursor = NoTask \/ st[cursor] \notin {"Uninit", "Freed"}
    PROVE  CursorOK'
<1>1. PICK chosen \in PickNext(st) : cursor' = CursorAfter(st, chosen)
  BY Zenon DEF Schedule
<1>2. chosen = Idle \/ chosen \in Tasks
  BY Zenon DEF PickNext
<1>3. cursor' \in Tasks /\ st[cursor'] \notin {"Uninit", "Freed"}
  <2>1. CASE chosen = Idle
    BY <1>1, <2>1, ScanStartType, Zenon DEF CursorAfter, Schedulable, TypeOK
  <2>2. CASE chosen # Idle
    BY <1>1, <1>2, <2>2, NextNodeType, Zenon DEF CursorAfter, Schedulable
  <2> QED
    BY <2>1, <2>2, Zenon
<1>4. HandedOver(st)
  BY ScheduleHandsOver, Zenon
<1>5. st[cursor'] \in LiveStates \cup {"Zombie"}
  BY <1>3, Zenon DEF Schedulable, AllStates, TaskState, LiveStates
<1>6. PICK c \in Tasks : c = cursor'
  BY <1>3, Zenon
<1>7. Published(c)'
  BY <1>4, <1>5, <1>6, HandOverKeeps, Zenon
<1> QED
  BY <1>6, <1>7, Zenon DEF CursorOK, Published, Live

\* While the cursor stays, its task may change its state, but not go.
LEMMA CursorStays ==
    ASSUME CursorOK, cursor' = cursor, cursor # NoTask => state'[cursor] \notin {"Uninit", "Freed"}, TypeOK, TypeOK'
    PROVE  CursorOK'
BY Zenon DEF CursorOK, Published, Live, TypeOK, TaskState

LEMMA CursorStep == IInv /\ IInv' /\ CursorOK /\ [Next]_vars => CursorOK'
<1> SUFFICES ASSUME IInv, IInv', CursorOK, [Next]_vars PROVE CursorOK'
  BY Zenon
<1>0. /\ cursor = NoTask \/ (cursor \in Tasks /\ state[cursor] \notin {"Uninit", "Freed"})
      /\ TypeOK /\ TypeOK' /\ time_slice \in [Tasks -> Nat] /\ Schedulable(state)
  BY InvSchedulable, Zenon DEF IInv, TypeOK, CursorOK, Published, Live
<1>1. CASE Tick
  <2> DEFINE left == IF time_slice[current] > 0 THEN time_slice[current] - 1 ELSE time_slice[current]
             sl == [time_slice EXCEPT ![current] = left]
  <2>1. sl \in [Tasks -> Nat]
    BY DEF IInv, TypeOK
  <2>2. CASE left <= 0
    BY <1>0, <1>1, <2>1, <2>2, ScheduleCursor, Zenon DEF Tick
  <2>3. CASE ~(left <= 0)
    BY <1>0, <1>1, <2>3, CursorStays, Zenon DEF Tick
  <2> QED
    BY <2>2, <2>3, Zenon
<1>2. CASE IdleLoop
  BY <1>0, <1>2, ScheduleCursor, Zenon DEF IdleLoop
<1>3. CASE \E t \in Tasks : WakeupOne(t)
  BY <1>0, <1>3, CursorStays, Zenon DEF WakeupOne, schedVars, TypeOK
<1>4. ASSUME NEW t \in Tasks, NEW isUser \in BOOLEAN, Fork(t, isUser) PROVE CursorOK'
  BY <1>0, <1>4, CursorStays, Zenon DEF Fork, TypeOK
<1>5. ASSUME NEW t \in Tasks, NEW code \in ExitCodes, Exit(t, code) PROVE CursorOK'
  <2> DEFINE st == AfterExit(t)
  <2>1. t = current /\ t # Idle /\ t # InitProc /\ wait_state[t] = 0
    BY <1>5, Zenon DEF IInv, Exit, Free, SleepOK, TypeOK
  <2>2. parent[t] \in Tasks /\ parent[t] # t
    BY <2>1 DEF IInv, TreeOK, CpuOK, Published, Live, Tasks
  <2>3. /\ st[t] = "Zombie"
        /\ \A u \in Tasks \ {t} : st[u] = state[u] \/ (st[u] = "Runnable" /\ wait_state[u] = 1)
        /\ st \in [Tasks -> AllStates]
    BY <2>1, <2>2, BootTasks, Zenon DEF IInv, AfterExit, WakeupIf, TypeOK, AllStates, TaskState
  <2>4. \A u \in Tasks : wait_state[u] = 1 => u # t /\ u # Idle
    BY <2>1 DEF IInv, SleepOK, BootOK
  <2>5. Schedulable(st)
    BY <2>1, <2>3, <2>4, BootTasks, Zenon DEF IInv, Schedulable, CpuOK, BootOK, OnCpu
  <2> HIDE DEF st
  <2>6. Schedule(st, time_slice)
    BY <1>5, Zenon DEF Exit, st
  <2>7. cursor = NoTask \/ st[cursor] \notin {"Uninit", "Freed"}
    BY <1>0, <2>3, Zenon
  <2> QED
    BY <1>0, <2>5, <2>6, <2>7, ScheduleCursor, Zenon
<1>6. ASSUME NEW t \in Tasks, t = current, t # Idle, Schedule([state EXCEPT ![t] = "Sleeping"], time_slice)
      PROVE  CursorOK'
  <2> DEFINE st == [state EXCEPT ![t] = "Sleeping"]
  <2>1. st[t] = "Sleeping" /\ (\A u \in Tasks \ {t} : st[u] = state[u]) /\ st \in [Tasks -> AllStates]
    BY <1>6, Zenon DEF IInv, TypeOK, AllStates, TaskState
  <2>2. Schedule(st, time_slice)
    BY <1>6, Zenon
  <2> HIDE DEF st
  <2>3. Schedulable(st)
    BY <1>6, <2>1, BootTasks, Zenon DEF IInv, CpuOK, BootOK, Schedulable, OnCpu
  <2>4. cursor = NoTask \/ st[cursor] \notin {"Uninit", "Freed"}
    BY <1>0, <2>1, Zenon
  <2> QED
    BY <1>0, <2>2, <2>3, <2>4, ScheduleCursor, Zenon
<1>7. ASSUME NEW t \in Tasks, WaitSleep(t) PROVE CursorOK'
  BY <1>6, <1>7, Zenon DEF WaitSleep, IInv, BootOK
<1>8. ASSUME NEW t \in Tasks, QueueSleep(t) PROVE CursorOK'
  BY <1>6, <1>8, Zenon DEF QueueSleep, Free
<1>9. ASSUME NEW t \in Tasks, NEW c \in Tasks, Reap(t, c) PROVE CursorOK'
  <2>1. CASE cursor = c
    BY <1>9, <2>1, Zenon DEF Reap, CursorOK
  <2>2. CASE cursor # c
    <3>1. cursor' = cursor
      BY <1>9, <2>2, Zenon DEF Reap
    <3>2. state' = [state EXCEPT ![c] = "Freed"]
      BY <1>9, Zenon DEF Reap
    <3>3. cursor \in Tasks => state'[cursor] = state[cursor]
      BY <1>0, <2>2, <3>2, Zenon DEF TypeOK
    <3> QED
      BY <1>0, <3>1, <3>3, CursorStays, Zenon
  <2> QED
    BY <2>1, <2>2, Zenon
<1>10. ASSUME NEW t \in Tasks,
              WaitNotFound(t) \/ WaitResume(t) \/ QueueResume(t) \/ \E pid \in Tasks : Wait(t, pid)
       PROVE  CursorOK'
  BY <1>0, <1>10, CursorStays, Zenon DEF WaitNotFound, WaitResume, QueueResume, Wait, procVars, schedVars
<1>11. CASE UNCHANGED vars
  BY <1>0, <1>11, CursorStays, Zenon DEF vars, procVars, schedVars
<1>12. ASSUME NEW t \in Tasks, TaskStep(t) PROVE CursorOK'
  BY <1>4, <1>5, <1>7, <1>8, <1>9, <1>10, <1>12, Zenon DEF TaskStep
<1> QED
  BY <1>1, <1>2, <1>3, <1>11, <1>12, Zenon DEF Next

\* The cursor of the round robin, kept from one schedule() to the next while
\* tasks exit and are freed by wait(), never points at a task that is gone,
\* for any number of tasks.
THEOREM CursorSafe == Spec => []CursorOK
<1>1. Init => CursorOK
  BY Zenon DEF Init, CursorOK
<1> QED
  BY <1>1, Invariance, CursorStep, PTL DEF Spec

(***************************************************************************)
(* Loading is exact: ExecExact for every file, page size and layout        *)
(***************************************************************************)

ExecStages == {"open", "read", "desc", "root", "validate", "load", "stack", "fork", "adopt", "return", "done",
               "failed", "error"}
Checked == {"load", "stack", "fork", "adopt", "return", "done"}
Built == {"stack", "fork", "adopt", "return", "done"}
Whole == {"fork", "adopt", "return", "done"}

StackBottom == PageOf(USER_STACK_TOP - USER_STACK_SIZE)
StackTop == PageOf(USER_STACK_TOP)

ExecTypeOK ==
  /\ execArch \in Arches
  /\ elf \in [valid : BOOLEAN, entry : Entries, headers : [1 .. e_phnum -> Segments]]
  /\ execPc \in ExecStages
  /\ seg \in 1 .. e_phnum + 1 /\ next \in Nat
  /\ DOMAIN pages \subseteq Nat
  /\ guard \in BOOLEAN

\* The pages of segment i, and the headers that have given page p their
\* rights so far.
PagesOf(i) == PageOf(elf.headers[i].va) .. PageOf(Ends(elf.headers[i]) - 1)
Given(p) == {i \in Loaded : p \in PagesOf(i) /\ (i < seg \/ (i = seg /\ p < next))}
RightsGiven(p) == FlagsOf(Given(p))

\* The byte at va after the first s - 1 headers.
Sources(va, s) ==
  {i \in Loaded : i < s /\ va \in elf.headers[i].va .. elf.headers[i].va + elf.headers[i].filesz - 1}
ByteAfter(va, s) ==
  IF Sources(va, s) = {} THEN 0
  ELSE elf.headers[Latest(Sources(va, s))].offset + va - elf.headers[Latest(Sources(va, s))].va + 1

SegmentPages == {p \in Nat : Given(p) # {}}
StackMapped == IF execPc \in Built THEN StackBottom .. next - 1 ELSE {}

\* A page of the image so far, and the image.
PageOK(p) ==
  /\ DOMAIN pages[p] = {"entry", "bytes"}
  /\ pages[p].entry = make_pte_page(execArch, p,
       IF p \in StackMapped THEN user_page_perm(TRUE, FALSE)
       ELSE user_page_perm("W" \in RightsGiven(p), "X" \in RightsGiven(p)))
  /\ DOMAIN pages[p].bytes = 0 .. PG_SIZE - 1
  /\ \A i \in 0 .. PG_SIZE - 1 : pages[p].bytes[i] = ByteAfter(p * PG_SIZE + i, seg)

ImageOK ==
  execPc \in Checked =>
    /\ validate
    /\ execPc = "load" => seg \in 1 .. e_phnum
    /\ execPc \in Built => seg = e_phnum + 1 /\ next \in StackBottom .. StackTop
    /\ execPc \in Whole => next = StackTop
    /\ execPc = "load" /\ Loads(Header) => PageOf(Header.va) <= next /\ next <= PageOf(Ends(Header) - 1) + 1
    /\ DOMAIN pages = SegmentPages \cup StackMapped
    /\ \A p \in DOMAIN pages : PageOK(p)

PageFrames == {UserPage(p) : p \in DOMAIN pages}

FramesHeld ==
  /\ execPc \in {"open", "read", "desc", "root", "validate"} => pages = <<>> /\ seg = 1
  /\ execPc = "open" => frames = {}
  /\ execPc \in {"read", "desc"} => frames = {Buffer}
  /\ execPc = "root" => frames = {Buffer, Desc}
  /\ execPc \in {"validate", "load", "stack", "fork", "adopt", "return"} =>
       frames = {Buffer, Desc, RootTable} \cup PageFrames
  /\ execPc = "done" => frames = {Desc, RootTable} \cup PageFrames
  /\ execPc = "failed" => frames \subseteq {Buffer, Desc, RootTable} \cup PageFrames
  /\ execPc = "error" => frames = {}

HandoffOK ==
  /\ execPc \notin {"adopt", "return", "done"} => guard = FALSE /\ child = NoChild
  /\ execPc = "adopt" => guard = TRUE /\ child = [state |-> "runnable", memory |-> FALSE]
  /\ execPc \in {"return", "done"} =>
       /\ guard = FALSE
       /\ child \in {[state |-> "runnable", memory |-> TRUE], [state |-> "running", memory |-> TRUE]}

ExecInv == ExecTypeOK /\ ImageOK /\ FramesHeld /\ HandoffOK

(***************************************************************************)
(* Pages and addresses                                                     *)
(***************************************************************************)

LEMMA ExecNumbers ==
  /\ PG_SIZE \in Nat \ {0} /\ USER_STACK_SIZE \in Nat /\ USER_STACK_TOP \in Nat /\ USER_SPACE_TOP \in Nat
  /\ ElfSize \in Nat /\ e_phnum \in Nat
BY ExecAssumption, Zenon

LEMMA DivBound ==
  ASSUME NEW b \in Nat \ {0}, NEW x \in Nat, NEW p \in Nat
  PROVE  x \div b \in Nat /\ (p * b <= x <=> p <= x \div b)
<1>1. PICK q \in Nat, r \in Nat : q = x \div b /\ r < b /\ x = b * q + r
  <2>1. x \div b \in Nat /\ x % b \in 0 .. b - 1 /\ x = b * (x \div b) + (x % b)
    BY Z3
  <2> QED BY <2>1
<1>2. CASE p <= q
  <2>1. PICK d \in Nat : q = p + d
    BY <1>2
  <2>2. b * q = p * b + b * d /\ b * d \in Nat /\ p * b \in Nat
    BY <2>1, Z3
  <2> QED BY <1>1, <1>2, <2>2
<1>3. CASE p > q
  <2>1. PICK d \in Nat : p = (q + 1) + d
    BY <1>3
  <2>2. p * b = b * q + b + d * b /\ d * b \in Nat /\ b * q \in Nat
    BY <2>1, Z3
  <2> QED BY <1>1, <1>3, <2>2
<1> QED BY <1>1, <1>2, <1>3

LEMMA PageBelow ==
  ASSUME NEW va \in Nat, NEW p \in Nat
  PROVE  PageOf(va) \in Nat /\ (p * PG_SIZE <= va <=> p <= PageOf(va))
BY ExecNumbers, DivBound, Zenon DEF PageOf

LEMMA PageTimes ==
  ASSUME NEW p \in Nat
  PROVE  p * PG_SIZE \in Nat
BY ExecNumbers

LEMMA PageMonotonic ==
  ASSUME NEW va \in Nat, NEW wa \in Nat, va <= wa
  PROVE  PageOf(va) \in Nat /\ PageOf(wa) \in Nat /\ PageOf(va) <= PageOf(wa)
<1>1. PICK p \in Nat : p = PageOf(va)
  BY PageBelow, Zenon
<1>2. PICK a \in Nat : a = p * PG_SIZE
  BY PageTimes, Zenon
<1>3. a <= va
  BY <1>1, <1>2, PageBelow
<1>4. a <= wa
  BY <1>3
<1> QED BY <1>1, <1>2, <1>4, PageBelow, Zenon

LEMMA PageOfByte ==
  ASSUME NEW p \in Nat, NEW i \in 0 .. PG_SIZE - 1
  PROVE  p * PG_SIZE + i \in Nat /\ PageOf(p * PG_SIZE + i) = p
<1>1. PICK a \in Nat, b \in Nat \ {0} : a = p * PG_SIZE /\ b = PG_SIZE
  BY PageTimes, ExecNumbers, Zenon
<1>2. a + i \in Nat /\ a <= a + i
  BY <1>1
<1>3. p <= PageOf(a + i) /\ PageOf(a + i) \in Nat
  BY <1>1, <1>2, PageBelow, Zenon
<1>4. (p + 1) * PG_SIZE = a + b
  BY <1>1
<1>5. ~(a + b <= a + i)
  BY <1>1
<1>6. ~(p + 1 <= PageOf(a + i))
  BY <1>2, <1>4, <1>5, PageBelow
<1> QED BY <1>1, <1>2, <1>3, <1>6

\* The stack begins and ends with a page: no address below it or above it
\* shares a page with it.
LEMMA StackPlace ==
  /\ StackBottom \in Nat /\ StackTop \in Nat /\ StackBottom <= StackTop
  /\ StackPages = StackBottom .. StackTop - 1
  /\ \A va \in Nat : va < USER_STACK_TOP - USER_STACK_SIZE => PageOf(va) < StackBottom
  /\ \A va \in Nat : va >= USER_STACK_TOP => PageOf(va) >= StackTop
<1>1. PICK b \in Nat \ {0}, t \in Nat, z \in Nat : b = PG_SIZE /\ t = USER_STACK_TOP /\ z = USER_STACK_SIZE
  BY ExecNumbers, Zenon
<1>2. t % b = 0 /\ z % b = 0 /\ t > z + b
  BY <1>1, ExecAssumption, Zenon DEF StackLayout
<1>3. PICK m \in Nat : t = m * b
  <2>1. t \div b \in Nat /\ t = b * (t \div b) + (t % b)
    BY Z3
  <2>2. t = (t \div b) * b
    BY <1>2, <2>1
  <2> QED BY <2>1, <2>2, Zenon
<1>4. PICK n \in Nat : z = n * b
  <2>1. z \div b \in Nat /\ z = b * (z \div b) + (z % b)
    BY Z3
  <2>2. z = (z \div b) * b
    BY <1>2, <2>1
  <2> QED BY <2>1, <2>2, Zenon
<1>5. n < m
  <2> SUFFICES ASSUME n >= m PROVE FALSE
    OBVIOUS
  <2>1. PICK d \in Nat : n = m + d
    OBVIOUS
  <2>2. n * b = m * b + d * b /\ d * b \in Nat
    BY <2>1, Z3
  <2> QED BY <1>2, <1>3, <1>4, <2>2
<1>6. PICK k \in Nat : m = n + k /\ t - z = k * b
  <2>1. PICK k \in Nat : m = n + k
    BY <1>5
  <2>2. m * b = n * b + k * b /\ k * b \in Nat
    BY <2>1, Z3
  <2> QED BY <1>3, <1>4, <2>1, <2>2
<1>7. \A p \in Nat : PageOf(p * PG_SIZE) = p
  <2> TAKE p \in Nat
  <2>1. 0 \in 0 .. PG_SIZE - 1 /\ p * PG_SIZE + 0 = p * PG_SIZE
    BY ExecNumbers
  <2> QED BY <2>1, PageOfByte, Zenon
<1>8. StackTop = m /\ StackBottom = k
  BY <1>1, <1>3, <1>6, <1>7, Zenon DEF StackTop, StackBottom
<1>9. PageOf(USER_STACK_TOP - 1) = m - 1
  <2>1. PICK l \in Nat : m = l + 1
    BY <1>5
  <2>2. t = l * b + b
    BY <1>3, <2>1
  <2>3. t - 1 = l * b + (b - 1) /\ b - 1 \in 0 .. b - 1
    <3>1. l * b \in Nat
      BY PageTimes, <1>1, Zenon
    <3> QED BY <2>2, <3>1
  <2> QED BY <1>1, <2>1, <2>3, PageOfByte
<1>10. StackPages = StackBottom .. StackTop - 1
  BY <1>8, <1>9, Zenon DEF StackPages, StackBottom
<1>11. ASSUME NEW va \in Nat, va < USER_STACK_TOP - USER_STACK_SIZE PROVE PageOf(va) < StackBottom
  <2>1. ~(k * PG_SIZE <= va)
    BY <1>1, <1>6, <1>11, PageTimes
  <2> QED BY <1>8, <2>1, PageBelow
<1>12. ASSUME NEW va \in Nat, va >= USER_STACK_TOP PROVE PageOf(va) >= StackTop
  <2>1. m * PG_SIZE <= va
    BY <1>1, <1>3, <1>12, Zenon
  <2> QED BY <1>8, <2>1, PageBelow, Zenon
<1> QED BY <1>5, <1>6, <1>8, <1>10, <1>11, <1>12

(***************************************************************************)
(* Entries of the three architectures                                      *)
(***************************************************************************)

LEMMA EntryRights ==
  ASSUME NEW arch \in Arches, NEW pa, NEW w \in BOOLEAN, NEW x \in BOOLEAN, NEW e,
         e = make_pte_page(arch, pa, user_page_perm(w, x))
  PROVE  (pte(arch, e).write <=> w) /\ (pte(arch, e).exec <=> x) /\ pte(arch, e).user
<1>1. /\ "WRITE" \in user_page_perm(w, x) <=> w
      /\ "NOEXEC" \in user_page_perm(w, x) <=> ~x
      /\ "USER" \in user_page_perm(w, x) /\ "NOCACHE" \notin user_page_perm(w, x)
  BY Zenon DEF user_page_perm
<1>2. PICK perm : perm = user_page_perm(w, x)
  BY Zenon
<1>3. CASE arch = "x86"
  <2>1. e = x86_make_pte_page(pa, perm) /\ pte(arch, e) = x86_pte(e)
    BY <1>2, <1>3, Zenon DEF make_pte_page, pte
  <2>2. /\ "W" \in e.bits <=> w
        /\ "NX" \in e.bits <=> ~x
        /\ "P" \in e.bits /\ "U" \in e.bits
    BY <1>1, <1>2, <2>1 DEF x86_make_pte_page, On
  <2>3. x86_pte(e).write = ("W" \in e.bits)
    BY Zenon DEF x86_pte
  <2>4. x86_pte(e).exec = ("NX" \notin e.bits)
    BY Zenon DEF x86_pte
  <2>5. x86_pte(e).user = ("P" \in e.bits /\ "U" \in e.bits)
    BY Zenon DEF x86_pte
  <2> QED BY <2>1, <2>2, <2>3, <2>4, <2>5, Zenon
<1>4. CASE arch = "riscv64"
  <2>1. e = riscv64_make_pte_page(pa, perm) /\ pte(arch, e) = riscv64_pte(e)
    BY <1>2, <1>4, Zenon DEF make_pte_page, pte
  <2>2. /\ "W" \in e.bits <=> w
        /\ "X" \in e.bits <=> x
        /\ {"V", "U", "R"} \subseteq e.bits
    BY <1>1, <1>2, <2>1 DEF riscv64_make_pte_page, On
  <2>3. riscv64_pte(e).write = ("W" \in e.bits)
    BY Zenon DEF riscv64_pte
  <2>4. riscv64_pte(e).exec = ("X" \in e.bits)
    BY Zenon DEF riscv64_pte
  <2>5. riscv64_pte(e).user = ({"V", "U", "R"} \subseteq e.bits)
    BY Zenon DEF riscv64_pte
  <2> QED BY <2>1, <2>2, <2>3, <2>4, <2>5, Zenon
<1>5. CASE arch = "aarch64"
  <2>1. e = aarch64_make_pte_page(pa, perm) /\ pte(arch, e) = aarch64_pte(e)
    BY <1>2, <1>5, Zenon DEF make_pte_page, pte
  <2>2. /\ "RO" \in e.bits <=> ~w
        /\ "UXN" \in e.bits <=> ~x
        /\ {"VALID", "EL0"} \subseteq e.bits
    BY <1>1, <1>2, <2>1 DEF aarch64_make_pte_page, On
  <2>3. aarch64_pte(e).write = ("RO" \notin e.bits)
    BY Zenon DEF aarch64_pte
  <2>4. aarch64_pte(e).exec = ("UXN" \notin e.bits)
    BY Zenon DEF aarch64_pte
  <2>5. aarch64_pte(e).user = ({"VALID", "EL0"} \subseteq e.bits)
    BY Zenon DEF aarch64_pte
  <2> QED BY <2>1, <2>2, <2>3, <2>4, <2>5, Zenon
<1> QED BY <1>3, <1>4, <1>5, Zenon DEF Arches

\* A page that two segments share gets the rights of both.
LEMMA MergedRights ==
  ASSUME NEW arch \in Arches, NEW pa, NEW w \in BOOLEAN, NEW x \in BOOLEAN, NEW v \in BOOLEAN, NEW y \in BOOLEAN
  PROVE  merge_user_page_perm(arch, make_pte_page(arch, pa, user_page_perm(w, x)), user_page_perm(v, y))
           = user_page_perm(w \/ v, x \/ y)
<1>1. PICK e : e = make_pte_page(arch, pa, user_page_perm(w, x))
  BY Zenon
<1>2. (pte(arch, e).write <=> w) /\ (pte(arch, e).exec <=> x)
  BY <1>1, EntryRights, Zenon
<1>3. ("WRITE" \in user_page_perm(v, y) <=> v) /\ ("NOEXEC" \in user_page_perm(v, y) <=> ~y)
  BY Zenon DEF user_page_perm
<1>4. /\ pte(arch, e).write \/ "WRITE" \in user_page_perm(v, y) <=> w \/ v
      /\ pte(arch, e).exec \/ "NOEXEC" \notin user_page_perm(v, y) <=> x \/ y
  BY <1>2, <1>3, Zenon
<1> QED BY <1>1, <1>4, Zenon DEF merge_user_page_perm, user_page_perm

(***************************************************************************)
(* What validate says of a segment                                         *)
(***************************************************************************)

LEMMA HeaderIs ==
  ASSUME ExecTypeOK, NEW i \in 1 .. e_phnum
  PROVE  /\ elf.headers[i].va \in Nat /\ elf.headers[i].memsz \in Nat /\ elf.headers[i].filesz \in Nat
         /\ elf.headers[i].offset \in Nat /\ elf.headers[i].flags \subseteq {"R", "W", "X"}
<1>1. elf.headers[i] \in Segments
  BY Zenon DEF ExecTypeOK
<1>2. elf.headers[i] \in ProgramHeaders
  BY <1>1, ExecAssumption, Zenon
<1> QED BY <1>2, Zenon DEF ProgramHeaders

LEMMA SegmentIs ==
  ASSUME ExecTypeOK, validate, NEW i \in Loaded
  PROVE  /\ i \in 1 .. e_phnum
         /\ elf.headers[i].va \in Nat /\ elf.headers[i].filesz \in Nat /\ elf.headers[i].offset \in Nat
         /\ Ends(elf.headers[i]) \in Nat /\ Ends(elf.headers[i]) - 1 \in Nat
         /\ elf.headers[i].va <= Ends(elf.headers[i]) - 1
         /\ elf.headers[i].va + elf.headers[i].filesz <= Ends(elf.headers[i])
         /\ Ends(elf.headers[i]) <= USER_SPACE_TOP
         /\ Ends(elf.headers[i]) <= USER_STACK_TOP - USER_STACK_SIZE \/ elf.headers[i].va >= USER_STACK_TOP
<1>1. i \in 1 .. e_phnum /\ Loads(elf.headers[i])
  BY Zenon DEF Loaded
<1>2. segment_valid(elf.headers[i])
  BY <1>1, Zenon DEF validate
<1>3. PICK h : h = elf.headers[i]
  BY Zenon
<1>4. h.va \in Nat /\ h.memsz \in Nat /\ h.filesz \in Nat /\ h.offset \in Nat
  BY <1>1, <1>3, HeaderIs, Zenon
<1>5. h.load /\ h.memsz # 0
  BY <1>1, <1>3, Zenon DEF Loads
<1>6. /\ h.filesz <= h.memsz /\ h.va < USER_SPACE_TOP /\ h.memsz <= USER_SPACE_TOP - h.va
      /\ Ends(h) <= USER_STACK_TOP - USER_STACK_SIZE \/ h.va >= USER_STACK_TOP
  BY <1>2, <1>3, <1>5, Zenon DEF segment_valid
<1>7. Ends(h) = h.va + h.memsz
  BY Zenon DEF Ends
<1>8. /\ Ends(h) \in Nat /\ Ends(h) - 1 \in Nat /\ h.va <= Ends(h) - 1 /\ h.va + h.filesz <= Ends(h)
      /\ Ends(h) <= USER_SPACE_TOP
  BY <1>4, <1>5, <1>6, <1>7, ExecNumbers
<1> QED BY <1>1, <1>3, <1>4, <1>6, <1>8, Zenon

\* The pages of a segment, none of them the stack's.
LEMMA SegmentPagesIs ==
  ASSUME ExecTypeOK, validate, NEW i \in Loaded
  PROVE  /\ PageOf(elf.headers[i].va) \in Nat /\ PageOf(Ends(elf.headers[i]) - 1) \in Nat
         /\ \A p \in PagesOf(i) : p \in 0 .. USER_SPACE_TOP /\ p \notin StackPages
         /\ \A va \in elf.headers[i].va .. Ends(elf.headers[i]) - 1 : va \in Nat /\ PageOf(va) \in PagesOf(i)
<1>1. PICK a \in Nat, z \in Nat : a = elf.headers[i].va /\ z = Ends(elf.headers[i]) - 1
  BY SegmentIs, Zenon
<1>2. a <= z /\ z < USER_SPACE_TOP /\ (z < USER_STACK_TOP - USER_STACK_SIZE \/ a >= USER_STACK_TOP)
  BY <1>1, SegmentIs, ExecNumbers
<1>3. PICK f \in Nat, l \in Nat : f = PageOf(a) /\ l = PageOf(z)
  BY PageBelow, Zenon
<1>4. PagesOf(i) = f .. l
  BY <1>1, <1>3, Zenon DEF PagesOf
<1>5. l <= z
  <2>1. PICK s \in Nat : s = l * PG_SIZE
    BY PageTimes, Zenon
  <2>2. s <= z
    BY <1>3, <2>1, PageBelow
  <2>3. PICK b \in Nat : PG_SIZE = b + 1
    BY ExecNumbers
  <2>4. s = l * b + l /\ l * b \in Nat
    BY <2>1, <2>3, Z3
  <2> QED BY <2>2, <2>4
<1>6. \A p \in f .. l : p \in 0 .. USER_SPACE_TOP /\ p \notin StackPages
  <2> TAKE p \in f .. l
  <2>1. p \in 0 .. USER_SPACE_TOP
    BY <1>2, <1>5, ExecNumbers
  <2>2. CASE z < USER_STACK_TOP - USER_STACK_SIZE
    <3>1. l < StackBottom
      BY <1>3, <2>2, StackPlace, Zenon
    <3> QED BY <2>1, <3>1, StackPlace
  <2>3. CASE a >= USER_STACK_TOP
    <3>1. f >= StackTop
      BY <1>3, <2>3, StackPlace, Zenon
    <3> QED BY <2>1, <3>1, StackPlace
  <2> QED BY <1>2, <2>1, <2>2, <2>3, Zenon
<1>7. \A va \in a .. z : va \in Nat /\ PageOf(va) \in f .. l
  <2> TAKE va \in a .. z
  <2>1. va \in Nat /\ a <= va /\ va <= z
    OBVIOUS
  <2>2. f <= PageOf(va) /\ PageOf(va) <= l /\ PageOf(va) \in Nat
    BY <1>3, <2>1, PageMonotonic, Zenon
  <2> QED BY <2>1, <2>2
<1> QED BY <1>1, <1>3, <1>4, <1>6, <1>7, Zenon

(***************************************************************************)
(* Bytes                                                                   *)
(***************************************************************************)

\* The next header's file bytes replace those of the headers before it.
LEMMA ByteNext ==
  ASSUME ExecTypeOK, NEW s \in 1 .. e_phnum, NEW va \in Nat, NEW h, h = elf.headers[s]
  PROVE  /\ s \in Loaded /\ va \in h.va .. h.va + h.filesz - 1 =>
              ByteAfter(va, s + 1) = h.offset + va - h.va + 1
         /\ ~(s \in Loaded /\ va \in h.va .. h.va + h.filesz - 1) => ByteAfter(va, s + 1) = ByteAfter(va, s)
<1>0. \A i \in Loaded : i \in Int /\ (i < s + 1 <=> i < s \/ i = s)
  BY DEF Loaded
<1>1. ASSUME s \in Loaded, va \in h.va .. h.va + h.filesz - 1
      PROVE  ByteAfter(va, s + 1) = h.offset + va - h.va + 1
  <2>1. PICK S : S = Sources(va, s + 1)
    BY Zenon
  <2>2. s \in S /\ \A j \in S : j <= s
    BY <1>0, <1>1, <2>1 DEF Sources
  <2>3. \A i \in S : (\A j \in S : j <= i) => i = s
    BY <1>0, <2>1, <2>2 DEF Sources
  <2>4. Latest(S) = s
    BY <2>2, <2>3, Zenon DEF Latest
  <2> QED BY <2>1, <2>2, <2>4, Zenon DEF ByteAfter
<1>2. ASSUME ~(s \in Loaded /\ va \in h.va .. h.va + h.filesz - 1)
      PROVE  ByteAfter(va, s + 1) = ByteAfter(va, s)
  <2>1. Sources(va, s + 1) = Sources(va, s)
    BY <1>0, <1>2, Zenon DEF Sources
  <2> QED BY <2>1, Zenon DEF ByteAfter
<1> QED BY <1>1, <1>2, Zenon

\* A page no earlier segment has touched has no byte yet.
LEMMA FreshPage ==
  ASSUME ExecTypeOK, validate, NEW p \in Nat, NEW s \in Nat,
         \A i \in Loaded : i < s => p \notin PagesOf(i),
         NEW k \in 0 .. PG_SIZE - 1
  PROVE  ByteAfter(p * PG_SIZE + k, s) = 0
<1>1. PICK va \in Nat : va = p * PG_SIZE + k /\ PageOf(va) = p
  BY PageOfByte, Zenon
<1>2. ASSUME NEW i \in Sources(va, s) PROVE FALSE
  <2>1. i \in Loaded /\ i < s /\ va \in elf.headers[i].va .. elf.headers[i].va + elf.headers[i].filesz - 1
    BY <1>2, Zenon DEF Sources
  <2>2. va \in elf.headers[i].va .. Ends(elf.headers[i]) - 1
    BY <2>1, SegmentIs
  <2>3. PageOf(va) \in PagesOf(i)
    BY <2>1, <2>2, SegmentPagesIs, Zenon
  <2> QED BY <1>1, <2>1, <2>3, Zenon
<1>3. Sources(va, s) = {}
  BY <1>2, Zenon
<1> QED BY <1>1, <1>3, Zenon DEF ByteAfter

(***************************************************************************)
(* Steps of the load                                                       *)
(***************************************************************************)

LEMMA SameFile ==
  ASSUME UNCHANGED elf
  PROVE  /\ validate' <=> validate
         /\ Loaded' = Loaded
         /\ \A i : PagesOf(i)' = PagesOf(i)
         /\ \A va, s : ByteAfter(va, s)' = ByteAfter(va, s)
<1>1. validate' <=> validate
  BY Zenon DEF validate
<1>2. Loaded' = Loaded
  BY Zenon DEF Loaded
<1>3. \A i : PagesOf(i)' = PagesOf(i)
  BY Zenon DEF PagesOf
<1>4. \A va, s : Sources(va, s)' = Sources(va, s)
  BY <1>2, Zenon DEF Sources
<1>5. \A va, s : ByteAfter(va, s)' = ByteAfter(va, s)
  BY <1>4, Zenon DEF ByteAfter
<1> QED BY <1>1, <1>2, <1>3, <1>5, Zenon

\* A page that a step leaves alone.
LEMMA PageKept ==
  ASSUME NEW p, PageOK(p), pages'[p] = pages[p], UNCHANGED <<elf, execArch, seg>>,
         RightsGiven(p)' = RightsGiven(p), (p \in StackMapped)' <=> p \in StackMapped
  PROVE  PageOK(p)'
<1>1. \A va : Sources(va, seg)' = Sources(va, seg)
  BY SameFile, Zenon DEF Sources
<1>2. \A va : ByteAfter(va, seg)' = ByteAfter(va, seg)
  BY <1>1, Zenon DEF ByteAfter
<1> QED BY <1>2, Zenon DEF PageOK

\* A new page, cleared.
LEMMA PageMapped ==
  ASSUME ExecTypeOK, validate, UNCHANGED <<elf, execArch, seg>>, NEW p \in Nat, NEW w \in BOOLEAN, NEW x \in BOOLEAN,
         pages'[p] = [entry |-> make_pte_page(execArch, p, user_page_perm(w, x)),
                      bytes |-> [i \in 0 .. PG_SIZE - 1 |-> 0]],
         \A i \in Loaded : i < seg => p \notin PagesOf(i),
         \/ (p \in StackMapped)' /\ w /\ ~x
         \/ ~(p \in StackMapped)' /\ (w <=> ("W" \in RightsGiven(p))') /\ (x <=> ("X" \in RightsGiven(p))')
  PROVE  PageOK(p)'
<1>1. PICK s \in Nat : s = seg /\ s = seg'
  BY ExecNumbers DEF ExecTypeOK
<1>2. \A i \in 0 .. PG_SIZE - 1 : ByteAfter(p * PG_SIZE + i, s) = 0
  BY <1>1, FreshPage, Zenon
<1>3. \A i \in 0 .. PG_SIZE - 1 : ByteAfter(p * PG_SIZE + i, s)' = 0
  BY <1>2, SameFile, Zenon
<1>4. \A i \in 0 .. PG_SIZE - 1 : ByteAfter(p * PG_SIZE + i, seg)' = 0
  BY <1>1, <1>3, Zenon DEF ByteAfter, Sources
<1>5. /\ DOMAIN pages'[p] = {"entry", "bytes"}
      /\ pages'[p].entry = make_pte_page(execArch', p, user_page_perm(w, x))
      /\ pages'[p].bytes = [i \in 0 .. PG_SIZE - 1 |-> 0]
  OBVIOUS
<1>6. user_page_perm(w, x) = (IF p \in StackMapped THEN user_page_perm(TRUE, FALSE)
                              ELSE user_page_perm("W" \in RightsGiven(p), "X" \in RightsGiven(p)))'
  BY Zenon DEF user_page_perm
<1> QED BY <1>4, <1>5, <1>6, Zenon DEF PageOK

LEMMA GivenStep ==
  ASSUME ExecTypeOK, UNCHANGED <<elf, seg>>, next' = next + 1, seg \in Loaded, next \in PagesOf(seg)
  PROVE  /\ \A p \in Nat : p # next => RightsGiven(p)' = RightsGiven(p)
         /\ \A p \in Nat : p = next => RightsGiven(p)' = RightsGiven(p) \cup Header.flags
         /\ SegmentPages' = SegmentPages \cup {next}
<1>1. PICK s \in Nat, n \in Nat : s = seg /\ n = next /\ s = seg' /\ n + 1 = next'
  BY ExecNumbers DEF ExecTypeOK
<1>2. Loaded' = Loaded /\ \A i : PagesOf(i)' = PagesOf(i)
  BY SameFile, Zenon
<1>3. \A p \in Nat : p # n => Given(p)' = Given(p)
  BY <1>1, <1>2 DEF Given
<1>4. \A p \in Nat : p = n => Given(p)' = Given(p) \cup {s}
  BY <1>1, <1>2 DEF Given, Loaded
<1>5. \A p \in Nat : p # n => RightsGiven(p)' = RightsGiven(p)
  BY <1>3, Zenon DEF RightsGiven, FlagsOf
<1>6. \A p \in Nat : p = n => RightsGiven(p)' = RightsGiven(p) \cup elf.headers[s].flags
  BY <1>4, Zenon DEF RightsGiven, FlagsOf
<1>7. SegmentPages' = SegmentPages \cup {n}
  BY <1>1, <1>3, <1>4, Zenon DEF SegmentPages
<1> QED BY <1>1, <1>5, <1>6, <1>7, Zenon DEF Header

(***************************************************************************)
(* The actions                                                             *)
(***************************************************************************)

LEMMA StartInv ==
  ASSUME ExecInv, OpenFile \/ ReadFile \/ NewMemory
  PROVE  ExecInv'
<1>1. /\ execPc \in {"open", "read", "desc", "root"} /\ execPc' \in {"read", "desc", "root", "validate", "failed"}
      /\ UNCHANGED <<execArch, elf, seg, next, pages, guard, child>>
  BY Zenon DEF OpenFile, ReadFile, NewMemory
<1>2. ExecTypeOK'
  BY <1>1, Zenon DEF ExecInv, ExecTypeOK, ExecStages
<1>3. ImageOK'
  BY <1>1, Zenon DEF ImageOK, Checked
<1>4. pages = <<>> /\ seg = 1 /\ PageFrames = {} /\ PageFrames' = {}
  BY <1>1 DEF ExecInv, FramesHeld, PageFrames
<1>5. FramesHeld'
  BY <1>1, <1>4, Zenon DEF ExecInv, FramesHeld, OpenFile, ReadFile, NewMemory
<1>6. HandoffOK'
  BY <1>1, Zenon DEF ExecInv, HandoffOK
<1> QED BY <1>2, <1>3, <1>5, <1>6, Zenon DEF ExecInv

LEMMA ValidateInv == ASSUME ExecInv, Validate PROVE ExecInv'
<1>1. /\ execPc = "validate" /\ execPc' = (IF validate THEN "load" ELSE "failed") /\ next' = FirstPage(1)
      /\ UNCHANGED <<execArch, elf, seg, pages, frames, guard, child>>
      /\ ExecTypeOK /\ pages = <<>> /\ seg = 1 /\ frames = {Buffer, Desc, RootTable} \cup PageFrames
  BY Zenon DEF Validate, ExecInv, FramesHeld
<1>2. FirstPage(1) \in Nat
  BY <1>1, HeaderIs, StackPlace, PageBelow, Zenon DEF FirstPage, StackBottom
<1>3. ExecTypeOK'
  BY <1>1, <1>2, Zenon DEF ExecTypeOK, ExecStages
<1>4. FramesHeld'
  BY <1>1, Zenon DEF FramesHeld, PageFrames
<1>5. HandoffOK'
  BY <1>1, Zenon DEF ExecInv, HandoffOK
<1>6. ASSUME validate PROVE ImageOK'
  <2>1. 1 \in 1 .. e_phnum
    BY <1>6, ExecNumbers DEF validate
  <2>2. next' = PageOf(elf.headers[1].va)
    BY <1>1, <2>1, Zenon DEF FirstPage
  <2>3. Loaded' = Loaded /\ (\A i : PagesOf(i)' = PagesOf(i)) /\ validate'
    BY <1>1, <1>6, SameFile, Zenon
  <2>4. \A p \in Nat : Given(p)' = {}
    <3> SUFFICES ASSUME NEW p \in Nat, NEW i \in Given(p)' PROVE FALSE
      BY Zenon
    <3>1. i \in Loaded /\ p \in PagesOf(i) /\ (i < seg' \/ (i = seg' /\ p < next'))
      BY <2>3, Zenon DEF Given
    <3>2. i = 1
      BY <1>1, <3>1 DEF Loaded
    <3>3. PageOf(elf.headers[1].va) \in Nat /\ p >= PageOf(elf.headers[1].va)
      BY <1>1, <1>6, <3>1, <3>2, SegmentPagesIs DEF PagesOf
    <3> QED BY <1>1, <2>2, <3>1, <3>2, <3>3
  <2>5. SegmentPages' = {} /\ StackMapped' = {} /\ DOMAIN pages' = {}
    BY <1>1, <1>6, <2>4 DEF SegmentPages, StackMapped, Built
  <2>6. ASSUME Loads(Header)' PROVE (PageOf(Header.va) <= next /\ next <= PageOf(Ends(Header) - 1) + 1)'
    <3>1. 1 \in Loaded /\ Header' = elf.headers[1]
      BY <1>1, <2>1, <2>6, Zenon DEF Header, Loaded
    <3>2. PICK a \in Nat, z \in Nat : a = elf.headers[1].va /\ z = Ends(elf.headers[1]) - 1 /\ a <= z
      BY <1>1, <1>6, <3>1, SegmentIs, Zenon
    <3>3. PageOf(a) \in Nat /\ PageOf(z) \in Nat /\ PageOf(a) <= PageOf(z)
      BY <3>2, PageMonotonic, Zenon
    <3> QED BY <2>2, <3>1, <3>2, <3>3
  <2> QED BY <1>1, <1>6, <2>1, <2>3, <2>5, <2>6, Zenon DEF ImageOK, Built, Whole
<1>7. ASSUME ~validate PROVE ImageOK'
  BY <1>1, <1>7, Zenon DEF ImageOK, Checked
<1> QED BY <1>3, <1>4, <1>5, <1>6, <1>7, Zenon DEF ExecInv

\* What MapZeroed leaves of the frames and of the handoff.
LEMMA MapKeeps ==
  ASSUME ExecInv, execPc \in {"load", "stack"}, UNCHANGED <<guard, child>>,
         \/ /\ execPc' = execPc /\ frames' = frames \cup {UserPage(next)} /\ DOMAIN pages' = DOMAIN pages \cup {next}
         \/ /\ execPc' \in {execPc, "failed", "fork"} /\ frames' = frames /\ DOMAIN pages' = DOMAIN pages
  PROVE  FramesHeld' /\ HandoffOK'
<1>1. frames = {Buffer, Desc, RootTable} \cup PageFrames
  BY Zenon DEF ExecInv, FramesHeld
<1>2. frames' = {Buffer, Desc, RootTable} \cup PageFrames'
  BY <1>1, Zenon DEF PageFrames
<1>3. FramesHeld'
  BY <1>2, Zenon DEF FramesHeld
<1>4. HandoffOK'
  BY Zenon DEF ExecInv, HandoffOK
<1> QED BY <1>3, <1>4, Zenon

LEMMA LoadPageInv == ASSUME ExecInv, LoadPage PROVE ExecInv'
<1>0. /\ execPc = "load" /\ Loads(Header) /\ next * PG_SIZE < Ends(Header)
      /\ UNCHANGED <<execArch, elf, seg, guard, child>>
      /\ ExecTypeOK /\ ImageOK /\ validate /\ seg \in 1 .. e_phnum
      /\ DOMAIN pages = SegmentPages \cup StackMapped /\ (\A p \in DOMAIN pages : PageOK(p))
      /\ PageOf(Header.va) <= next /\ StackMapped = {}
  BY Zenon DEF LoadPage, ExecInv, ImageOK, Checked, Built, StackMapped
<1>1. PICK s \in 1 .. e_phnum, n \in Nat, h \in Segments : s = seg /\ n = next /\ h = Header /\ h = elf.headers[s]
  BY <1>0, Zenon DEF ExecTypeOK, Header
<1>2. s \in Loaded
  BY <1>0, <1>1, Zenon DEF Loaded
<1>3. n \in PagesOf(s)
  <2>1. PICK z \in Nat, m \in Nat : z = Ends(h) - 1 /\ m = n * PG_SIZE
    BY <1>0, <1>1, <1>2, SegmentIs, PageTimes, Zenon
  <2>2. m <= z
    BY <1>0, <1>1, <1>2, <2>1, SegmentIs
  <2>3. n <= PageOf(z) /\ PageOf(z) \in Nat
    BY <2>1, <2>2, PageBelow, Zenon
  <2>4. PageOf(h.va) \in Nat /\ PageOf(h.va) <= n
    BY <1>0, <1>1, <1>2, SegmentPagesIs, Zenon
  <2> QED BY <1>1, <2>1, <2>3, <2>4 DEF PagesOf
<1>4. CASE execPc' = "failed" /\ UNCHANGED <<pages, frames, next>>
  <2>1. ExecTypeOK' /\ ImageOK'
    BY <1>0, <1>4, Zenon DEF ExecTypeOK, ExecStages, ImageOK, Checked
  <2> QED BY <1>0, <1>4, <2>1, MapKeeps, Zenon DEF ExecInv
<1>5. ASSUME next' = next + 1, execPc' = execPc, DOMAIN pages' = DOMAIN pages \cup {n},
             \A p \in DOMAIN pages : p # n => pages'[p] = pages[p],
             PageOK(n)'
      PROVE  ExecTypeOK' /\ ImageOK'
  <2>1. ExecTypeOK'
    BY <1>0, <1>1, <1>5 DEF ExecTypeOK
  <2>2. /\ \A p \in Nat : p # next => RightsGiven(p)' = RightsGiven(p)
        /\ SegmentPages' = SegmentPages \cup {next}
    BY <1>0, <1>1, <1>2, <1>3, <1>5, GivenStep, Zenon
  <2>3. StackMapped' = {}
    BY <1>0, <1>5, Zenon DEF StackMapped, Built
  <2>4. \A p \in DOMAIN pages' : PageOK(p)'
    <3> TAKE p \in DOMAIN pages'
    <3>1. CASE p = n
      BY <1>5, <3>1, Zenon
    <3>2. CASE p # n
      <4>1. p \in DOMAIN pages /\ p \in Nat
        BY <1>0, <1>5, <3>2, Zenon DEF ExecTypeOK
      <4>2. RightsGiven(p)' = RightsGiven(p) /\ pages'[p] = pages[p] /\ PageOK(p)
        BY <1>0, <1>1, <1>5, <2>2, <3>2, <4>1, Zenon
      <4>3. (p \in StackMapped)' <=> p \in StackMapped
        BY <1>0, <2>3, Zenon
      <4> QED BY <1>0, <4>2, <4>3, PageKept, Zenon
    <3> QED BY <3>1, <3>2, Zenon
  <2>5. next' <= PageOf(Ends(h) - 1) + 1 /\ PageOf(h.va) <= next' /\ Header' = h
    <3>1. PageOf(h.va) \in Nat /\ PageOf(Ends(h) - 1) \in Nat
      BY <1>0, <1>1, <1>2, SegmentPagesIs, Zenon
    <3> QED BY <1>0, <1>1, <1>3, <1>5, <3>1 DEF PagesOf, Header
  <2>6. validate'
    BY <1>0, SameFile, Zenon
  <2> QED BY <1>0, <1>1, <1>5, <2>1, <2>2, <2>3, <2>4, <2>5, <2>6, Zenon DEF ImageOK, Built, Whole
<1>6. CASE /\ next \in DOMAIN pages /\ next' = next + 1 /\ UNCHANGED <<execPc, frames>>
           /\ pages' = [pages EXCEPT ![next].entry = MergePage(Header)]
  <2>1. PICK e : e = MergePage(Header)
    BY Zenon
  <2>2. /\ DOMAIN pages' = DOMAIN pages
        /\ pages'[n] = [pages[n] EXCEPT !.entry = e]
        /\ \A p \in DOMAIN pages : p # n => pages'[p] = pages[p]
    BY <1>1, <1>6, <2>1, Zenon
  <2>3. PICK w \in BOOLEAN, x \in BOOLEAN : (w <=> "W" \in RightsGiven(n)) /\ (x <=> "X" \in RightsGiven(n))
    BY Zenon
  <2>4. /\ DOMAIN pages[n] = {"entry", "bytes"} /\ DOMAIN pages[n].bytes = 0 .. PG_SIZE - 1
        /\ pages[n].entry = make_pte_page(execArch, n, user_page_perm(w, x))
        /\ \A i \in 0 .. PG_SIZE - 1 : pages[n].bytes[i] = ByteAfter(n * PG_SIZE + i, s)
    <3>1. PageOK(n) /\ n \notin StackMapped
      BY <1>0, <1>1, <1>6, Zenon
    <3>2. user_page_perm("W" \in RightsGiven(n), "X" \in RightsGiven(n)) = user_page_perm(w, x)
      BY <2>3, Zenon DEF user_page_perm
    <3> QED BY <1>1, <3>1, <3>2, Zenon DEF PageOK
  <2>5. PICK v \in BOOLEAN, y \in BOOLEAN : (v <=> "W" \in h.flags) /\ (y <=> "X" \in h.flags)
    BY Zenon
  <2>6. e = make_pte_page(execArch, n, user_page_perm(w \/ v, x \/ y))
    <3>1. SegmentPerm(h) = user_page_perm(v, y)
      BY <2>5, Zenon DEF SegmentPerm, user_page_perm
    <3>2. PICK a \in Arches : a = execArch
      BY <1>0, Zenon DEF ExecTypeOK
    <3>3. merge_user_page_perm(a, make_pte_page(a, n, user_page_perm(w, x)), user_page_perm(v, y))
            = user_page_perm(w \/ v, x \/ y)
      BY MergedRights
    <3> QED BY <1>1, <2>1, <2>4, <3>1, <3>2, <3>3, Zenon DEF MergePage
  <2>7. ("W" \in RightsGiven(n))' <=> w \/ v
    BY <1>0, <1>1, <1>2, <1>3, <1>6, <2>3, <2>5, GivenStep, Zenon
  <2>8. ("X" \in RightsGiven(n))' <=> x \/ y
    BY <1>0, <1>1, <1>2, <1>3, <1>6, <2>3, <2>5, GivenStep, Zenon
  <2>9. (user_page_perm("W" \in RightsGiven(n), "X" \in RightsGiven(n)))' = user_page_perm(w \/ v, x \/ y)
    BY <2>7, <2>8, Zenon DEF user_page_perm
  <2>10. /\ DOMAIN pages'[n] = {"entry", "bytes"} /\ pages'[n].entry = e /\ pages'[n].bytes = pages[n].bytes
    BY <2>2, <2>4, Zenon
  <2>11. \A i \in 0 .. PG_SIZE - 1 : ByteAfter(n * PG_SIZE + i, seg)' = ByteAfter(n * PG_SIZE + i, s)
    <3>1. \A va : Sources(va, seg)' = Sources(va, s)
      BY <1>0, <1>1, SameFile, Zenon DEF Sources
    <3> QED BY <1>0, <3>1, Zenon DEF ByteAfter
  <2>12. ~(n \in StackMapped)'
    BY <1>0, <1>6, Zenon DEF StackMapped, Built
  <2>13. PageOK(n)'
    BY <1>0, <2>4, <2>6, <2>9, <2>10, <2>11, <2>12, Zenon DEF PageOK
  <2>14. DOMAIN pages' = DOMAIN pages \cup {n}
    BY <1>1, <1>6, <2>2, Zenon
  <2>15. ExecTypeOK' /\ ImageOK'
    BY <1>5, <1>6, <2>2, <2>13, <2>14, Zenon
  <2>16. FramesHeld' /\ HandoffOK'
    BY <1>0, <1>6, <2>2, MapKeeps, Zenon
  <2> QED BY <2>15, <2>16, Zenon DEF ExecInv
<1>7. CASE /\ next \notin DOMAIN pages /\ next' = next + 1 /\ UNCHANGED execPc
           /\ frames' = frames \cup {UserPage(next)}
           /\ pages' = Put(pages, next, [entry |-> make_pte_page(execArch, next, SegmentPerm(Header)),
                                         bytes |-> [i \in 0 .. PG_SIZE - 1 |-> 0]])
  <2>1. PICK v \in BOOLEAN, y \in BOOLEAN : (v <=> "W" \in h.flags) /\ (y <=> "X" \in h.flags)
    BY Zenon
  <2>2. SegmentPerm(h) = user_page_perm(v, y)
    BY <2>1, Zenon DEF SegmentPerm, user_page_perm
  <2>3. /\ DOMAIN pages' = DOMAIN pages \cup {n}
        /\ pages'[n] = [entry |-> make_pte_page(execArch, n, user_page_perm(v, y)),
                        bytes |-> [i \in 0 .. PG_SIZE - 1 |-> 0]]
        /\ \A p \in DOMAIN pages : p # n => pages'[p] = pages[p]
    <3>1. PICK r : r = [entry |-> make_pte_page(execArch, n, user_page_perm(v, y)),
                        bytes |-> [i \in 0 .. PG_SIZE - 1 |-> 0]]
      BY Zenon
    <3>2. pages' = Put(pages, n, r)
      BY <1>1, <1>7, <2>2, <3>1, Zenon
    <3>3. PICK f : f = pages
      BY Zenon
    <3>4. DOMAIN pages' = DOMAIN f \cup {n} /\ pages'[n] = r /\ \A p \in DOMAIN f : p # n => pages'[p] = f[p]
      BY <3>2, <3>3, Zenon DEF Put
    <3> QED BY <3>1, <3>3, <3>4, Zenon
  <2>4. Given(n) = {}
    BY <1>0, <1>1, <1>7, Zenon DEF SegmentPages
  <2>5. RightsGiven(n) = {}
    BY <2>4, Zenon DEF RightsGiven, FlagsOf
  <2>6. \A i \in Loaded : i < seg => n \notin PagesOf(i)
    BY <2>4, Zenon DEF Given
  <2>7. RightsGiven(n)' = RightsGiven(n) \cup h.flags
    BY <1>0, <1>1, <1>2, <1>3, <1>7, GivenStep, Zenon
  <2>8. (v <=> ("W" \in RightsGiven(n))') /\ (y <=> ("X" \in RightsGiven(n))')
    BY <2>1, <2>5, <2>7, Zenon
  <2>9. ~(n \in StackMapped)'
    BY <1>0, <1>7, Zenon DEF StackMapped, Built
  <2>10. PageOK(n)'
    BY <1>0, <2>3, <2>6, <2>8, <2>9, PageMapped, Zenon
  <2>11. ExecTypeOK' /\ ImageOK'
    BY <1>5, <1>7, <2>3, <2>10, Zenon
  <2>12. FramesHeld' /\ HandoffOK'
    BY <1>0, <1>1, <1>7, <2>3, MapKeeps, Zenon
  <2> QED BY <2>11, <2>12, Zenon DEF ExecInv
<1> QED BY <1>0, <1>4, <1>6, <1>7, Zenon DEF LoadPage, MapZeroed

LEMMA CopySegmentInv == ASSUME ExecInv, CopySegment PROVE ExecInv'
<1>0. /\ execPc = "load" /\ (~Loads(Header) \/ next * PG_SIZE >= Ends(Header))
      /\ UNCHANGED <<execArch, elf, frames, guard, child>>
      /\ seg' = seg + 1 /\ next' = FirstPage(seg + 1)
      /\ execPc' = (IF seg < e_phnum THEN execPc ELSE "stack")
      /\ ExecTypeOK /\ ImageOK /\ validate /\ seg \in 1 .. e_phnum
      /\ DOMAIN pages = SegmentPages \cup StackMapped /\ (\A p \in DOMAIN pages : PageOK(p))
      /\ StackMapped = {}
  BY Zenon DEF CopySegment, ExecInv, ImageOK, Checked, Built, StackMapped
<1>1. PICK s \in 1 .. e_phnum, n \in Nat, h \in Segments : s = seg /\ n = next /\ h = Header /\ h = elf.headers[s]
  BY <1>0, Zenon DEF ExecTypeOK, Header
<1>a. s \in Nat /\ s + 1 \in Nat /\ seg' = s + 1 /\ e_phnum \in Nat
  BY <1>0, <1>1, ExecNumbers
<1>b. s \in Loaded <=> Loads(h)
  BY <1>1, Zenon DEF Loaded
<1> DEFINE From(va) == IF Loads(h) /\ va \in h.va .. h.va + h.filesz - 1 THEN h.offset + va - h.va + 1 ELSE 0
<1>2. pages' = [p \in DOMAIN pages |->
                 [pages[p] EXCEPT !.bytes = [i \in 0 .. PG_SIZE - 1 |->
                    IF From(p * PG_SIZE + i) # 0 THEN From(p * PG_SIZE + i) ELSE @[i]]]]
  BY <1>1, Zenon DEF CopySegment
<1>3. ASSUME NEW va \in Nat PROVE ByteAfter(va, s + 1) = (IF From(va) # 0 THEN From(va) ELSE ByteAfter(va, s))
  <2>1. CASE Loads(h) /\ va \in h.va .. h.va + h.filesz - 1
    <3>1. ByteAfter(va, s + 1) = h.offset + va - h.va + 1
      BY <1>0, <1>1, <1>b, <2>1, ByteNext
    <3>2. h.offset \in Nat /\ h.va \in Nat /\ h.filesz \in Nat
      BY <1>0, <1>1, HeaderIs, Zenon
    <3>3. From(va) = h.offset + va - h.va + 1 /\ From(va) # 0
      BY <2>1, <3>2
    <3> QED BY <3>1, <3>3, Zenon
  <2>2. CASE ~(Loads(h) /\ va \in h.va .. h.va + h.filesz - 1)
    <3>1. ByteAfter(va, s + 1) = ByteAfter(va, s)
      BY <1>0, <1>1, <1>b, <2>2, ByteNext, Zenon
    <3>2. From(va) = 0
      BY <2>2, Zenon
    <3> QED BY <3>1, <3>2, Zenon
  <2> QED BY <2>1, <2>2, Zenon
<1>4. \A p \in Nat : Given(p)' = Given(p)
  <2> TAKE p \in Nat
  <2>1. Loaded' = Loaded /\ PagesOf(s)' = PagesOf(s) /\ (\A i : PagesOf(i)' = PagesOf(i))
    BY <1>0, SameFile, Zenon
  <2>2. ASSUME s \in Loaded, p \in PagesOf(s) PROVE p < n
    <3>1. PICK z \in Nat, m \in Nat : z = Ends(h) - 1 /\ m = n * PG_SIZE
      BY <1>0, <1>1, <2>2, SegmentIs, PageTimes, Zenon
    <3>2. ~(m <= z)
      BY <1>0, <1>1, <1>b, <2>2, <3>1, SegmentIs
    <3>3. ~(n <= PageOf(z)) /\ PageOf(z) \in Nat
      BY <3>1, <3>2, PageBelow, Zenon
    <3>4. p <= PageOf(z)
      BY <1>1, <2>2, <3>1 DEF PagesOf
    <3> QED BY <3>3, <3>4
  <2>3. ASSUME s + 1 \in Loaded, p \in PagesOf(s + 1) PROVE ~(p < next')
    <3>1. s + 1 \in 1 .. e_phnum
      BY <2>3, Zenon DEF Loaded
    <3>2. next' = PageOf(elf.headers[s + 1].va)
      BY <1>0, <1>1, <3>1, Zenon DEF FirstPage
    <3>3. PageOf(elf.headers[s + 1].va) \in Nat
      BY <1>0, <2>3, SegmentPagesIs, Zenon
    <3> QED BY <2>3, <3>2, <3>3 DEF PagesOf
  <2>4. \A i \in Loaded : i \in Nat
    BY DEF Loaded
  <2>5. \A i \in Loaded : p \in PagesOf(i) =>
          ((i < s + 1 \/ (i = s + 1 /\ p < next')) <=> (i < s \/ (i = s /\ p < n)))
    BY <1>a, <2>2, <2>3, <2>4
  <2> QED BY <1>1, <1>a, <2>1, <2>5, Zenon DEF Given
<1>5. SegmentPages' = SegmentPages /\ \A p \in Nat : RightsGiven(p)' = RightsGiven(p)
  <2>1. SegmentPages' = SegmentPages
    BY <1>4, Zenon DEF SegmentPages
  <2>2. \A p \in Nat : RightsGiven(p)' = RightsGiven(p)
    BY <1>0, <1>4, Zenon DEF RightsGiven, FlagsOf
  <2> QED BY <2>1, <2>2, Zenon
<1>6. next' \in Nat /\ (~(seg < e_phnum) => next' = StackBottom)
  <2>1. ASSUME seg < e_phnum PROVE next' \in Nat
    <3>1. s + 1 \in 1 .. e_phnum
      BY <1>1, <1>a, <2>1
    <3>2. next' = PageOf(elf.headers[s + 1].va) /\ elf.headers[s + 1].va \in Nat
      BY <1>0, <1>1, <3>1, HeaderIs, Zenon DEF FirstPage
    <3> QED BY <3>2, PageBelow, Zenon
  <2>2. ASSUME ~(seg < e_phnum) PROVE next' = StackBottom
    <3>1. s + 1 \notin 1 .. e_phnum
      BY <1>1, <1>a, <2>2
    <3> QED BY <1>0, <1>1, <3>1, Zenon DEF FirstPage, StackBottom
  <2> QED BY <2>1, <2>2, StackPlace, Zenon
<1>7. StackMapped' = {}
  BY <1>0, <1>6, StackPlace DEF StackMapped, Built
<1>8. ASSUME NEW p \in DOMAIN pages PROVE PageOK(p)'
  <2>1. PageOK(p) /\ p \in Nat
    BY <1>0, <1>8, Zenon DEF ExecTypeOK
  <2>2. /\ DOMAIN pages'[p] = {"entry", "bytes"} /\ pages'[p].entry = pages[p].entry
        /\ pages'[p].bytes = [i \in 0 .. PG_SIZE - 1 |->
             IF From(p * PG_SIZE + i) # 0 THEN From(p * PG_SIZE + i) ELSE pages[p].bytes[i]]
    <3>1. PICK r, f : r = pages[p] /\ f = [i \in 0 .. PG_SIZE - 1 |->
             IF From(p * PG_SIZE + i) # 0 THEN From(p * PG_SIZE + i) ELSE pages[p].bytes[i]]
      BY Zenon
    <3>2. pages'[p] = [r EXCEPT !.bytes = f]
      BY <1>2, <3>1, Zenon
    <3>3. DOMAIN r = {"entry", "bytes"}
      BY <2>1, <3>1, Zenon DEF PageOK
    <3> QED BY <3>1, <3>2, <3>3, Zenon
  <2>3. ASSUME NEW i \in 0 .. PG_SIZE - 1 PROVE pages'[p].bytes[i] = ByteAfter(p * PG_SIZE + i, seg)'
    <3>1. PICK va \in Nat : va = p * PG_SIZE + i
      BY <2>1, PageOfByte, Zenon
    <3>2. pages'[p].bytes[i] = (IF From(va) # 0 THEN From(va) ELSE ByteAfter(va, s))
      BY <1>1, <2>1, <2>2, <3>1, Zenon DEF PageOK
    <3>3. ByteAfter(va, s + 1)' = ByteAfter(va, s + 1)
      BY <1>0, SameFile, Zenon
    <3>4. ByteAfter(va, seg)' = ByteAfter(va, s + 1)'
      BY <1>a, Zenon DEF ByteAfter, Sources
    <3> QED BY <1>3, <3>1, <3>2, <3>3, <3>4, Zenon
  <2>4. RightsGiven(p)' = RightsGiven(p) /\ p \notin StackMapped /\ ~(p \in StackMapped)'
    BY <1>0, <1>5, <1>7, <2>1, Zenon
  <2>5. DOMAIN pages'[p].bytes = 0 .. PG_SIZE - 1
    BY <2>2, Zenon
  <2> QED BY <1>0, <2>1, <2>2, <2>3, <2>4, <2>5, Zenon DEF PageOK
<1>9. DOMAIN pages' = DOMAIN pages
  BY <1>2, Zenon
<1>10. ExecTypeOK'
  BY <1>0, <1>1, <1>a, <1>6, <1>9 DEF ExecTypeOK, ExecStages
<1>11. ASSUME execPc' = "load", Loads(Header)' PROVE (PageOf(Header.va) <= next /\ next <= PageOf(Ends(Header) - 1) + 1)'
  <2>1. s + 1 \in 1 .. e_phnum
    BY <1>0, <1>1, <1>a, <1>11
  <2>2. s + 1 \in Loaded /\ Header' = elf.headers[s + 1] /\ next' = PageOf(elf.headers[s + 1].va)
    BY <1>0, <1>1, <1>11, <2>1, Zenon DEF Header, Loaded, FirstPage
  <2>3. PICK a \in Nat, z \in Nat : a = elf.headers[s + 1].va /\ z = Ends(elf.headers[s + 1]) - 1 /\ a <= z
    BY <1>0, <2>2, SegmentIs, Zenon
  <2>4. PageOf(a) \in Nat /\ PageOf(z) \in Nat /\ PageOf(a) <= PageOf(z)
    BY <2>3, PageMonotonic, Zenon
  <2> QED BY <2>2, <2>3, <2>4
<1>12. ImageOK'
  <2>1. validate'
    BY <1>0, SameFile, Zenon
  <2>2. (execPc' = "load" => seg' \in 1 .. e_phnum) /\ execPc' \in {"load", "stack"}
    BY <1>0, <1>1, <1>a
  <2>3. execPc' = "stack" => seg' = e_phnum + 1 /\ next' \in StackBottom .. StackTop
    BY <1>0, <1>1, <1>a, <1>6, StackPlace
  <2>4. DOMAIN pages' = SegmentPages' \cup StackMapped'
    BY <1>0, <1>5, <1>7, <1>9, Zenon
  <2> QED BY <1>8, <1>9, <1>11, <2>1, <2>2, <2>3, <2>4, Zenon DEF ImageOK, Built, Whole
<1>13. FramesHeld'
  <2>1. PageFrames' = PageFrames
    BY <1>9, Zenon DEF PageFrames
  <2> QED BY <1>0, <2>1, Zenon DEF ExecInv, FramesHeld
<1>14. HandoffOK'
  BY <1>0, Zenon DEF ExecInv, HandoffOK
<1> QED BY <1>10, <1>12, <1>13, <1>14, Zenon DEF ExecInv

\* After the last header no step changes what the segments gave.
LEMMA GivenWhole ==
  ASSUME ExecTypeOK, seg = e_phnum + 1, UNCHANGED <<elf, seg>>
  PROVE  /\ \A p : Given(p) = Touch(p) /\ Given(p)' = Given(p)
         /\ \A p : RightsGiven(p)' = RightsGiven(p)
         /\ SegmentPages' = SegmentPages
<1>1. Loaded' = Loaded /\ \A i : PagesOf(i)' = PagesOf(i)
  BY SameFile, Zenon
<1>2. \A i \in Loaded : i \in 1 .. e_phnum /\ i < seg /\ i < seg'
  BY ExecNumbers DEF Loaded
<1>3. \A p : Given(p)' = Given(p)
  BY <1>1, <1>2, Zenon DEF Given
<1>4. \A p : Given(p) = Touch(p)
  BY <1>2, Zenon DEF Given, Touch, PagesOf
<1>5. \A p : RightsGiven(p)' = RightsGiven(p)
  BY <1>3, Zenon DEF RightsGiven, FlagsOf
<1>6. SegmentPages' = SegmentPages
  BY <1>3, Zenon DEF SegmentPages
<1> QED BY <1>3, <1>4, <1>5, <1>6, Zenon

LEMMA setup_user_stackInv == ASSUME ExecInv, setup_user_stack PROVE ExecInv'
<1>0. /\ execPc = "stack" /\ UNCHANGED <<execArch, elf, seg, guard, child>>
      /\ ExecTypeOK /\ ImageOK /\ validate /\ seg = e_phnum + 1 /\ next \in StackBottom .. StackTop
      /\ DOMAIN pages = SegmentPages \cup StackMapped /\ (\A p \in DOMAIN pages : PageOK(p))
      /\ StackMapped = StackBottom .. next - 1
  BY Zenon DEF setup_user_stack, ExecInv, ImageOK, Checked, Built, StackMapped
<1>1. PICK n \in Nat : n = next
  BY <1>0, Zenon DEF ExecTypeOK
<1>2. /\ (\A p : RightsGiven(p)' = RightsGiven(p)) /\ SegmentPages' = SegmentPages /\ validate'
  BY <1>0, GivenWhole, SameFile, Zenon
<1>3. CASE execPc' = "failed" /\ UNCHANGED <<pages, frames, next>>
  <2>1. ExecTypeOK' /\ ImageOK'
    BY <1>0, <1>3, Zenon DEF ExecTypeOK, ExecStages, ImageOK, Checked
  <2> QED BY <1>0, <1>3, <2>1, MapKeeps, Zenon DEF ExecInv
<1>4. CASE next \notin StackPages /\ execPc' = "fork" /\ UNCHANGED <<pages, frames, next>>
  <2>1. ExecTypeOK'
    BY <1>0, <1>4, Zenon DEF ExecTypeOK, ExecStages
  <2>2. next = StackTop
    BY <1>0, <1>4, StackPlace
  <2>3. StackMapped' = StackMapped
    BY <1>0, <1>4, Zenon DEF StackMapped, Built
  <2>4. \A p \in DOMAIN pages' : PageOK(p)'
    BY <1>0, <1>2, <1>4, <2>3, PageKept, Zenon
  <2>5. ImageOK'
    BY <1>0, <1>2, <1>4, <2>2, <2>3, <2>4, Zenon DEF ImageOK
  <2> QED BY <1>0, <1>4, <2>1, <2>5, MapKeeps, Zenon DEF ExecInv
<1>5. CASE /\ next \in StackPages \ DOMAIN pages /\ next' = next + 1 /\ UNCHANGED execPc
           /\ frames' = frames \cup {UserPage(next)}
           /\ pages' = Put(pages, next, [entry |-> make_pte_page(execArch, next, VM_USER_RW),
                                         bytes |-> [i \in 0 .. PG_SIZE - 1 |-> 0]])
  <2>1. VM_USER_RW = user_page_perm(TRUE, FALSE)
    BY Zenon DEF VM_USER_RW, user_page_perm
  <2>2. /\ DOMAIN pages' = DOMAIN pages \cup {n}
        /\ pages'[n] = [entry |-> make_pte_page(execArch, n, user_page_perm(TRUE, FALSE)),
                        bytes |-> [i \in 0 .. PG_SIZE - 1 |-> 0]]
        /\ \A p \in DOMAIN pages : p # n => pages'[p] = pages[p]
    <3>1. PICK r : r = [entry |-> make_pte_page(execArch, n, user_page_perm(TRUE, FALSE)),
                        bytes |-> [i \in 0 .. PG_SIZE - 1 |-> 0]]
      BY Zenon
    <3>2. pages' = Put(pages, n, r)
      BY <1>1, <1>5, <2>1, <3>1, Zenon
    <3>3. PICK f : f = pages
      BY Zenon
    <3>4. DOMAIN pages' = DOMAIN f \cup {n} /\ pages'[n] = r /\ \A p \in DOMAIN f : p # n => pages'[p] = f[p]
      BY <3>2, <3>3, Zenon DEF Put
    <3> QED BY <3>1, <3>3, <3>4, Zenon
  <2>3. n \in StackBottom .. StackTop - 1 /\ next' = n + 1
    BY <1>1, <1>5, StackPlace, Zenon
  <2>4. StackMapped' = StackMapped \cup {n}
    BY <1>0, <1>1, <1>5, <2>3, StackPlace DEF StackMapped, Built
  <2>5. \A i \in Loaded : i < seg => n \notin PagesOf(i)
    BY <1>0, <1>1, <1>5, SegmentPagesIs, Zenon
  <2>6. PageOK(n)'
    <3>1. (n \in StackMapped)'
      BY <2>4, Zenon
    <3> QED BY <1>0, <2>2, <2>5, <3>1, PageMapped, Zenon
  <2>7. ASSUME NEW p \in DOMAIN pages, p # n PROVE PageOK(p)'
    <3>1. (p \in StackMapped)' <=> p \in StackMapped
      BY <2>4, <2>7, Zenon
    <3> QED BY <1>0, <1>2, <2>2, <2>7, <3>1, PageKept, Zenon
  <2>8. \A p \in DOMAIN pages' : PageOK(p)'
    BY <2>2, <2>6, <2>7, Zenon
  <2>9. ExecTypeOK'
    BY <1>0, <1>1, <1>5, <2>2, <2>3 DEF ExecTypeOK
  <2>10. next' \in StackBottom .. StackTop
    BY <2>3, StackPlace
  <2>11. ImageOK'
    BY <1>0, <1>2, <1>5, <2>2, <2>4, <2>8, <2>10, Zenon DEF ImageOK, Whole
  <2>12. FramesHeld' /\ HandoffOK'
    BY <1>0, <1>1, <1>5, <2>2, MapKeeps, Zenon
  <2> QED BY <2>9, <2>11, <2>12, Zenon DEF ExecInv
<1> QED BY <1>0, <1>3, <1>4, <1>5, Zenon DEF setup_user_stack, MapZeroed

\* A step after the stack is built leaves the image as it is.
LEMMA ImageKept ==
  ASSUME ExecTypeOK, ImageOK, execPc \in Whole, execPc' \in Whole,
         UNCHANGED <<execArch, elf, seg, next, pages>>
  PROVE  ExecTypeOK' => ImageOK'
<1>0. /\ validate /\ seg = e_phnum + 1 /\ next \in StackBottom .. StackTop /\ next = StackTop
      /\ DOMAIN pages = SegmentPages \cup StackMapped /\ (\A p \in DOMAIN pages : PageOK(p))
  BY Zenon DEF ImageOK, Checked, Built, Whole
<1>1. /\ (\A p : RightsGiven(p)' = RightsGiven(p)) /\ SegmentPages' = SegmentPages /\ validate'
  BY <1>0, GivenWhole, SameFile, Zenon
<1>2. StackMapped' = StackMapped
  BY Zenon DEF StackMapped, Built, Whole
<1>3. \A p \in DOMAIN pages' : PageOK(p)'
  BY <1>0, <1>1, <1>2, PageKept, Zenon
<1> QED BY <1>0, <1>1, <1>2, <1>3, Zenon DEF ImageOK, Whole

LEMMA HandoffInv ==
  ASSUME ExecInv, ForkTask \/ adopt_memory \/ Return
  PROVE  ExecInv'
<1>1. /\ execPc \in Whole /\ execPc' \in Whole \cup {"failed"} /\ UNCHANGED <<execArch, elf, seg, next, pages>>
      /\ ExecTypeOK /\ ImageOK /\ PageFrames' = PageFrames
  BY Zenon DEF ForkTask, adopt_memory, Return, Whole, ExecInv, PageFrames
<1>2. guard' \in BOOLEAN
  BY Zenon DEF ForkTask, adopt_memory, Return, ExecInv, ExecTypeOK
<1>3. ExecTypeOK'
  BY <1>1, <1>2, Zenon DEF ExecTypeOK, ExecStages, Whole
<1>4. ImageOK'
  <2>1. CASE execPc' = "failed"
    BY <2>1, Zenon DEF ImageOK, Checked
  <2> QED BY <1>1, <1>3, <2>1, ImageKept, Zenon
<1>5. FramesHeld'
  <2>1. CASE ForkTask \/ adopt_memory
    <3>1. frames' = {Buffer, Desc, RootTable} \cup PageFrames' /\ execPc' \in {"adopt", "return", "failed"}
      BY <1>1, <2>1, Zenon DEF ForkTask, adopt_memory, ExecInv, FramesHeld
    <3> QED BY <3>1, Zenon DEF FramesHeld
  <2>2. CASE Return
    <3>1. \A p : UserPage(p) # Buffer
      BY Zenon DEF UserPage, Buffer
    <3>2. Buffer # Desc /\ Buffer # RootTable
      BY Zenon DEF Buffer, Desc, RootTable
    <3>3. Buffer \notin PageFrames
      BY <3>1, Zenon DEF PageFrames
    <3>4. frames = {Buffer, Desc, RootTable} \cup PageFrames /\ frames' = frames \ {Buffer} /\ execPc' = "done"
      BY <2>2, Zenon DEF Return, ExecInv, FramesHeld
    <3>5. frames' = {Desc, RootTable} \cup PageFrames'
      BY <1>1, <3>2, <3>3, <3>4, Zenon
    <3> QED BY <3>4, <3>5, Zenon DEF FramesHeld
  <2> QED BY <2>1, <2>2, Zenon
<1>6. HandoffOK'
  <2>1. CASE ForkTask
    BY <2>1, Zenon DEF ForkTask, ExecInv, HandoffOK
  <2>2. CASE adopt_memory
    <3>1. /\ child = [state |-> "runnable", memory |-> FALSE] /\ child' = [child EXCEPT !.memory = TRUE]
          /\ execPc' = "return" /\ guard' = FALSE
      BY <2>2, Zenon DEF adopt_memory, ExecInv, HandoffOK
    <3>2. child' = [state |-> "runnable", memory |-> TRUE]
      BY <3>1, Zenon
    <3> QED BY <3>1, <3>2, Zenon DEF HandoffOK
  <2>3. CASE Return
    BY <2>3, Zenon DEF Return, ExecInv, HandoffOK
  <2> QED BY <2>1, <2>2, <2>3, Zenon
<1> QED BY <1>3, <1>4, <1>5, <1>6, Zenon DEF ExecInv

LEMMA ReleaseInv == ASSUME ExecInv, Release PROVE ExecInv'
<1>1. /\ execPc = "failed" /\ execPc' = "error" /\ pages' = <<>>
      /\ UNCHANGED <<execArch, elf, seg, next, guard, child>>
      /\ frames' = frames \ ({Buffer, Desc, RootTable} \cup PageFrames)
      /\ frames \subseteq {Buffer, Desc, RootTable} \cup PageFrames
  BY Zenon DEF Release, ExecInv, FramesHeld, PageFrames
<1>2. ExecTypeOK'
  BY <1>1 DEF ExecInv, ExecTypeOK, ExecStages
<1>3. ImageOK'
  BY <1>1, Zenon DEF ImageOK, Checked
<1>4. frames' = {}
  BY <1>1, Zenon
<1>5. FramesHeld'
  BY <1>1, <1>4, Zenon DEF FramesHeld
<1>6. HandoffOK'
  BY <1>1, Zenon DEF ExecInv, HandoffOK
<1> QED BY <1>2, <1>3, <1>5, <1>6, Zenon DEF ExecInv

\* The scheduler can pick the child only once it has its memory.
LEMMA RunChildInv == ASSUME ExecInv, RunChild PROVE ExecInv'
<1>1. /\ ~guard /\ child.state = "runnable" /\ child' = [child EXCEPT !.state = "running"]
      /\ UNCHANGED <<execArch, elf, execPc, seg, next, pages, frames, guard>>
      /\ ExecTypeOK /\ ImageOK
  BY Zenon DEF RunChild, ExecInv
<1>2. execPc \in {"return", "done"}
  BY <1>1 DEF ExecInv, HandoffOK, NoChild
<1>3. child = [state |-> "runnable", memory |-> TRUE]
  BY <1>1, <1>2 DEF ExecInv, HandoffOK
<1>4. child' = [state |-> "running", memory |-> TRUE]
  BY <1>1, <1>3, Zenon
<1>5. ExecTypeOK'
  BY <1>1, Zenon DEF ExecTypeOK
<1>6. ImageOK'
  BY <1>1, <1>2, <1>5, ImageKept, Zenon DEF Whole
<1>7. FramesHeld'
  BY <1>1, Zenon DEF ExecInv, FramesHeld, PageFrames
<1>8. HandoffOK'
  BY <1>1, <1>2, <1>4, Zenon DEF ExecInv, HandoffOK
<1> QED BY <1>5, <1>6, <1>7, <1>8, Zenon DEF ExecInv

LEMMA ExecStutterInv == ASSUME ExecInv, UNCHANGED execVars PROVE ExecInv'
<1>1. UNCHANGED <<execArch, elf, execPc, seg, next, pages, frames, guard, child>>
  BY Zenon DEF execVars
<1>2. ExecTypeOK'
  BY <1>1, Zenon DEF ExecInv, ExecTypeOK
<1>3. /\ validate' <=> validate
      /\ Loaded' = Loaded
      /\ \A i : PagesOf(i)' = PagesOf(i)
  BY <1>1, SameFile, Zenon
<1>4. \A p : Given(p)' = Given(p)
  BY <1>1, <1>3, Zenon DEF Given
<1>5. SegmentPages' = SegmentPages /\ StackMapped' = StackMapped /\ Header' = Header
  BY <1>1, <1>4, Zenon DEF SegmentPages, StackMapped, Header
<1>6. \A p : RightsGiven(p)' = RightsGiven(p)
  BY <1>1, <1>4, Zenon DEF RightsGiven, FlagsOf
<1>7. \A p \in DOMAIN pages : PageOK(p) => PageOK(p)'
  BY <1>1, <1>5, <1>6, PageKept, Zenon
<1>8. ImageOK'
  BY <1>1, <1>3, <1>5, <1>7, Zenon DEF ExecInv, ImageOK
<1>9. FramesHeld' /\ HandoffOK'
  BY <1>1, Zenon DEF ExecInv, FramesHeld, HandoffOK, PageFrames
<1> QED BY <1>2, <1>8, <1>9, Zenon DEF ExecInv

LEMMA ExecInitInv == ASSUME ExecInit PROVE ExecInv
<1>1. DOMAIN pages = {} /\ PageFrames = {}
  BY DEF ExecInit, PageFrames
<1>2. ExecTypeOK
  <2>1. execArch \in Arches /\ elf \in [valid : BOOLEAN, entry : Entries, headers : [1 .. e_phnum -> Segments]]
    BY Zenon DEF ExecInit
  <2>2. execPc \in ExecStages /\ seg \in 1 .. e_phnum + 1 /\ next \in Nat
    <3>1. execPc = "open" /\ seg = 1 /\ next = 0
      BY Zenon DEF ExecInit
    <3> QED BY <3>1, ExecNumbers DEF ExecStages
  <2>3. guard \in BOOLEAN
    BY Zenon DEF ExecInit
  <2> QED BY <1>1, <2>1, <2>2, <2>3, Zenon DEF ExecTypeOK
<1>3. ImageOK
  BY Zenon DEF ExecInit, ImageOK, Checked
<1>4. FramesHeld
  BY Zenon DEF ExecInit, FramesHeld
<1>5. HandoffOK
  BY Zenon DEF ExecInit, HandoffOK
<1> QED BY <1>2, <1>3, <1>4, <1>5, Zenon DEF ExecInv

(***************************************************************************)
(* The image and ExecExact                                                 *)
(***************************************************************************)

\* The whole image is what the file describes.
LEMMA WholeImage ==
  ASSUME ExecInv, execPc \in {"return", "done"}
  PROVE  /\ DOMAIN pages = ExpectedPages
         /\ \A p \in DOMAIN pages :
              /\ Rights(pages[p].entry) = ExpectedRights(p) /\ pte(execArch, pages[p].entry).user
              /\ \A i \in 0 .. PG_SIZE - 1 : pages[p].bytes[i] = ExpectedByte(p * PG_SIZE + i)
         /\ "X" \in Rights(pages[PageOf(elf.entry)].entry)
<1>0. /\ ExecTypeOK /\ validate /\ seg = e_phnum + 1 /\ next = StackTop
      /\ DOMAIN pages = SegmentPages \cup StackMapped /\ (\A p \in DOMAIN pages : PageOK(p))
      /\ StackMapped = StackBottom .. next - 1 /\ DOMAIN pages \subseteq Nat
  BY Zenon DEF ExecInv, ImageOK, Checked, Built, Whole, StackMapped, ExecTypeOK
<1>1. StackMapped = StackPages
  BY <1>0, StackPlace, Zenon
<1>2. \A i \in Loaded : i \in 1 .. e_phnum /\ i < seg
  BY <1>0, ExecNumbers DEF Loaded
<1>3. \A p : Given(p) = Touch(p)
  BY <1>2, Zenon DEF Given, Touch, PagesOf
<1>4. \A p \in Nat : Touch(p) # {} => p \in 0 .. USER_SPACE_TOP /\ p \notin StackPages
  <2> TAKE p \in Nat
  <2> HAVE Touch(p) # {}
  <2>1. PICK i \in Loaded : p \in PagesOf(i)
    BY Zenon DEF Touch, PagesOf
  <2> QED BY <1>0, <2>1, SegmentPagesIs, Zenon
<1>5. DOMAIN pages = ExpectedPages
  <2>1. SegmentPages = {p \in 0 .. USER_SPACE_TOP : Touch(p) # {}}
    BY <1>3, <1>4, ExecNumbers DEF SegmentPages
  <2> QED BY <1>0, <1>1, <2>1, Zenon DEF ExpectedPages
<1>c. ASSUME NEW p
      PROVE  /\ p \in StackPages => ExpectedRights(p) = {"W"}
             /\ p \notin StackPages => ExpectedRights(p) = RightsGiven(p) \cap {"W", "X"}
  <2>1. p \in StackPages => ExpectedRights(p) = {"W"}
    BY Zenon DEF ExpectedRights
  <2>2. RightsGiven(p) = FlagsOf(Touch(p))
    BY <1>3, Zenon DEF RightsGiven, FlagsOf
  <2>3. p \notin StackPages => ExpectedRights(p) = FlagsOf(Touch(p)) \cap {"W", "X"}
    BY Zenon DEF ExpectedRights
  <2> QED BY <2>1, <2>2, <2>3, Zenon
<1>6. ASSUME NEW p \in DOMAIN pages
      PROVE  /\ pte(execArch, pages[p].entry).user
             /\ pte(execArch, pages[p].entry).write <=> "W" \in ExpectedRights(p)
             /\ pte(execArch, pages[p].entry).exec <=> "X" \in ExpectedRights(p)
  <2>1. PICK w \in BOOLEAN, x \in BOOLEAN : (w <=> "W" \in ExpectedRights(p)) /\ (x <=> "X" \in ExpectedRights(p))
    BY Zenon
  <2>2. pages[p].entry = make_pte_page(execArch, p, user_page_perm(w, x))
    <3>1. CASE p \in StackPages
      <4>1. w /\ ~x
        BY <1>c, <2>1, <3>1, Zenon
      <4>2. pages[p].entry = make_pte_page(execArch, p, user_page_perm(TRUE, FALSE))
        BY <1>0, <1>1, <1>6, <3>1, Zenon DEF PageOK
      <4>3. user_page_perm(w, x) = user_page_perm(TRUE, FALSE)
        BY <4>1, Zenon DEF user_page_perm
      <4> QED BY <4>2, <4>3, Zenon
    <3>2. CASE p \notin StackPages
      <4>1. (w <=> "W" \in RightsGiven(p)) /\ (x <=> "X" \in RightsGiven(p))
        BY <1>c, <2>1, <3>2, Zenon
      <4>2. pages[p].entry = make_pte_page(execArch, p,
                               user_page_perm("W" \in RightsGiven(p), "X" \in RightsGiven(p)))
        BY <1>0, <1>1, <1>6, <3>2, Zenon DEF PageOK
      <4>3. user_page_perm(w, x) = user_page_perm("W" \in RightsGiven(p), "X" \in RightsGiven(p))
        BY <4>1, Zenon DEF user_page_perm
      <4> QED BY <4>2, <4>3, Zenon
    <3> QED BY <3>1, <3>2, Zenon
  <2>3. PICK a \in Arches : a = execArch
    BY <1>0, Zenon DEF ExecTypeOK
  <2>a. PICK e : e = pages[p].entry
    BY Zenon
  <2>4. (pte(a, e).write <=> w) /\ (pte(a, e).exec <=> x) /\ pte(a, e).user
    BY <2>2, <2>3, <2>a, EntryRights, Zenon
  <2> QED BY <2>1, <2>3, <2>4, <2>a, Zenon
<1>7. ASSUME NEW p \in DOMAIN pages PROVE Rights(pages[p].entry) = ExpectedRights(p)
  <2>1. ExpectedRights(p) \subseteq {"W", "X"}
    BY <1>c, Zenon
  <2>2. "W" \in Rights(pages[p].entry) <=> "W" \in ExpectedRights(p)
    BY <1>6, <1>7, Zenon DEF Rights, On
  <2>3. "X" \in Rights(pages[p].entry) <=> "X" \in ExpectedRights(p)
    BY <1>6, <1>7, Zenon DEF Rights, On
  <2>4. Rights(pages[p].entry) \subseteq {"W", "X"}
    BY Zenon DEF Rights, On
  <2> QED BY <2>1, <2>2, <2>3, <2>4
<1>8. ASSUME NEW va PROVE ExpectedByte(va) = ByteAfter(va, seg)
  <2>1. Sources(va, seg) = Carriers(va)
    BY <1>2, Zenon DEF Sources, Carriers
  <2> QED BY <2>1, Zenon DEF ExpectedByte, ByteAfter
<1>9. ASSUME NEW p \in DOMAIN pages, NEW i \in 0 .. PG_SIZE - 1
      PROVE  pages[p].bytes[i] = ExpectedByte(p * PG_SIZE + i)
  BY <1>0, <1>8, <1>9, Zenon DEF PageOK
<1>10. "X" \in Rights(pages[PageOf(elf.entry)].entry)
  <2>1. PICK i \in 1 .. e_phnum : LET h == elf.headers[i]
                                  IN Loads(h) /\ "X" \in h.flags /\ elf.entry \in h.va .. Ends(h) - 1
    BY <1>0, Zenon DEF validate
  <2>2. i \in Loaded /\ "X" \in elf.headers[i].flags /\ elf.entry \in elf.headers[i].va .. Ends(elf.headers[i]) - 1
    BY <2>1, Zenon DEF Loaded
  <2>3. PICK p : p = PageOf(elf.entry) /\ p \in PagesOf(i)
    BY <1>0, <2>2, SegmentPagesIs, Zenon
  <2>4. p \in 0 .. USER_SPACE_TOP /\ p \notin StackPages
    BY <1>0, <2>2, <2>3, SegmentPagesIs, Zenon
  <2>5. i \in Touch(p)
    BY <2>2, <2>3, Zenon DEF Touch, PagesOf
  <2>6. "X" \in RightsGiven(p)
    BY <1>3, <2>2, <2>5, Zenon DEF RightsGiven, FlagsOf
  <2>7. "X" \in ExpectedRights(p) /\ p \in DOMAIN pages
    BY <1>5, <1>c, <2>4, <2>5, <2>6, Zenon DEF ExpectedPages
  <2> QED BY <1>7, <2>3, <2>7, Zenon
<1> QED BY <1>5, <1>6, <1>7, <1>9, <1>10, Zenon

LEMMA ExecInvExact == ASSUME ExecInv PROVE ExecExact
<1>1. child.state = "running" => child.memory
  BY DEF ExecInv, HandoffOK, NoChild, ExecTypeOK, ExecStages
<1>2. child.memory => execPc \in {"return", "done"}
  BY DEF ExecInv, HandoffOK, NoChild, ExecTypeOK, ExecStages
<1>3. execPc = "done" => frames = {Desc, RootTable} \cup {UserPage(p) : p \in DOMAIN pages}
  BY Zenon DEF ExecInv, FramesHeld, PageFrames
<1>4. execPc = "error" => frames = {} /\ child = NoChild
  BY Zenon DEF ExecInv, FramesHeld, HandoffOK
<1> QED BY <1>1, <1>2, <1>3, <1>4, WholeImage, Zenon DEF ExecExact

\* exec is exact for every file, page size and user address-space layout:
\* a task that exec starts runs only with the image elf::load and
\* setup_user_stack built, that image is what the program headers describe,
\* and an exec that fails has released everything and started nothing.
THEOREM LoadExact == ExecSpec => []ExecExact
<1>1. ExecInit => ExecInv
  BY ExecInitInv, Zenon
<1>2. ExecInv /\ [ExecNext]_execVars => ExecInv'
  <2> SUFFICES ASSUME ExecInv, [ExecNext]_execVars PROVE ExecInv'
    BY Zenon
  <2>1. CASE OpenFile \/ ReadFile \/ NewMemory
    BY <2>1, StartInv, Zenon
  <2>2. CASE Validate
    BY <2>2, ValidateInv, Zenon
  <2>3. CASE LoadPage
    BY <2>3, LoadPageInv, Zenon
  <2>4. CASE CopySegment
    BY <2>4, CopySegmentInv, Zenon
  <2>5. CASE setup_user_stack
    BY <2>5, setup_user_stackInv, Zenon
  <2>6. CASE ForkTask \/ adopt_memory \/ Return
    BY <2>6, HandoffInv, Zenon
  <2>7. CASE Release
    BY <2>7, ReleaseInv, Zenon
  <2>8. CASE RunChild
    BY <2>8, RunChildInv, Zenon
  <2>9. CASE Finished \/ UNCHANGED execVars
    BY <2>9, ExecStutterInv, Zenon DEF Finished
  <2> QED BY <2>1, <2>2, <2>3, <2>4, <2>5, <2>6, <2>7, <2>8, <2>9, Zenon DEF ExecNext
<1>3. ExecInv => ExecExact
  BY ExecInvExact, Zenon
<1> QED BY <1>1, <1>2, <1>3, PTL DEF ExecSpec
=============================================================================
