------------------------------ MODULE Process ------------------------------
(***************************************************************************)
(* Processes and the scheduler of the kernel (kernel/sched, the scheduling *)
(* half of kernel/sync/waitqueue.cpp and of kernel/trap/trap.cpp).         *)
(*                                                                         *)
(* The kernel runs on one CPU.  A section under intr::Guard or a Spinlock  *)
(* has interrupts off and only gives up the CPU in Scheduler::schedule(),  *)
(* so each action is the code between two points at which an interrupt or  *)
(* a context switch may happen.  A task is known by its pid: pids are not  *)
(* reused, and TaskManager::add_process() pushes each new task at the      *)
(* front of proc_list_, so proc_list_ is the published tasks in descending *)
(* pid order and needs no variable.  child_list is kept as a set: its      *)
(* order only decides which of several zombies wait(0) returns first, and  *)
(* the model allows each of them.                                          *)
(*                                                                         *)
(* entries stands for all wait queues of the kernel together: the tasks    *)
(* that are linked in one of them.                                         *)
(***************************************************************************)
EXTENDS Integers, FiniteSets

CONSTANTS
    MaxPid,      \* bound: next_pid_ stops here
    ExitCodes,   \* what a task may pass to exit()
    NoCode       \* no exit code

ASSUME MaxPidAssumption == MaxPid \in Nat /\ MaxPid >= 1
ASSUME NoCodeAssumption == NoCode \notin ExitCodes

HIGHEST_PRIORITY == 0
DEFAULT == 10
LOWEST_PRIORITY == 20
IDLE_PRIO == 31
BASE_TIMESLICE == 10

Tasks == 0 .. MaxPid
Idle == 0          \* idle_proc_
InitProc == 1      \* init_proc_
NoTask == -1       \* a null Task* or ListNode*

TaskState == {"Uninit", "Sleeping", "Runnable", "Running", "Zombie"}

VARIABLES
    state,       \* Task::state_; "Freed" once the Task has been deleted
    parent,      \* Task::parent
    child_list,  \* Task::child_list, as the set of linked children
    exit_code,   \* Task::exit_code
    wait_state,  \* Task::wait_state
    priority,    \* Task::priority
    time_slice,  \* Task::time_slice
    user,        \* the task owns a user address space (Task::owned_memory_)
    next_pid,    \* TaskManager::next_pid_
    current,     \* Scheduler::current_
    cursor,      \* SchedulerPolicy::cursor_
    entries,     \* the tasks linked in a WaitQueue
    pc,          \* where a task is in the code
    wait_pid,    \* the argument of the wait() a task is in
    collected    \* the code that wait() stored for a reaped child

procVars == <<state, parent, child_list, exit_code, wait_state, next_pid,
              user, collected>>
schedVars == <<priority, time_slice, current, cursor>>
pcVars == <<entries, pc, wait_pid>>
vars == <<procVars, schedVars, pcVars>>

(***************************************************************************)
(* Where a task is:                                                        *)
(*   "run"    anywhere with interrupts on                                  *)
(*   "scan"   at the head of the loop of TaskManager::wait()               *)
(*   "wait"   in the schedule() of TaskManager::wait(), interrupts off     *)
(*   "sleep"  in the schedule() of WaitQueue::sleep(), interrupts off      *)
(***************************************************************************)
Places == {"run", "scan", "wait", "sleep"}

Live(t) == state[t] \in {"Sleeping", "Runnable", "Running"}

\* In the task table: from add_process() on until remove_process().
Published(t) == Live(t) \/ state[t] = "Zombie"

\* The running task takes interrupts: it is not finishing a schedule() that
\* was called under a guard.
IrqEnabled == pc[current] \in {"run", "scan"}

----------------------------------------------------------------------------
(* The scheduling policy and Scheduler::schedule() *)

\* SchedulerPolicy::calc_time_slice: ticks in a quantum.
CalcTimeSlice(prio) ==
    LET slice == (BASE_TIMESLICE * (LOWEST_PRIORITY + 1 - prio)) \div (DEFAULT + 1)
    IN  IF slice < 1 THEN 1 ELSE slice

\* The first node pick_next() looks at: the cursor, or the newest task.
ScanStart(st) ==
    IF cursor # NoTask THEN cursor
    ELSE CHOOSE t \in Tasks :
            /\ st[t] \notin {"Uninit", "Freed"}
            /\ \A u \in Tasks : u > t => st[u] \in {"Uninit", "Freed"}

\* How many nodes the circular walk over proc_list_ (descending pids, past
\* the head back to the newest) leaves behind before it is at task t.
ScanDistance(start, t) ==
    IF t <= start THEN start - t ELSE start + 1 + (MaxPid - t)

Eligible(st, t) ==
    /\ t # Idle
    /\ st[t] = "Runnable" \/ (t = current /\ st[t] = "Running")
    /\ priority[t] < IDLE_PRIO + 1

\* SchedulerPolicy::pick_next: the eligible task of the best priority that
\* comes first in the walk, idle when there is none.
PickNext(st) ==
    LET E == {t \in Tasks : Eligible(st, t)}
        start == ScanStart(st)
        Before(t, u) == \/ priority[t] < priority[u]
                        \/ /\ priority[t] = priority[u]
                           /\ ScanDistance(start, t) <= ScanDistance(start, u)
    IN  IF E = {} THEN {Idle} ELSE {t \in E : \A u \in E : Before(t, u)}

\* list_node.next_node() of task t; idle, the first task, ends the list.
NextNode(st, t) ==
    CHOOSE u \in Tasks :
        /\ u < t
        /\ st[u] \notin {"Uninit", "Freed"}
        /\ \A v \in Tasks : u < v /\ v < t => st[v] \in {"Uninit", "Freed"}

\* Mutant of CursorAfter: the next walk starts at the task just picked.
CursorAfterStays(st, next) ==
    IF next = Idle THEN ScanStart(st) ELSE next

CursorAfter(st, next) ==
    IF next = Idle THEN ScanStart(st) ELSE NextNode(st, next)

\* Mutant of Schedule: the outgoing task is made Runnable whatever its state.
ScheduleAlwaysRunnable(st, sl) ==
    \E next \in PickNext(st) :
        /\ cursor' = CursorAfter(st, next)
        /\ time_slice' = [sl EXCEPT ![next] =
                            IF @ <= 0 THEN CalcTimeSlice(priority[next]) ELSE @]
        /\ current' = next
        /\ state' = IF next = current THEN st
                    ELSE [st EXCEPT ![current] = "Runnable", ![next] = "Running"]

\* Scheduler::schedule() with the states st and quanta sl the caller left:
\* pick, replenish, and Task::run() when another task was picked.
Schedule(st, sl) ==
    \E next \in PickNext(st) :
        /\ cursor' = CursorAfter(st, next)
        /\ time_slice' = [sl EXCEPT ![next] =
                            IF @ <= 0 THEN CalcTimeSlice(priority[next]) ELSE @]
        /\ current' = next
        /\ state' = IF next = current THEN st
                    ELSE [st EXCEPT ![current] = IF @ = "Running" THEN "Runnable" ELSE @,
                                    ![next] = "Running"]

\* Task::wakeup() on task t if the condition cond holds.
WakeupIf(st, t, cond) == IF cond THEN [st EXCEPT ![t] = "Runnable"] ELSE st

----------------------------------------------------------------------------
(* Boot *)

\* TaskManager::init_idle() has run: idle is the current task, Runnable, and
\* the only one in the process list.
Init ==
    /\ state = [t \in Tasks |-> IF t = Idle THEN "Runnable" ELSE "Uninit"]
    /\ parent = [t \in Tasks |-> NoTask]
    /\ child_list = [t \in Tasks |-> {}]
    /\ exit_code = [t \in Tasks |-> NoCode]
    /\ wait_state = [t \in Tasks |-> 0]
    /\ priority = [t \in Tasks |-> IF t = Idle THEN IDLE_PRIO ELSE DEFAULT]
    /\ time_slice = [t \in Tasks |-> 0]
    /\ user = [t \in Tasks |-> FALSE]
    /\ next_pid = 1
    /\ current = Idle
    /\ cursor = NoTask
    /\ entries = {}
    /\ pc = [t \in Tasks |-> "run"]
    /\ wait_pid = [t \in Tasks |-> 0]
    /\ collected = [t \in Tasks |-> NoCode]

----------------------------------------------------------------------------
(* Interrupts and the idle loop *)

\* A timer interrupt: handle_timer_tick() -> Scheduler::tick(), then the
\* need_resched test at the end of trap_dispatch().  need_resched is only
\* set here and schedule() clears it before the next interrupt.
Tick ==
    /\ IrqEnabled
    /\ current # Idle
    /\ LET left == IF time_slice[current] > 0 THEN time_slice[current] - 1
                                              ELSE time_slice[current]
           sl == [time_slice EXCEPT ![current] = left]
       IN  IF left <= 0
           THEN Schedule(state, sl)
           ELSE time_slice' = sl /\ UNCHANGED <<state, current, cursor>>
    /\ UNCHANGED <<parent, child_list, exit_code, wait_state, next_pid, user,
                   collected, priority, pcVars>>

\* The loop at the end of kern_init(), after TaskManager::init(): arch_idle(),
\* then schedule().
IdleLoop ==
    /\ current = Idle
    /\ next_pid > InitProc
    /\ Schedule(state, time_slice)
    /\ UNCHANGED <<parent, child_list, exit_code, wait_state, next_pid, user,
                   collected, priority, pcVars>>

\* WaitQueue::wakeup_one() on the queue in which t is first, called by an
\* interrupt handler or by the running task.
WakeupOne(t) ==
    /\ IrqEnabled
    /\ t \in entries
    /\ entries' = entries \ {t}
    /\ state' = [state EXCEPT ![t] = "Runnable"]
    /\ UNCHANGED <<parent, child_list, exit_code, wait_state, next_pid, user,
                   collected, schedVars, pc, wait_pid>>

----------------------------------------------------------------------------
(* What the running task does *)

\* Tasks that run arbitrary kernel or user code.  idle forks init (pid 1,
\* init_init_proc()) and then only schedules; init_main() starts the shell
\* (pid 2) and then calls wait(0) for ever.
Free(t) == current = t /\ t \notin {Idle, InitProc} /\ pc[t] = "run"

\* TaskManager::fork() from publication on: all that fails before it leaves
\* no trace.  isUser is exec::exec(), which installs the user address space
\* before it lets interrupts in again.
Fork(p, isUser) ==
    /\ current = p /\ pc[p] = "run"
    /\ Free(p) \/ (p \in {Idle, InitProc} /\ next_pid = p + 1 /\ ~isUser)
    /\ ~user[p]
    /\ next_pid <= MaxPid
    /\ next_pid' = next_pid + 1
    /\ parent' = [parent EXCEPT ![next_pid] = p]
    /\ child_list' = [child_list EXCEPT ![p] = @ \cup {next_pid}]
    /\ state' = [state EXCEPT ![next_pid] = "Runnable"]
    /\ priority' = [priority EXCEPT ![next_pid] = priority[p]]
    /\ time_slice' = [time_slice EXCEPT ![next_pid] = CalcTimeSlice(priority[p])]
    /\ user' = [user EXCEPT ![next_pid] = isUser]
    /\ UNCHANGED <<exit_code, wait_state, collected, current, cursor, pcVars>>

\* Mutant of AfterExit: init is not told of the zombies it adopts.
AfterExitNoAdoptWakeup(t) ==
    WakeupIf([state EXCEPT ![t] = "Zombie"], parent[t], wait_state[parent[t]] = 1)

\* The task states after exit() has told the parent, and init if it now has
\* a zombie to reap.
AfterExit(t) ==
    LET zombie == [state EXCEPT ![t] = "Zombie"]
        told == WakeupIf(zombie, parent[t], wait_state[parent[t]] = 1)
    IN  WakeupIf(told, InitProc, /\ \E c \in child_list[t] : state[c] = "Zombie"
                                 /\ wait_state[InitProc] = 1)

\* Mutant of ParentAfterExit: the children keep the dead parent.
ParentAfterExitKept(t) == parent

\* exit() hands every child of t to init.
ParentAfterExit(t) ==
    [c \in Tasks |-> IF c \in child_list[t] THEN InitProc ELSE parent[c]]

ChildrenAfterExit(t) ==
    [child_list EXCEPT ![InitProc] = @ \cup child_list[t], ![t] = {}]

\* TaskManager::exit(): a system call, the return of a kernel thread or a
\* fault in user mode.
Exit(t, code) ==
    /\ Free(t)
    /\ exit_code' = [exit_code EXCEPT ![t] = code]
    /\ parent' = ParentAfterExit(t)
    /\ child_list' = ChildrenAfterExit(t)
    /\ Schedule(AfterExit(t), time_slice)
    /\ UNCHANGED <<wait_state, next_pid, user, collected, priority, pcVars>>

\* A call of TaskManager::wait(): it enters the loop.
Wait(t, pid) ==
    /\ current = t /\ pc[t] = "run"
    /\ Free(t) \/ (t = InitProc /\ next_pid > InitProc + 1 /\ pid = 0)
    /\ ~user[t]
    /\ pc' = [pc EXCEPT ![t] = "scan"]
    /\ wait_pid' = [wait_pid EXCEPT ![t] = pid]
    /\ UNCHANGED <<procVars, schedVars, entries>>

Matches(pid, c) == pid = 0 \/ c = pid

\* wait() found the zombie c: store its code, remove_links(), destroy().
Reap(t, c) ==
    /\ current = t /\ pc[t] = "scan"
    /\ c \in child_list[t] /\ Matches(wait_pid[t], c)
    /\ state[c] = "Zombie"
    /\ collected' = [collected EXCEPT ![c] = exit_code[c]]
    /\ cursor' = IF cursor = c THEN NoTask ELSE cursor
    /\ child_list' = [child_list EXCEPT ![t] = @ \ {c}]
    /\ state' = [state EXCEPT ![c] = "Freed"]
    /\ parent' = [parent EXCEPT ![c] = NoTask]
    /\ exit_code' = [exit_code EXCEPT ![c] = NoCode]
    /\ pc' = [pc EXCEPT ![t] = "run"]
    /\ wait_pid' = [wait_pid EXCEPT ![t] = 0]
    /\ UNCHANGED <<wait_state, next_pid, user, priority, time_slice, current,
                   entries>>

\* wait() has no child to wait for: Error::NotFound.
WaitNotFound(t) ==
    /\ current = t /\ pc[t] = "scan"
    /\ ~ \E c \in child_list[t] : Matches(wait_pid[t], c)
    /\ pc' = [pc EXCEPT ![t] = "run"]
    /\ wait_pid' = [wait_pid EXCEPT ![t] = 0]
    /\ UNCHANGED <<procVars, schedVars, entries>>

\* wait() found children but no zombie: it sleeps.
WaitSleep(t) ==
    /\ current = t /\ pc[t] = "scan"
    /\ \E c \in child_list[t] : Matches(wait_pid[t], c)
    /\ \A c \in child_list[t] : Matches(wait_pid[t], c) => state[c] # "Zombie"
    /\ wait_state' = [wait_state EXCEPT ![t] = 1]
    /\ pc' = [pc EXCEPT ![t] = "wait"]
    /\ Schedule([state EXCEPT ![t] = "Sleeping"], time_slice)
    /\ UNCHANGED <<parent, child_list, exit_code, next_pid, user, collected,
                   priority, entries, wait_pid>>

\* Mutant of WaitResume: wait_state is left set.
WaitResumeStale(t) ==
    /\ current = t /\ pc[t] = "wait"
    /\ pc' = [pc EXCEPT ![t] = "scan"]
    /\ UNCHANGED <<procVars, schedVars, entries, wait_pid>>

\* The schedule() of wait() returns.
WaitResume(t) ==
    /\ current = t /\ pc[t] = "wait"
    /\ wait_state' = [wait_state EXCEPT ![t] = 0]
    /\ pc' = [pc EXCEPT ![t] = "scan"]
    /\ UNCHANGED <<state, parent, child_list, exit_code, next_pid, user,
                   collected, schedVars, entries, wait_pid>>

\* WaitQueue::sleep() up to its schedule(): the task blocks on a mutex, a
\* semaphore or the console.
QueueSleep(t) ==
    /\ Free(t)
    /\ entries' = entries \cup {t}
    /\ pc' = [pc EXCEPT ![t] = "sleep"]
    /\ Schedule([state EXCEPT ![t] = "Sleeping"], time_slice)
    /\ UNCHANGED <<parent, child_list, exit_code, wait_state, next_pid, user,
                   collected, priority, wait_pid>>

\* The schedule() of WaitQueue::sleep() returns; it unlinks its entry.
QueueResume(t) ==
    /\ current = t /\ pc[t] = "sleep"
    /\ entries' = entries \ {t}
    /\ pc' = [pc EXCEPT ![t] = "run"]
    /\ UNCHANGED <<procVars, schedVars, wait_pid>>

TaskStep(t) ==
    \/ \E isUser \in BOOLEAN : Fork(t, isUser)
    \/ \E code \in ExitCodes : Exit(t, code)
    \/ \E pid \in Tasks : Wait(t, pid)
    \/ \E c \in Tasks : Reap(t, c)
    \/ WaitNotFound(t)
    \/ WaitSleep(t)
    \/ WaitResume(t)
    \/ QueueSleep(t)
    \/ QueueResume(t)

Next ==
    \/ Tick
    \/ IdleLoop
    \/ \E t \in Tasks : WakeupOne(t)
    \/ \E t \in Tasks : TaskStep(t)

Spec == Init /\ [][Next]_vars

(***************************************************************************)
(* Timer interrupts keep coming, the idle loop keeps looping and a task    *)
(* that is given the CPU again and again gets through its next step of     *)
(* kernel code.  What a task asks for is its own business: nobody is       *)
(* obliged to fork, exit or call wait(), except init, whose loop always    *)
(* calls wait(0) again.                                                    *)
(***************************************************************************)
KernelStep(t) ==
    \/ \E c \in Tasks : Reap(t, c)
    \/ WaitNotFound(t)
    \/ WaitSleep(t)
    \/ WaitResume(t)
    \/ QueueResume(t)

Fairness ==
    /\ WF_vars(Tick)
    /\ WF_vars(IdleLoop)
    /\ \A t \in Tasks : SF_vars(KernelStep(t))
    /\ SF_vars(Wait(InitProc, 0))

FairSpec == Spec /\ Fairness

----------------------------------------------------------------------------
(* Properties *)

\* Every variable has its type.
TypeOK ==
    /\ state \in [Tasks -> TaskState \cup {"Freed"}]
    /\ parent \in [Tasks -> Tasks \cup {NoTask}]
    /\ child_list \in [Tasks -> SUBSET Tasks]
    /\ exit_code \in [Tasks -> ExitCodes \cup {NoCode}]
    /\ wait_state \in [Tasks -> {0, 1}]
    /\ priority \in [Tasks -> HIGHEST_PRIORITY .. IDLE_PRIO]
    /\ time_slice \in [Tasks -> Nat]
    /\ user \in [Tasks -> BOOLEAN]
    /\ next_pid \in 1 .. MaxPid + 1
    /\ current \in Tasks
    /\ cursor \in Tasks \cup {NoTask}
    /\ entries \in SUBSET Tasks
    /\ pc \in [Tasks -> Places]
    /\ wait_pid \in [Tasks -> Tasks]
    /\ collected \in [Tasks -> ExitCodes \cup {NoCode}]

\* exit() and wait() agree: a task asleep in wait() has a child it waits for,
\* and none of those children is already a zombie, so an exit that will wake
\* it is still to come (TaskManager::exit, the wakeups of parent and init).
NoLostWakeup ==
    \A t \in Tasks : state[t] = "Sleeping" /\ pc[t] = "wait" =>
        /\ \E c \in child_list[t] : Matches(wait_pid[t], c)
        /\ \A c \in child_list[t] : Matches(wait_pid[t], c) => Live(c)

\* The process tree: child_list is exactly the inverse of parent, and every
\* task but idle, zombies included, has a parent that is alive, so that some
\* wait() can still collect it (adoption by init in TaskManager::exit).  The
\* parent is the older of the two, so there is no cycle.
TreeOK ==
    /\ \A p, c \in Tasks : c \in child_list[p] <=> (Published(c) /\ parent[c] = p)
    /\ \A c \in Tasks \ {Idle} : Published(c) => /\ parent[c] \in Tasks
                                                 /\ Live(parent[c])
    /\ \A c \in Tasks : parent[c] < c

\* The CPU has one owner: only the current task is Running, it is Running
\* unless it is idle before the first switch, and it still has a quantum
\* (Scheduler::schedule, Task::run).
CpuOK ==
    /\ \A t \in Tasks : state[t] = "Running" => t = current
    /\ state[current] = "Running" \/ (current = Idle /\ state[Idle] = "Runnable")
    /\ current # Idle => time_slice[current] > 0

\* The next walk of pick_next() starts at a task that still exists: wait()
\* frees a Task only after the policy has let go of it (Reap, cursor_).
CursorOK == cursor = NoTask \/ Published(cursor)

\* A task asleep is asleep for one reason that will wake it: it is in wait()
\* with wait_state set, or it is linked in a wait queue.  wait_state is never
\* left behind, so no exit() wakes a task out of a wait queue, and the
\* wakeup() assertions hold: only a task that is not a zombie is woken.
SleepOK ==
    \A t \in Tasks :
        /\ wait_state[t] = 1 <=> pc[t] = "wait"
        /\ t \in entries => state[t] = "Sleeping" /\ pc[t] = "sleep"
        /\ state[t] = "Sleeping" => wait_state[t] = 1 \/ t \in entries
        /\ pc[t] # "run" => Live(t)

\* The pids from next_pid on are unused, idle and (once forked) init are
\* always alive, and idle neither waits nor sleeps.  With the invariants
\* above this is inductive.
BootOK ==
    /\ \A t \in Tasks : t >= next_pid <=> state[t] = "Uninit"
    /\ \A t \in Tasks : parent[t] = NoTask \/ state[t] \notin {"Uninit", "Freed"}
    /\ state[Idle] \in {"Runnable", "Running"} /\ pc[Idle] = "run"
    /\ next_pid > InitProc => Live(InitProc)
    /\ next_pid = InitProc => current = Idle

IInv == TypeOK /\ NoLostWakeup /\ TreeOK /\ CpuOK /\ SleepOK /\ BootOK

\* fork(), exit() and wait() implement the process tree of ProcessTree: a
\* published task is alive, a zombie has exited, a deleted Task is gone.
Status(t) ==
    CASE state[t] = "Uninit" -> "unborn"
      [] state[t] = "Zombie" -> "exited"
      [] state[t] = "Freed" -> "gone"
      [] OTHER -> "alive"

Tree == INSTANCE ProcessTree WITH
    Procs <- Tasks, Root <- Idle, InitP <- InitProc, Codes <- ExitCodes,
    None <- NoCode, Nobody <- NoTask,
    status <- [t \in Tasks |-> Status(t)], par <- parent, code <- exit_code,
    got <- collected

\* The scheduler's processes behave as the tree promises: a child is made by
\* a living parent, orphans go to init, each exit code is collected once, by
\* the right parent (TaskManager::fork, exit and wait).
ImplementsTree == Tree!Spec

\* The same, and init does collect what is left to it (init_main).
ImplementsFairTree == Tree!FairSpec

\* The scheduler starves nobody: a runnable task gets the CPU (the cursor of
\* SchedulerPolicy::pick_next, all tasks having the same priority).
RunnableRuns ==
    \A t \in Tasks \ {Idle} : state[t] = "Runnable" ~> state[t] = "Running"

\* sched.h gives IDLE_PRIO to the "Idle process only".
OnlyIdleAtIdlePrio ==
    \A t \in Tasks : Published(t) /\ priority[t] = IDLE_PRIO => t = Idle
=============================================================================
