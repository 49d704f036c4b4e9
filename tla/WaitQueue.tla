----------------------------- MODULE WaitQueue -----------------------------
(***************************************************************************)
(* WaitQueue (kernel/sync/waitqueue.cpp): the list of sleeping tasks that  *)
(* mutexes, semaphores and the console are built on.  Each operation holds *)
(* a Spinlock, that is, runs with interrupts off on the only CPU, and is   *)
(* one step; sleep() is two, before and after its schedule().  Which task  *)
(* runs next is the scheduler's business (module Process): here any task   *)
(* that is not asleep may take the next step.                              *)
(***************************************************************************)
EXTENDS Naturals, Sequences

CONSTANT Tasks

VARIABLES
    queue,    \* head_: the linked entries, oldest first, each by its task
    asleep,   \* the tasks whose state is Sleeping
    inside    \* the tasks that are in sleep()

wqVars == <<queue, asleep, inside>>

Queued == {queue[i] : i \in 1 .. Len(queue)}

WQInit == queue = <<>> /\ asleep = {} /\ inside = {}

\* Mutant of Sleep: the task is linked only after it was marked sleeping and
\* gave up the CPU, so no wakeup finds it.
SleepUnlinked(t) ==
    /\ t \notin inside
    /\ asleep' = asleep \cup {t}
    /\ inside' = inside \cup {t}
    /\ UNCHANGED queue

\* sleep() up to schedule(): link the entry at the tail, mark the task
\* sleeping.
Sleep(t) ==
    /\ t \notin inside
    /\ queue' = Append(queue, t)
    /\ asleep' = asleep \cup {t}
    /\ inside' = inside \cup {t}

\* ListNode::unlink(), which does nothing to a node that is not linked.
Unlink(t) ==
    IF t \in Queued THEN SelectSeq(queue, LAMBDA u : u # t) ELSE queue

\* sleep() after schedule(): unlink the entry on the task's stack.
Resume(t) ==
    /\ t \in inside \ asleep
    /\ queue' = Unlink(t)
    /\ inside' = inside \ {t}
    /\ UNCHANGED asleep

\* Mutant of WakeupOne: the newest entry is woken.
WakeupOneNewest ==
    IF queue = <<>> THEN UNCHANGED wqVars
    ELSE /\ queue' = SubSeq(queue, 1, Len(queue) - 1)
         /\ asleep' = asleep \ {queue[Len(queue)]}
         /\ UNCHANGED inside

\* wakeup_one(): unlink the oldest entry and make its task runnable.
WakeupOne ==
    IF queue = <<>> THEN UNCHANGED wqVars
    ELSE /\ queue' = Tail(queue)
         /\ asleep' = asleep \ {Head(queue)}
         /\ UNCHANGED inside

\* wakeup_all(): the same for every entry.
WakeupAll ==
    /\ queue' = <<>>
    /\ asleep' = asleep \ Queued
    /\ UNCHANGED inside

WQNext ==
    \/ \E t \in Tasks : Sleep(t) \/ Resume(t)
    \/ WakeupOne
    \/ WakeupAll

WQSpec == WQInit /\ [][WQNext]_wqVars

----------------------------------------------------------------------------
\* The linked tasks are exactly the sleeping ones, each linked once and still
\* in sleep() (its entry lives on the stack of that call).
QueueOK ==
    /\ Queued = asleep
    /\ asleep \subseteq inside
    /\ \A i, j \in 1 .. Len(queue) : queue[i] = queue[j] => i = j

\* Wakeups come in the order of the sleeps: nobody is woken while a task that
\* was linked earlier sleeps on (add_before in sleep(), next_node in
\* wakeup_one()).
FifoWakeup ==
    [][\A i, j \in 1 .. Len(queue) :
            i < j /\ queue[j] \notin asleep' => queue[i] \notin asleep']_wqVars
=============================================================================
