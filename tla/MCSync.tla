------------------------------- MODULE MCSync -------------------------------
(***************************************************************************)
(* The wait queue and what is built on it, for model checking.  The first  *)
(* state decides which of the four a behaviour exercises, with the tasks   *)
(* and the one queue; the other three stay as they are: a mutex somebody   *)
(* has locked, a semaphore without permits, a console without input.       *)
(***************************************************************************)
EXTENDS Mutex, Semaphore, Console

VARIABLE part

mutexOwn == <<held, owner, pc>>
semOwn == <<count, semPc>>
consoleOwn == <<ringVars, reading, got>>
vars == <<part, wqVars, mutexOwn, semOwn, consoleOwn>>

Out == [t \in Tasks |-> "out"]

MutexAside ==
    /\ held = TRUE
    /\ owner = CHOOSE t \in Tasks : TRUE
    /\ pc = [Out EXCEPT ![owner] = "crit"]

SemAside == count = 0 /\ semPc = Out

ConsoleAside ==
    /\ input = [i \in 0 .. Size - 1 |-> NoChar] /\ read = 0 /\ write = 0
    /\ reading = {} /\ got = [t \in Readers |-> NoChar]

Init ==
    \/ part = "queue" /\ WQInit /\ MutexAside /\ SemAside /\ ConsoleAside
    \/ part = "mutex" /\ MutexInit /\ SemAside /\ ConsoleAside
    \/ part = "semaphore" /\ SemInit /\ MutexAside /\ ConsoleAside
    \/ part = "console" /\ ConsoleInit /\ MutexAside /\ SemAside

\* A step of one part, which the others do not notice.
OfQueue(A) == part = "queue" /\ A /\ UNCHANGED <<part, mutexOwn, semOwn, consoleOwn>>
OfMutex(A) == part = "mutex" /\ A /\ UNCHANGED <<part, semOwn, consoleOwn>>
OfSem(A) == part = "semaphore" /\ A /\ UNCHANGED <<part, mutexOwn, consoleOwn>>
OfConsole(A) == part = "console" /\ A /\ UNCHANGED <<part, mutexOwn, semOwn>>

\* Every task may sleep in down() when nobody calls up().
AllAsleep == asleep = Tasks /\ UNCHANGED semVars

Next == OfQueue(WQNext) \/ OfMutex(MutexNext) \/ OfSem(SemNext \/ AllAsleep) \/ OfConsole(ConsoleNext)

\* The fairness of the part that runs.
Spec ==
    /\ Init /\ [][Next]_vars
    /\ \A t \in Tasks :
         /\ WF_vars(OfMutex(LockTake(t) \/ LockSleep(t) \/ LockResume(t)))
         /\ WF_vars(OfMutex(UnlockClear(t)))
         /\ WF_vars(OfMutex(UnlockWake(t)))
         /\ WF_vars(OfSem(DownTake(t) \/ DownSleep(t) \/ DownResume(t)))
         /\ WF_vars(OfSem(UpWake(t)))
    /\ \A t \in Readers :
         WF_vars(OfConsole(GetcTake(t) \/ GetcSleep(t) \/ GetcResume(t)))
=============================================================================
