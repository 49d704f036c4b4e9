------------------------------ MODULE Console ------------------------------
(***************************************************************************)
(* Console input (kernel/cons/cons.cpp): a ring of characters written by   *)
(* the input interrupts and read by the tasks that call getc().            *)
(***************************************************************************)
EXTENDS WaitQueue, FiniteSets

CONSTANTS
    Readers,  \* the tasks that call getc()
    Chars,    \* the characters
    NoChar,   \* what a reader has before its first getc()
    Size      \* input_.size(), 128 in the code

ASSUME ReadersAssumption == Readers \subseteq Tasks
ASSUME SizeAssumption == Size \in Nat /\ Size >= 1

VARIABLES
    input,    \* Console::input_
    read,     \* Console::read_
    write,    \* Console::write_
    reading,  \* the tasks in getc()
    got       \* what the last getc() of each task returned

ringVars == <<input, read, write>>
consoleVars == <<wqVars, ringVars, reading, got>>

ConsoleInit ==
    /\ WQInit
    /\ input = [i \in 0 .. Size - 1 |-> NoChar]
    /\ read = 0 /\ write = 0
    /\ reading = {}
    /\ got = [t \in Readers |-> NoChar]

\* Mutant of PushInput: the full ring is not recognised.
PushInputUnchecked(c) ==
    /\ input' = [input EXCEPT ![write] = c]
    /\ write' = (write + 1) % Size
    /\ WakeupOne
    /\ UNCHANGED <<read, reading, got>>

\* push_input(), called by an input interrupt.
PushInput(c) ==
    LET next == (write + 1) % Size
    IN IF next = read THEN UNCHANGED consoleVars
       ELSE /\ input' = [input EXCEPT ![write] = c]
            /\ write' = next
            /\ WakeupOne
            /\ UNCHANGED <<read, reading, got>>

CallGetc(t) ==
    /\ t \notin reading
    /\ reading' = reading \cup {t}
    /\ UNCHANGED <<wqVars, ringVars, got>>

\* One turn of the loop of getc(): take a character, or sleep.
GetcTake(t) ==
    /\ t \in reading \ inside
    /\ read # write
    /\ got' = [got EXCEPT ![t] = input[read]]
    /\ read' = (read + 1) % Size
    /\ reading' = reading \ {t}
    /\ UNCHANGED <<wqVars, input, write>>

\* Mutant of GetcSleep: interrupts are on between the test and the
\* registration.
GetcSleepStale(t) ==
    /\ t \in reading
    /\ Sleep(t)
    /\ UNCHANGED <<ringVars, reading, got>>

GetcSleep(t) ==
    /\ t \in reading
    /\ read = write
    /\ Sleep(t)
    /\ UNCHANGED <<ringVars, reading, got>>

\* waitq_.sleep() returns and getc() loops.
GetcResume(t) ==
    /\ t \in reading
    /\ Resume(t)
    /\ UNCHANGED <<ringVars, reading, got>>

ConsoleNext ==
    \/ \E c \in Chars : PushInput(c)
    \/ \E t \in Readers : CallGetc(t) \/ GetcTake(t) \/ GetcSleep(t) \/ GetcResume(t)

ConsoleSpec == ConsoleInit /\ [][ConsoleNext]_consoleVars

\* The scheduler runs every task that is not asleep; input need not come.
ConsoleFairness ==
    \A t \in Readers : WF_consoleVars(GetcTake(t) \/ GetcSleep(t) \/ GetcResume(t))

ConsoleFairSpec == ConsoleSpec /\ ConsoleFairness

----------------------------------------------------------------------------
\* The number of characters in the ring, and the characters themselves.
Held == (write + Size - read) % Size

Contents == [i \in 1 .. Held |-> input[(read + i - 1) % Size]]

\* A character leaves the ring as long as somebody waits for one: a reader
\* does not sleep on beside input.
InputWakes == \A t \in Readers : (t \in asleep /\ read # write) ~> (t \notin asleep \/ read = write)

Fifo == INSTANCE InputQueue WITH buffer <- Contents, Capacity <- Size - 1

\* The ring behaves as a queue of Size - 1 characters, whatever the order of
\* the interrupts and the readers.
ImplementsQueue == Fifo!Spec
=============================================================================
