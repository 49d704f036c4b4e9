----------------------------- MODULE KernelLog -----------------------------
(***************************************************************************)
(* The kernel log (kernel/cons/log.cpp): a ring of the newest records that *)
(* tasks and interrupt handlers append to, and that dmesg prints without   *)
(* keeping interrupts off, so that records are appended, and overwritten,  *)
(* between any two lines it prints.                                        *)
(***************************************************************************)
EXTENDS Naturals, Sequences, FiniteSets

CONSTANTS
  RECORD_COUNT,  \* slots of the ring, 128 in the code
  Messages,      \* what records say
  Levels,        \* 0 (Debug) and up
  MaxRecords,    \* records appended in a behaviour
  MaxDumps       \* runs of dmesg in a behaviour

ASSUME LogAssumption == RECORD_COUNT \in Nat \ {0} /\ Levels \subseteq Nat

VARIABLES
  records,        \* KernelLog::records_
  next_sequence,  \* KernelLog::next_sequence_
  console_level,  \* KernelLog::console_level_
  said,           \* every record that was ever appended, in order
  live,           \* the records append() printed, by their place in said
  dump,           \* the locals of dump(), and what it printed
  dumps

logVars == <<records, next_sequence, console_level, said, live, dump, dumps>>

Blank == [sequence |-> 0, level |-> 0, message |-> "blank"]
Idle == [pc |-> "idle"]

LogInit ==
  /\ records = [i \in 0 .. RECORD_COUNT - 1 |-> Blank]
  /\ next_sequence = 0 /\ said = <<>> /\ live = <<>>
  /\ console_level \in Levels
  /\ dump = Idle /\ dumps = 0

\* append(): the record is formatted first; then, in one section with
\* interrupts off, it is numbered, stored and printed.
append ==
  /\ next_sequence < MaxRecords
  /\ \E level \in Levels, message \in Messages :
       LET record == [sequence |-> next_sequence, level |-> level, message |-> message]
       IN /\ records' = [records EXCEPT ![next_sequence % RECORD_COUNT] = record]
          /\ said' = Append(said, record)
          /\ live' = IF level >= console_level THEN Append(live, next_sequence) ELSE live
  /\ next_sequence' = next_sequence + 1
  /\ UNCHANGED <<console_level, dump, dumps>>

set_console_level ==
  /\ console_level' \in Levels \ {console_level}
  /\ UNCHANGED <<records, next_sequence, said, live, dump, dumps>>

\* Mutant of dump_begin: the oldest record of a full ring is left out.
dump_begin_late ==
  /\ dump.pc \in {"idle", "done"} /\ dumps < MaxDumps /\ dumps' = dumps + 1
  /\ LET begin == IF next_sequence > RECORD_COUNT THEN next_sequence - RECORD_COUNT + 1 ELSE 0
     IN dump' = [pc |-> "read", begin |-> begin, end |-> next_sequence, sequence |-> begin,
                 record |-> Blank, overwritten |-> 0, printed |-> <<>>]
  /\ UNCHANGED <<records, next_sequence, console_level, said, live>>

\* dump(): the end of the history is read with interrupts off; the number of
\* records before its beginning is printed as discarded.
dump_begin ==
  /\ dump.pc \in {"idle", "done"} /\ dumps < MaxDumps /\ dumps' = dumps + 1
  /\ LET begin == IF next_sequence > RECORD_COUNT THEN next_sequence - RECORD_COUNT ELSE 0
     IN dump' = [pc |-> "read", begin |-> begin, end |-> next_sequence, sequence |-> begin,
                 record |-> Blank, overwritten |-> 0, printed |-> <<>>]
  /\ UNCHANGED <<records, next_sequence, console_level, said, live>>

\* The slot is copied with interrupts off.
dump_copy ==
  /\ dump.pc = "read" /\ dump.sequence < dump.end
  /\ dump' = [dump EXCEPT !.record = records[dump.sequence % RECORD_COUNT], !.pc = "print"]
  /\ UNCHANGED <<records, next_sequence, console_level, said, live, dumps>>

\* Mutant of dump_print: whatever is in the slot is printed.
dump_print_any ==
  /\ dump.pc = "print"
  /\ dump' = [dump EXCEPT !.pc = "read", !.sequence = @ + 1, !.printed = Append(@, dump.record)]
  /\ UNCHANGED <<records, next_sequence, console_level, said, live, dumps>>

\* A record that was overwritten is counted, another is printed; interrupts
\* are on.
dump_print ==
  /\ dump.pc = "print"
  /\ LET next == [dump EXCEPT !.pc = "read", !.sequence = @ + 1]
     IN dump' = IF dump.record.sequence # dump.sequence
                THEN [next EXCEPT !.overwritten = @ + 1]
                ELSE [next EXCEPT !.printed = Append(@, dump.record)]
  /\ UNCHANGED <<records, next_sequence, console_level, said, live, dumps>>

dump_end ==
  /\ dump.pc = "read" /\ dump.sequence = dump.end
  /\ dump' = [dump EXCEPT !.pc = "done"]
  /\ UNCHANGED <<records, next_sequence, console_level, said, live, dumps>>

LogNext ==
  append \/ set_console_level \/ dump_begin \/ dump_copy \/ dump_print \/ dump_end

LogSpec == LogInit /\ [][LogNext]_logVars

(***************************************************************************)
(* Properties                                                              *)
(***************************************************************************)

\* Record number s has left the ring when the next one is number newest.
Gone(s, newest) == s + RECORD_COUNT < newest

Printed == {dump.printed[i].sequence : i \in DOMAIN dump.printed}
Missed == (dump.begin .. dump.sequence - 1) \ Printed

\* What dmesg prints is the history as it was appended, each record whole,
\* once and in order, of every level, whatever is appended while it prints.
\* What is missing is accounted for: the records it says were discarded had
\* left the ring when it began, and of the others it misses exactly as many as
\* it says were overwritten, each of which had been by then.
\* (KernelLog::append, dump.)
DumpExact ==
  dump.pc # "idle" =>
    /\ \A i \in DOMAIN dump.printed :
         LET record == dump.printed[i]
         IN /\ record = said[record.sequence + 1]
            /\ i > 1 => record.sequence > dump.printed[i - 1].sequence
    /\ Printed \subseteq dump.begin .. dump.sequence - 1
    /\ \A s \in 0 .. dump.begin - 1 : Gone(s, dump.end)
    /\ \A s \in Missed : Gone(s, next_sequence)
    /\ Cardinality(Missed) = dump.overwritten
    /\ dump.pc = "done" => dump.sequence = dump.end
=============================================================================
