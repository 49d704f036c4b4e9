------------------------------- MODULE FileIo -------------------------------
(***************************************************************************)
(* A program's file calls: open, read, write and close over its table of   *)
(* descriptors (kernel/syscall/file.cpp, kernel/fs/fd.cpp), in chunks      *)
(* through a kernel page, down to the clusters of one FAT file             *)
(* (fat_vfs.cpp, FatInfo::do_file_io).                                     *)
(*                                                                         *)
(* Devices, allocations and the program's pages fail: a page that swap has *)
(* taken makes a copy fail, a cluster may not be readable or writable, and *)
(* the file's chain may be shorter than its size says.                     *)
(***************************************************************************)
EXTENDS Integers, Sequences, FiniteSetsExt

CONSTANTS
  BufferSize,      \* bytes of the kernel buffer
  ClusterSize,  \* bytes_per_cluster_
  Clusters,     \* the clusters of the volume
  Chains,       \* the cluster chains the file may have, none with a loop
  FileSize,     \* what its directory entry says
  MaxFd,        \* descriptors of a task
  MaxCount,     \* bytes a program asks for
  MaxCalls      \* reads and writes in a behaviour

\* Sequences of clusters in which none comes twice.
ClusterLists == {s \in Seq(Clusters) : \A i, j \in DOMAIN s : s[i] = s[j] => i = j}

ASSUME FileIoAssumption ==
  /\ BufferSize \in Nat \ {0} /\ ClusterSize \in Nat \ {0} /\ FileSize \in Nat
  /\ MaxFd \in Nat /\ MaxCount \in Nat
  /\ Chains \subseteq ClusterLists

VARIABLES
  disk,    \* the bytes of every cluster
  chain,   \* the file's clusters in order
  fds,     \* fd::Table: descriptor |-> offset of its open file, or Closed
  user,    \* the program's buffer
  call,    \* the call in progress, or what the last one returned
  before,  \* disk, buffer and offset when the call began
  calls

ioVars == <<disk, chain, fds, user, call, before, calls>>

Closed == FileSize + 1
Offsets == 0 .. MaxCount - 1

None == [pc |-> "none"]

IoInit ==
  /\ chain \in Chains
  /\ disk = [c \in Clusters |-> [i \in 0 .. ClusterSize - 1 |-> c * ClusterSize + i]]
  /\ fds = [fd \in 0 .. MaxFd - 1 |-> Closed]
  /\ user = [i \in Offsets |-> 20 + i]
  /\ call = None /\ before = None /\ calls = 0

Ready == call.pc \in {"none", "ret"}

(***************************************************************************)
(* The descriptor table                                                    *)
(***************************************************************************)

\* open: the path may be unreadable or lead nowhere; else the first descriptor
\* that is not used, and the handle is closed again when there is none.
Open ==
  /\ Ready /\ call' = None
  /\ LET unused == {fd \in DOMAIN fds : fds[fd] = Closed}
     IN \/ UNCHANGED fds
        \/ unused # {} /\ fds' = [fds EXCEPT ![Min(unused)] = 0]
  /\ UNCHANGED <<disk, chain, user, before, calls>>

Close ==
  /\ Ready /\ call' = None
  /\ \E fd \in DOMAIN fds : fds[fd] # Closed /\ fds' = [fds EXCEPT ![fd] = Closed]
  /\ UNCHANGED <<disk, chain, user, before, calls>>

(***************************************************************************)
(* sys_file_io                                                             *)
(***************************************************************************)

MinOf(a, b) == IF a < b THEN a ELSE b

\* Between two calls the program puts new data into its buffer.
NewBuffer == [i \in Offsets |-> 20 + (10 * (calls + 1)) + i]

Returns(c, result, fault) == [c EXCEPT !.pc = "ret", !.ret = result, !.fault = @ \/ fault]

\* The checks before the loop; a page of the buffer may be away, the kernel
\* may have no page, and then nothing happens.
sys_file_io ==
  /\ Ready /\ calls < MaxCalls /\ calls' = calls + 1
  /\ user' = NewBuffer
  /\ \E fd \in DOMAIN fds, op \in {"read", "write"}, count \in 1 .. MaxCount :
       LET start == [pc |-> "chunk", fd |-> fd, op |-> op, count |-> count, done |-> 0,
                     size |-> 0, skip |-> 0, solve |-> 0, next |-> 1, buf |-> <<>>,
                     ret |-> 0, fault |-> FALSE]
       IN /\ before' = [disk |-> disk, user |-> NewBuffer, offset |-> fds[fd]]
          /\ \/ fds[fd] # Closed /\ call' = start
             \/ call' = [start EXCEPT !.pc = "ret", !.ret = -1, !.fault = TRUE]
  /\ UNCHANGED <<disk, chain, fds>>

\* What copy_user moves in either direction, when all of the range is there.
copy_from_user(from, size) == [i \in 0 .. size - 1 |-> user[from + i]]
copy_to_user(to, bytes, size) ==
  [i \in Offsets |-> IF i >= to /\ i < to + size THEN bytes[i - to] ELSE user[i]]

Chunk == MinOf(call.count - call.done, BufferSize)
Leave == Returns(call, IF call.done = 0 THEN -1 ELSE call.done, TRUE)

\* do_file_io up to its loop, for the chunk at the descriptor's offset: the
\* size is cut at the end of the file.  (copy_from_user comes first.)
StartIo(c) ==
  LET offset == fds[c.fd]
  IN [c EXCEPT !.pc = "io", !.size = MinOf(Chunk, FileSize - offset), !.skip = offset,
               !.solve = 0, !.next = 1,
               !.buf = IF c.op = "write" THEN copy_from_user(c.done, Chunk)
                      ELSE [i \in 0 .. Chunk - 1 |-> 0]]

BeginChunk ==
  /\ call.pc = "chunk" /\ call.done < call.count
  /\ call' \in {StartIo(call), Leave}
  /\ UNCHANGED <<disk, chain, fds, user, before, calls>>

\* One turn of do_file_io's loop.  A cluster that is not wanted is read all
\* the same; one that is written is read first, and keeps its other bytes.
Within(i) == i >= call.skip /\ i - call.skip < call.size - call.solve

\* Mutant of Merged: the whole cluster is taken from the buffer's start.
MergedWhole(cluster) ==
  [i \in 0 .. ClusterSize - 1 |->
     IF call.solve + i \in DOMAIN call.buf THEN call.buf[call.solve + i] ELSE disk[cluster][i]]
Merged(cluster) ==
  [i \in 0 .. ClusterSize - 1 |->
     IF Within(i) THEN call.buf[call.solve + i - call.skip] ELSE disk[cluster][i]]
\* The buffer with the wanted bytes of the cluster copied into it.
Copied(cluster) ==
  [j \in DOMAIN call.buf |->
     IF j >= call.solve /\ Within(j - call.solve + call.skip) /\ j - call.solve + call.skip < ClusterSize
     THEN disk[cluster][j - call.solve + call.skip] ELSE call.buf[j]]

do_file_io ==
  /\ call.pc = "io" /\ call.solve < call.size /\ call.next <= Len(chain)
  /\ LET cluster == chain[call.next]
         count   == MinOf(ClusterSize - call.skip, call.size - call.solve)
         passed  == [call EXCEPT !.next = @ + 1]
         solved  == [passed EXCEPT !.skip = 0, !.solve = @ + count]
     IN \/ /\ call.skip >= ClusterSize
           /\ call' = [passed EXCEPT !.skip = @ - ClusterSize] /\ UNCHANGED disk
        \/ /\ call.skip < ClusterSize /\ call.op = "read"
           /\ call' = [solved EXCEPT !.buf = Copied(cluster)] /\ UNCHANGED disk
        \/ /\ call.skip < ClusterSize /\ call.op = "write"
           /\ disk' = [disk EXCEPT ![cluster] = Merged(cluster)] /\ call' = solved
        \* The read, or the walk to the cluster, fails.
        \/ call' = Leave /\ UNCHANGED disk
        \* The write fails, with or without effect.
        \/ /\ call.skip < ClusterSize /\ call.op = "write" /\ call' = Leave
           /\ disk' = [disk EXCEPT ![cluster] = Merged(cluster)]
  /\ UNCHANGED <<chain, fds, user, before, calls>>

\* The chain ends before the file does: BadFs.
ChainTooShort ==
  /\ call.pc = "io" /\ call.solve < call.size /\ call.next > Len(chain)
  /\ call' = Leave
  /\ UNCHANGED <<disk, chain, fds, user, before, calls>>

\* Mutant of EndChunk: the offset moves before the copy to the program.
EndChunkEarly ==
  /\ call.pc = "io" /\ call.solve = call.size
  /\ fds' = [fds EXCEPT ![call.fd] = @ + call.size]
  /\ \/ /\ user' = IF call.op = "write" THEN user
                   ELSE copy_to_user(call.done, call.buf, call.size)
        /\ call' = [call EXCEPT !.done = @ + call.size, !.pc = "next"]
     \/ call.op = "read" /\ call' = Leave /\ UNCHANGED user
  /\ UNCHANGED <<disk, chain, before, calls>>

\* The chunk is through: a read is copied to the program, which may fail; the
\* offset follows.
EndChunk ==
  /\ call.pc = "io" /\ call.solve = call.size
  /\ \/ /\ user' = IF call.op = "write" THEN user
                   ELSE copy_to_user(call.done, call.buf, call.size)
        /\ fds' = [fds EXCEPT ![call.fd] = @ + call.size]
        /\ call' = [call EXCEPT !.done = @ + call.size, !.pc = "next"]
     \/ call.op = "read" /\ call' = Leave /\ UNCHANGED <<user, fds>>
  /\ UNCHANGED <<disk, chain, before, calls>>

\* A short chunk ends the call.  (call.size = 0 at the end of the file.)
NextChunk ==
  /\ call.pc = "next"
  /\ call' = IF call.done = call.count \/ call.size < MinOf(call.count - call.done + call.size, BufferSize)
             THEN Returns(call, call.done, FALSE) ELSE [call EXCEPT !.pc = "chunk"]
  /\ UNCHANGED <<disk, chain, fds, user, before, calls>>

IoNext ==
  \/ Open \/ Close \/ sys_file_io \/ BeginChunk \/ do_file_io \/ ChainTooShort
  \/ EndChunk \/ NextChunk

IoSpec == IoInit /\ [][IoNext]_ioVars

(***************************************************************************)
(* Properties                                                              *)
(***************************************************************************)

\* The file's byte at a position, on a given disk, where its chain reaches.
Reaches(p) == (p \div ClusterSize) + 1 <= Len(chain)
ByteAt(d, p) == d[chain[(p \div ClusterSize) + 1]][p % ClusterSize]

\* A call that returns n transferred exactly the n bytes at the descriptor's
\* offset and moved the offset by n, through every failure half way.  A read
\* changes nothing on the disk and nothing of the buffer past n.  A write
\* changes nothing outside the bytes it was asked to write, neither of the
\* same cluster nor of another file's.  A call that meets no failure
\* transfers all the file has.
IoExact ==
  call.pc = "ret" =>
    LET n   == IF call.ret = -1 THEN 0 ELSE call.ret
        off == before.offset
        Written(c, i) == \E p \in off .. off + call.count - 1 :
                           p < FileSize /\ Reaches(p) /\ chain[(p \div ClusterSize) + 1] = c
                           /\ p % ClusterSize = i
    IN /\ fds[call.fd] = IF n = 0 THEN off ELSE off + n
       /\ \A i \in 0 .. n - 1 : user[i] = ByteAt(disk, off + i)
       /\ \A i \in n .. MaxCount - 1 : user[i] = before.user[i]
       /\ call.op = "read" => disk = before.disk
       /\ call.op = "write" =>
            /\ user = before.user
            /\ \A c \in Clusters, i \in 0 .. ClusterSize - 1 :
                 Written(c, i) \/ disk[c][i] = before.disk[c][i]
       /\ ~call.fault => n = MinOf(call.count, FileSize - off)
=============================================================================
