----------------------------- MODULE TrapProofs -----------------------------
(***************************************************************************)
(* Proofs about what is done for a user program: taking its traps (Trap)   *)
(* and serving its reads and writes (FileIo).                              *)
(***************************************************************************)
EXTENDS Trap, FileIo, SequenceTheorems, TLAPS

(***************************************************************************)
(* Traps are invisible: TrapTransparent for any number of tasks            *)
(***************************************************************************)

CpuFields == {"mode", "ie", "sp", "x", "fp", "vec", "scratch", "epc", "pmode", "pie", "pushed"}
Fp == KeptFp(cpu.fp)
OnStack(sp, t) == sp = KernelAddr(t, sp[3]) /\ sp[3] \in Nat

\* Where the code that a frame interrupted goes on.
ResumeSp(f, t, used) ==
  IF arch = "aarch64" /\ f.mode = "S" THEN KernelAddr(t, used - TF_SIZE) ELSE f.sp

\* Task t is in a trap: sp points at the one frame on its kernel stack, from
\* which its code can be resumed with the registers, sp and mode it had.
InTrap(t, sp, fp) ==
  LET f == stack[t][sp[3]]
  IN  /\ OnStack(sp, t) /\ DOMAIN stack[t] = {sp[3]} /\ sp[3] - TF_SIZE \in Nat
      /\ f.pie = TRUE /\ f.ie = FALSE /\ f.pc = "run"
      /\ \/ f.mode = "U" /\ sp[3] = TF_SIZE
         \/ f.mode = "S" /\ OnStack(ResumeSp(f, t, sp[3]), t)
      /\ Len(views[t]) \in {1, 2}
      /\ views[t][1] = [mode |-> f.mode, x |-> f.x, sp |-> ResumeSp(f, t, sp[3]), ie |-> TRUE, fp |-> fp]

\* A task's own code runs.
RunOK ==
  pc = "run" =>
    /\ cpu.ie = TRUE
    /\ views[cur] = <<View>>
    /\ DOMAIN stack[cur] = {}
    /\ \/ /\ cpu.mode = "U" /\ cpu.scratch = Top(cur)
          /\ cpu.vec = IF arch = "riscv64" THEN "user" ELSE "kernel"
       \/ cpu.mode = "S" /\ OnStack(cpu.sp, cur) /\ cpu.vec = "kernel"

\* The sp of the interrupted code, before the vector has saved it.
TrappedSp ==
  CASE arch = "riscv64" -> cpu.sp
    [] arch = "x86" -> cpu.pushed
    [] arch = "aarch64" -> IF cpu.pmode = "U" THEN cpu.scratch ELSE cpu.sp
TrappedView == [mode |-> cpu.pmode, x |-> cpu.x, sp |-> TrappedSp, ie |-> TRUE, fp |-> Fp]

\* The processor has taken a trap, and the vector has not run yet.
EntryOK ==
  pc = "entry" =>
    /\ cpu.mode = "S" /\ cpu.ie = FALSE /\ cpu.epc = "run" /\ cpu.pie = TRUE
    /\ views[cur] = <<TrappedView, TrappedView>>
    /\ DOMAIN stack[cur] = {}
    /\ \/ /\ cpu.pmode = "U"
          /\ IF arch = "riscv64" THEN cpu.vec = "user" /\ cpu.scratch = Top(cur)
             ELSE cpu.vec = "kernel" /\ cpu.sp = Top(cur)
       \/ /\ cpu.pmode = "S"
          /\ cpu.vec = "kernel" /\ OnStack(cpu.sp, cur) /\ TrappedSp = cpu.sp

\* From the first line of trap_dispatch to the return instruction.
HandlerOK ==
  pc \in {"dispatch", "resched", "trapret", "restore"} =>
    /\ cpu.mode = "S" /\ cpu.ie = FALSE
    /\ InTrap(cur, cpu.sp, Fp)
    /\ pc # "restore" => cpu.vec = "kernel"
    /\ pc \in {"dispatch", "resched"} => views[cur] = <<views[cur][1], View>>

\* The status registers are ready for the return.
RestoreOK ==
  pc = "restore" =>
    /\ cpu.epc = "run" /\ cpu.pie = TRUE /\ cpu.pmode = Frame.mode
    /\ cpu.vec = IF arch = "riscv64" /\ Frame.mode = "U" THEN "user" ELSE "kernel"
    /\ arch = "riscv64" /\ Frame.mode = "U" => cpu.scratch = Top(cur)
    /\ arch = "aarch64" => cpu.scratch = Frame.sp

\* A task that was switched away from.
SuspendedOK(t) ==
  LET c == context[t]
  IN  \/ c.pc \in {"forkret", "trapret"} /\ c.ie = FALSE /\ InTrap(t, c.sp, KeptFp(c.fp))
      \/ /\ c.pc = "resched" /\ c.ie = FALSE /\ InTrap(t, c.sp, KeptFp(c.fp))
         /\ views[t] = <<views[t][1], [mode |-> "S", x |-> c.x, sp |-> c.sp, ie |-> FALSE, fp |-> KeptFp(c.fp)]>>
      \/ /\ c.pc = "run" /\ c.ie = TRUE /\ OnStack(c.sp, t) /\ DOMAIN stack[t] = {}
         /\ views[t] = <<[mode |-> "S", x |-> c.x, sp |-> c.sp, ie |-> TRUE, fp |-> KeptFp(c.fp)]>>

PlacesOK ==
  /\ arch \in {"riscv64", "x86", "aarch64"}
  /\ pc \in {"run", "entry", "dispatch", "resched", "trapret", "restore"}
  /\ DOMAIN cpu = CpuFields
  /\ DOMAIN stack = Tasks /\ DOMAIN context = Tasks /\ DOMAIN views = Tasks
  /\ cur \in alive /\ alive \subseteq Tasks
  /\ inService \in BOOLEAN
  /\ inService => cause \in Irqs /\ pc \in {"entry", "dispatch"}
  /\ arch = "x86" => cpu.scratch = Top(cur)

TrapIInv ==
  /\ PlacesOK /\ RunOK /\ EntryOK /\ HandlerOK /\ RestoreOK
  /\ \A t \in alive \ {cur} : SuspendedOK(t)

LEMMA TfSize == PlacesOK => TF_SIZE \in Nat \ {0} /\ (arch = "x86" => TF_SIZE = 22)
BY DEF PlacesOK, TF_SIZE

LEMMA StillTrapped ==
  ASSUME NEW t, NEW s, NEW f, InTrap(t, s, f), stack'[t] = stack[t], views'[t] = views[t], arch' = arch
  PROVE  InTrap(t, s, f)'
BY Zenon DEF InTrap, OnStack, ResumeSp, KernelAddr, TF_SIZE

LEMMA StillSuspended ==
  ASSUME NEW t, SuspendedOK(t), stack'[t] = stack[t], views'[t] = views[t], context'[t] = context[t], arch' = arch
  PROVE  SuspendedOK(t)'
BY StillTrapped, Zenon DEF SuspendedOK, OnStack, KernelAddr, KeptFp, FreshFp

\* A step of the current task leaves the suspended ones as they are.
LEMMA OthersSuspended ==
  ASSUME TrapIInv, arch' = arch, cur' = cur, alive' = alive, context' = context,
         \A u \in alive \ {cur} : stack'[u] = stack[u] /\ views'[u] = views[u]
  PROVE  \A u \in alive' \ {cur'} : SuspendedOK(u)'
BY StillSuspended, Zenon DEF TrapIInv

LEMMA ForkInv ==
  ASSUME TrapIInv, NEW t \in Tasks, Fork(t) PROVE TrapIInv'
<1>0. /\ pc = "run" /\ pc' = "run" /\ t \notin alive /\ t # cur /\ cur \in Tasks /\ alive' = alive \cup {t}
      /\ UNCHANGED <<arch, cpu, cause, cur, inService>>
  BY Zenon DEF Fork, TrapIInv, PlacesOK
<1>1. PICK tf : /\ \/ tf.mode = "U"
                   \/ tf.mode = "S" /\ tf.sp = KernelAddr(t, TF_SIZE)
                /\ tf.pie = TRUE /\ tf.ie = FALSE /\ tf.pc = "run"
                /\ stack' = [stack EXCEPT ![t] = [a \in {TF_SIZE} |-> tf]]
                /\ context' = [context EXCEPT ![t] = [sp |-> KernelAddr(t, TF_SIZE), x |-> "zero",
                                                      pc |-> "forkret", ie |-> FALSE, fp |-> FreshFp]]
                /\ views' = [views EXCEPT ![t] = << [mode |-> tf.mode, x |-> tf.x, sp |-> FirstSp(tf, t),
                                                     ie |-> TRUE, fp |-> FreshFp] >>]
  <2>1. ASSUME NEW source, source \in {arch_setup_kthread_tf(<<t, 0>>), arch_setup_user_tf(t, <<t, 0>>)},
               copy_thread(t, source)
        PROVE  \E tf : /\ \/ tf.mode = "U"
                          \/ tf.mode = "S" /\ tf.sp = KernelAddr(t, TF_SIZE)
                       /\ tf.pie = TRUE /\ tf.ie = FALSE /\ tf.pc = "run"
                       /\ stack' = [stack EXCEPT ![t] = [a \in {TF_SIZE} |-> tf]]
                       /\ context' = [context EXCEPT ![t] = [sp |-> KernelAddr(t, TF_SIZE), x |-> "zero",
                                                             pc |-> "forkret", ie |-> FALSE, fp |-> FreshFp]]
                       /\ views' = [views EXCEPT ![t] = << [mode |-> tf.mode, x |-> tf.x, sp |-> FirstSp(tf, t),
                                                            ie |-> TRUE, fp |-> FreshFp] >>]
    <3> DEFINE tf == arch_fixup_fork_tf(source, t)
    <3>1. tf.pie = TRUE /\ tf.ie = FALSE /\ tf.pc = "run"
      BY <2>1 DEF arch_fixup_fork_tf, arch_setup_kthread_tf, arch_setup_user_tf, TrapFrame
    <3>2. tf.mode = "U" \/ (tf.mode = "S" /\ tf.sp = KernelAddr(t, TF_SIZE))
      <4>1. CASE source = arch_setup_kthread_tf(<<t, 0>>)
        <5>1. source.mode = "S" /\ "sp" \in DOMAIN source /\ "mode" \in DOMAIN source
          BY <4>1, Zenon DEF arch_setup_kthread_tf, TrapFrame
        <5>2. tf = [source EXCEPT !.sp = KernelAddr(t, TF_SIZE)]
          BY <5>1, Zenon DEF arch_fixup_fork_tf
        <5> QED BY <5>1, <5>2, Zenon
      <4>2. CASE source = arch_setup_user_tf(t, <<t, 0>>)
        <5>1. source.mode = "U"
          BY <4>2, Zenon DEF arch_setup_user_tf, TrapFrame
        <5>2. tf = source
          BY <5>1, Zenon DEF arch_fixup_fork_tf
        <5> QED BY <5>1, <5>2, Zenon
      <4> QED BY <2>1, <4>1, <4>2, Zenon
    <3> HIDE DEF tf
    <3> QED BY <2>1, <3>1, <3>2, Zenon DEF copy_thread, tf
  <2> QED BY <2>1, Zenon DEF Fork
<1>2. \A u \in Tasks \ {t} : stack'[u] = stack[u] /\ context'[u] = context[u] /\ views'[u] = views[u]
  BY <1>1, Zenon DEF TrapIInv, PlacesOK
<1>3. /\ DOMAIN stack'[t] = {TF_SIZE} /\ stack'[t][TF_SIZE] = tf
      /\ context'[t] = [sp |-> KernelAddr(t, TF_SIZE), x |-> "zero", pc |-> "forkret", ie |-> FALSE, fp |-> FreshFp]
      /\ views'[t] = << [mode |-> tf.mode, x |-> tf.x, sp |-> FirstSp(tf, t), ie |-> TRUE, fp |-> FreshFp] >>
  BY <1>1, Zenon DEF TrapIInv, PlacesOK
<1>4. PlacesOK'
  BY <1>0, <1>1, Zenon DEF TrapIInv, PlacesOK, Top, KernelAddr
<1>5. KeptFp(context[t].fp)' = FreshFp
  BY <1>3 DEF KeptFp, FreshFp
<1>6. RunOK' /\ EntryOK' /\ HandlerOK' /\ RestoreOK'
  BY <1>0, <1>2, Zenon DEF TrapIInv, RunOK, EntryOK, HandlerOK, RestoreOK, View, Fp, KeptFp, FreshFp, OnStack, Top, KernelAddr
<1>7. ASSUME NEW u \in alive' \ {cur'} PROVE SuspendedOK(u)'
  <2>1. CASE u = t
    <3>1. TF_SIZE \in Nat \ {0} /\ TF_SIZE' = TF_SIZE
      BY <1>0, TfSize, Zenon DEF TrapIInv, TF_SIZE
    <3>2. KernelAddr(t, TF_SIZE)[3] = TF_SIZE /\ TF_SIZE - TF_SIZE = 0
      BY <3>1 DEF KernelAddr
    <3>3. Len(views'[t]) = 1 /\ views'[t][1] = [mode |-> tf.mode, x |-> tf.x, sp |-> FirstSp(tf, t), ie |-> TRUE,
                                                fp |-> FreshFp]
      BY <1>3
    <3>4. FirstSp(tf, t) = IF arch = "aarch64" /\ tf.mode = "S" THEN KernelAddr(t, TF_SIZE - TF_SIZE) ELSE tf.sp
      BY <3>2, Zenon DEF FirstSp, Top
    <3>5. tf.mode = "S" => OnStack(FirstSp(tf, t), t)
      BY <1>1, <3>1, <3>2, <3>4 DEF OnStack, KernelAddr
    <3>6. PICK k \in Nat : k = TF_SIZE
      BY <3>1, Zenon
    <3>7. PICK a : a = KernelAddr(t, k) /\ a[3] = k
      BY <3>2, <3>6, Zenon
    <3>8. PICK sp : sp = FirstSp(tf, t)
      BY Zenon
    <3>9. ResumeSp(tf, t, k)' = sp
      BY <1>0, <3>1, <3>4, <3>6, <3>8, Zenon DEF ResumeSp, KernelAddr
    <3>10. InTrap(t, a, FreshFp)'
      <4>1. OnStack(a, t)' /\ (tf.mode = "S" => OnStack(sp, t)')
        BY <3>5, <3>7, <3>8, Zenon DEF OnStack, KernelAddr
      <4>2. k - TF_SIZE' = 0
        BY <3>1, <3>6
      <4>3. stack'[t][a[3]] = tf /\ DOMAIN stack'[t] = {a[3]} /\ a[3] - TF_SIZE' \in Nat
        BY <1>3, <3>6, <3>7, <4>2
      <4>4. ResumeSp(tf, t, a[3])' = sp /\ a[3] = TF_SIZE'
        BY <3>1, <3>6, <3>7, <3>9, Zenon
      <4>5. tf.mode = "S" => OnStack(ResumeSp(tf, t, a[3])', t)
        BY <4>1, <4>4, Zenon DEF OnStack, KernelAddr
      <4>6. views'[t][1] = [mode |-> tf.mode, x |-> tf.x, sp |-> sp, ie |-> TRUE, fp |-> FreshFp] /\ Len(views'[t]) = 1
        BY <3>3, <3>8, Zenon
      <4> QED BY <1>1, <4>1, <4>3, <4>4, <4>5, <4>6, Zenon DEF InTrap, FreshFp, OnStack, KernelAddr
    <3> QED BY <1>3, <1>5, <2>1, <3>6, <3>7, <3>10 DEF SuspendedOK, FreshFp
  <2>2. CASE u # t
    BY <1>0, <1>2, <1>7, <2>2, StillSuspended, Zenon DEF TrapIInv, PlacesOK
  <2> QED BY <2>1, <2>2, Zenon
<1> QED BY <1>4, <1>6, <1>7, Zenon DEF TrapIInv

LEMMA ComputeInv ==
  ASSUME TrapIInv, Compute PROVE TrapIInv'
<1>0. /\ pc = "run" /\ pc' = "run" /\ cur \in Tasks /\ DOMAIN cpu = CpuFields
      /\ UNCHANGED <<arch, cause, cur, alive, stack, context, inService>>
  BY Zenon DEF Compute, TrapIInv, PlacesOK
<1>1. /\ cpu' = [cpu EXCEPT !.x = cpu'.x, !.fp = cpu'.fp]
      /\ views'[cur] = << [views[cur][1] EXCEPT !.x = cpu'.x, !.fp = Fp'] >>
      /\ \A u \in alive \ {cur} : views'[u] = views[u]
      /\ DOMAIN views' = DOMAIN views
  BY <1>0, Zenon DEF Compute, TrapIInv, PlacesOK, CpuFields, Fp, KeptFp, FreshFp
<1>2. /\ DOMAIN cpu' = CpuFields /\ cpu'.ie = cpu.ie /\ cpu'.mode = cpu.mode /\ cpu'.sp = cpu.sp
      /\ cpu'.scratch = cpu.scratch /\ cpu'.vec = cpu.vec
  BY <1>0, <1>1, Zenon DEF CpuFields
<1>3. PlacesOK'
  BY <1>0, <1>1, <1>2, Zenon DEF TrapIInv, PlacesOK, Top, KernelAddr
<1>4. views'[cur] = <<View'>>
  <2>1. views[cur][1] = View
    BY <1>0 DEF TrapIInv, RunOK
  <2>2. PICK m, x, y, p, i, f, g : /\ m = cpu.mode /\ x = cpu.x /\ y = cpu'.x /\ p = cpu.sp /\ i = cpu.ie
                                   /\ f = Fp /\ g = Fp'
    BY Zenon
  <2>3. PICK v : v = View /\ v = [mode |-> m, x |-> x, sp |-> p, ie |-> i, fp |-> f]
    BY <2>2, Zenon DEF View, Fp
  <2>4. [v EXCEPT !.x = y, !.fp = g] = [mode |-> m, x |-> y, sp |-> p, ie |-> i, fp |-> g]
    <3> DEFINE w == [mode |-> m, x |-> y, sp |-> p, ie |-> i, fp |-> f]
    <3>1. [v EXCEPT !.x = y] = w
      BY ONLY <2>3
    <3>2. [w EXCEPT !.fp = g] = [mode |-> m, x |-> y, sp |-> p, ie |-> i, fp |-> g]
      BY ONLY TRUE
    <3>3. [v EXCEPT !.x = y, !.fp = g] = [[v EXCEPT !.x = y] EXCEPT !.fp = g]
      BY ONLY Zenon
    <3> HIDE DEF w
    <3> QED BY ONLY <3>1, <3>2, <3>3, Zenon
  <2>5. View' = [mode |-> m, x |-> y, sp |-> p, ie |-> i, fp |-> g]
    BY <1>2, <2>2, Zenon DEF View, Fp
  <2> QED BY <1>1, <2>1, <2>2, <2>3, <2>4, <2>5, Zenon
<1>5. RunOK' /\ EntryOK' /\ HandlerOK' /\ RestoreOK'
  BY <1>0, <1>2, <1>4, Zenon DEF TrapIInv, RunOK, EntryOK, HandlerOK, RestoreOK, OnStack, Top, KernelAddr
<1>6. \A u \in alive' \ {cur'} : SuspendedOK(u)'
  BY <1>0, <1>1, OthersSuspended, Zenon
<1> QED BY <1>3, <1>5, <1>6, Zenon DEF TrapIInv

LEMMA TakenInv ==
  ASSUME TrapIInv, Trap PROVE TrapIInv'
<1>0. PICK c \in Causes : Taken(c)
  BY Zenon DEF Trap
<1>1. /\ pc = "run" /\ pc' = "entry" /\ cause' = c /\ inService = FALSE /\ cpu.ie = TRUE
      /\ inService' = (c \in Irqs) /\ cur \in Tasks /\ DOMAIN cpu = CpuFields
      /\ UNCHANGED <<arch, cur, alive, stack, context>>
      /\ views' = [views EXCEPT ![cur] = <<View, View>>]
  BY <1>0 DEF Trap, Taken, Irqs, TrapIInv, PlacesOK, RunOK, EntryOK, HandlerOK
<1>2. /\ DOMAIN cpu' = CpuFields /\ cpu'.mode = "S" /\ cpu'.ie = FALSE /\ cpu'.epc = "run"
      /\ cpu'.pmode = cpu.mode /\ cpu'.pie = TRUE /\ cpu'.x = cpu.x /\ cpu'.fp = cpu.fp /\ cpu'.vec = cpu.vec
      /\ cpu'.pushed = IF arch = "x86" THEN cpu.sp ELSE cpu.pushed
      /\ cpu'.sp = IF cpu.mode = "U" /\ arch # "riscv64" THEN cpu.scratch ELSE cpu.sp
      /\ cpu'.scratch = IF cpu.mode = "U" /\ arch = "aarch64" THEN cpu.sp ELSE cpu.scratch
  BY <1>0, <1>1, Zenon DEF Taken, CpuFields
<1>3. views'[cur] = <<View, View>> /\ \A u \in alive \ {cur} : views'[u] = views[u]
  BY <1>1, Zenon DEF TrapIInv, PlacesOK
<1>4. PlacesOK'
  BY <1>1, <1>2 DEF TrapIInv, PlacesOK, Top, KernelAddr
<1>5. TrappedView' = View /\ TrappedSp' = cpu.sp
  <2>1. TrappedSp' = cpu.sp
    BY <1>1, <1>2, Zenon DEF TrappedSp, TrapIInv, PlacesOK, RunOK
  <2> QED BY <1>1, <1>2, <2>1, Zenon DEF TrappedView, View, Fp, KeptFp, FreshFp
<1>6. EntryOK'
  BY <1>1, <1>2, <1>3, <1>5, Zenon DEF EntryOK, TrapIInv, RunOK, OnStack, Top, KernelAddr
<1>7. RunOK' /\ HandlerOK' /\ RestoreOK'
  BY <1>1, Zenon DEF RunOK, HandlerOK, RestoreOK
<1>8. \A u \in alive' \ {cur'} : SuspendedOK(u)'
  BY <1>1, <1>3, OthersSuspended, Zenon
<1> QED BY <1>4, <1>6, <1>7, <1>8, Zenon DEF TrapIInv

LEMMA EntryInv ==
  ASSUME TrapIInv, Entry PROVE TrapIInv'
<1> DEFINE e == CASE arch = "riscv64" /\ cpu.vec = "kernel" -> kernel_trap_vec
                  [] arch = "riscv64" /\ cpu.vec = "user" -> user_trap_vec
                  [] arch = "x86" -> _trap_entry
                  [] arch = "aarch64" -> SAVE_ALL
           n == IF cpu.pmode = "U" THEN 0 ELSE cpu.sp[3]
           k == n + TF_SIZE
           fsp == CASE arch = "riscv64" -> cpu.sp [] arch = "x86" -> cpu.pushed [] arch = "aarch64" -> cpu.scratch
<1>0. /\ pc = "entry" /\ pc' = "dispatch" /\ cur \in Tasks /\ DOMAIN cpu = CpuFields
      /\ UNCHANGED <<arch, cause, cur, alive, context, inService>>
      /\ cpu.mode = "S" /\ cpu.ie = FALSE /\ cpu.epc = "run" /\ cpu.pie = TRUE
      /\ arch \in {"riscv64", "x86", "aarch64"}
  BY Zenon DEF Entry, TrapIInv, PlacesOK, EntryOK
<1>1. n \in Nat /\ TF_SIZE \in Nat \ {0} /\ k \in Nat /\ k - TF_SIZE = n /\ TF_SIZE' = TF_SIZE
  <2>1. n \in Nat
    BY <1>0, Zenon DEF TrapIInv, EntryOK, OnStack
  <2>2. TF_SIZE \in Nat \ {0} /\ TF_SIZE' = TF_SIZE
    BY <1>0, TfSize, Zenon DEF TrapIInv, TF_SIZE
  <2> QED BY <2>1, <2>2
<1>2. e.base = KernelAddr(cur, n) /\ e.words = TF_SIZE /\ e.frame = Saved(fsp)
  <2>1. CASE arch = "riscv64"
    BY <1>0, <2>1, Zenon DEF TrapIInv, EntryOK, kernel_trap_vec, user_trap_vec, Top, KernelAddr, OnStack
  <2>2. CASE arch = "x86"
    <3>1. HardwareWords(cause) + StubWords(cause) + 15 = TF_SIZE
      BY <2>2, TfSize DEF TrapIInv, HardwareWords, StubWords
    <3> QED BY <1>0, <2>2, <3>1, Zenon DEF TrapIInv, EntryOK, _trap_entry, Top, KernelAddr, OnStack
  <2>3. CASE arch = "aarch64"
    BY <1>0, <2>3, Zenon DEF TrapIInv, EntryOK, SAVE_ALL, Top, KernelAddr, OnStack
  <2> QED BY <1>0, <2>1, <2>2, <2>3, Zenon
<1>3. /\ DOMAIN e.cpu = CpuFields /\ e.cpu.mode = "S" /\ e.cpu.ie = FALSE /\ e.cpu.fp = cpu.fp
      /\ e.cpu.vec = "kernel" /\ (arch = "x86" => e.cpu.scratch = cpu.scratch)
  <2>1. CASE arch = "riscv64"
    BY <1>0, <2>1, Zenon DEF TrapIInv, EntryOK, kernel_trap_vec, user_trap_vec, CpuFields
  <2>2. CASE arch # "riscv64"
    BY <1>0, <2>2, Zenon DEF TrapIInv, EntryOK, _trap_entry, SAVE_ALL, CpuFields
  <2> QED BY <2>1, <2>2, Zenon
<1>4. /\ cpu' = [e.cpu EXCEPT !.sp = KernelAddr(e.base[1], e.base[3] + e.words), !.x = <<cur, 2>>]
      /\ stack' = [stack EXCEPT ![e.base[1]] =
             [a \in {b \in DOMAIN stack[e.base[1]] : b <= e.base[3]} \cup {e.base[3] + e.words} |->
                IF a = e.base[3] + e.words THEN e.frame ELSE stack[e.base[1]][a]]]
      /\ views' = [views EXCEPT ![cur] = [views[cur] EXCEPT ![2] = [View EXCEPT !.sp = cpu'.sp, !.x = cpu'.x]]]
  BY Zenon DEF Entry
<1> HIDE DEF e
<1>5. e.base[1] = cur /\ e.base[3] = n /\ e.base[3] + e.words = k
  BY <1>2 DEF KernelAddr
<1>6. /\ DOMAIN cpu' = CpuFields /\ cpu'.sp = KernelAddr(cur, k) /\ cpu'.mode = "S" /\ cpu'.ie = FALSE
      /\ cpu'.fp = cpu.fp /\ cpu'.vec = "kernel" /\ (arch = "x86" => cpu'.scratch = cpu.scratch)
  BY <1>3, <1>4, <1>5, Zenon DEF CpuFields
<1>7. /\ DOMAIN stack'[cur] = {k} /\ stack'[cur][k] = Saved(fsp) /\ DOMAIN stack' = Tasks
      /\ \A u \in Tasks \ {cur} : stack'[u] = stack[u]
  <2>1. DOMAIN stack[cur] = {} /\ DOMAIN stack = Tasks
    BY <1>0, Zenon DEF TrapIInv, PlacesOK, EntryOK
  <2>2. {b \in DOMAIN stack[cur] : b <= n} \cup {k} = {k}
    BY <2>1, Zenon
  <2> DEFINE F == [a \in {b \in DOMAIN stack[e.base[1]] : b <= e.base[3]} \cup {e.base[3] + e.words} |->
                     IF a = e.base[3] + e.words THEN e.frame ELSE stack[e.base[1]][a]]
  <2> HIDE DEF k, n, fsp
  <2>3. DOMAIN F = {k} /\ F[k] = Saved(fsp)
    BY <1>2, <1>5, <2>2, Zenon
  <2>4. stack' = [stack EXCEPT ![cur] = F]
    BY <1>4, <1>5, Zenon
  <2> HIDE DEF F
  <2> QED BY <1>0, <2>1, <2>3, <2>4, Zenon
<1>8. /\ DOMAIN views' = Tasks /\ \A u \in Tasks \ {cur} : views'[u] = views[u]
      /\ views'[cur] = <<TrappedView, View'>>
  <2>1. views[cur] = <<TrappedView, TrappedView>> /\ DOMAIN views = Tasks
    BY <1>0, Zenon DEF TrapIInv, PlacesOK, EntryOK
  <2>2. [View EXCEPT !.sp = cpu'.sp, !.x = cpu'.x] = View'
    <3>1. PICK m, i, x, y, p, q, f : /\ m = cpu.mode /\ i = cpu.ie /\ x = cpu.x /\ y = cpu'.x /\ p = cpu.sp
                                     /\ q = cpu'.sp /\ f = Fp
      BY Zenon
    <3>2. PICK v : v = View /\ v = [mode |-> m, x |-> x, sp |-> p, ie |-> i, fp |-> f]
      BY <3>1, Zenon DEF View, Fp
    <3> DEFINE w == [mode |-> m, x |-> x, sp |-> q, ie |-> i, fp |-> f]
    <3>3. [v EXCEPT !.sp = q] = w
      BY ONLY <3>2
    <3>4. [w EXCEPT !.x = y] = [mode |-> m, x |-> y, sp |-> q, ie |-> i, fp |-> f]
      BY ONLY TRUE
    <3>5. [v EXCEPT !.sp = q, !.x = y] = [[v EXCEPT !.sp = q] EXCEPT !.x = y]
      BY ONLY Zenon
    <3>6. View' = [mode |-> m, x |-> y, sp |-> q, ie |-> i, fp |-> f]
      <4>1. cpu'.ie = cpu.ie /\ cpu'.mode = cpu.mode /\ Fp' = Fp
        BY <1>0, <1>6, Zenon DEF Fp, KeptFp, FreshFp
      <4> QED BY <3>1, <4>1, Zenon DEF View, Fp
    <3> HIDE DEF w
    <3>7. [v EXCEPT !.sp = q, !.x = y] = View'
      BY ONLY <3>3, <3>4, <3>5, <3>6, Zenon
    <3> QED BY <3>1, <3>2, <3>7, Zenon
  <2>3. [<<TrappedView, TrappedView>> EXCEPT ![2] = View'] = <<TrappedView, View'>>
    OBVIOUS
  <2>4. views' = [views EXCEPT ![cur] = <<TrappedView, View'>>]
    BY <1>4, <2>1, <2>2, <2>3, Zenon
  <2> QED BY <1>0, <2>1, <2>4, Zenon
<1>9. PlacesOK'
  BY <1>0, <1>6, <1>7, <1>8, Zenon DEF TrapIInv, PlacesOK, Top, KernelAddr
<1>10. RunOK' /\ EntryOK' /\ RestoreOK'
  BY <1>0, Zenon DEF RunOK, EntryOK, RestoreOK
<1>11. InTrap(cur, cpu.sp, Fp)'
  <2>1. cpu'.sp[3] = k /\ OnStack(cpu'.sp, cur)
    BY <1>1, <1>6 DEF OnStack, KernelAddr
  <2>2. PICK f : /\ f = Saved(fsp) /\ f.mode = cpu.pmode /\ f.pie = TRUE /\ f.ie = FALSE /\ f.pc = "run"
                 /\ f.x = cpu.x /\ f.sp = fsp
    <3> HIDE DEF fsp
    <3>1. /\ Saved(fsp).mode = cpu.pmode /\ Saved(fsp).pie = cpu.pie /\ Saved(fsp).ie = cpu.ie
          /\ Saved(fsp).pc = cpu.epc /\ Saved(fsp).x = cpu.x /\ Saved(fsp).sp = fsp
      BY Zenon DEF Saved
    <3> QED BY <1>0, <3>1, Zenon
  <2>3. /\ \/ cpu.pmode = "U" /\ k = TF_SIZE
           \/ cpu.pmode = "S" /\ OnStack(cpu.sp, cur) /\ TrappedSp = cpu.sp /\ cpu.sp = KernelAddr(cur, n)
    BY <1>0, <1>1 DEF TrapIInv, EntryOK, OnStack
  <2>4. (IF arch = "aarch64" /\ f.mode = "S" THEN KernelAddr(cur, k - TF_SIZE) ELSE f.sp) = TrappedSp
    BY <1>0, <1>1, <2>2, <2>3, Zenon DEF TrappedSp
  <2>5. Len(views'[cur]) = 2 /\ views'[cur][1] = TrappedView
    BY <1>8
  <2>6. stack'[cur][k] = f /\ DOMAIN stack'[cur] = {k}
    BY <1>7, <2>2, Zenon
  <2>7. (IF arch' = "aarch64" /\ f.mode = "S" THEN KernelAddr(cur', k - TF_SIZE') ELSE f.sp) = TrappedSp
    BY <1>0, <1>1, <2>4, Zenon
  <2>8. /\ k - TF_SIZE' \in Nat
        /\ (f.mode = "U" /\ k = TF_SIZE') \/ (f.mode = "S" /\ OnStack(TrappedSp, cur))
        /\ TrappedView = [mode |-> f.mode, x |-> f.x, sp |-> TrappedSp, ie |-> TRUE, fp |-> Fp']
    BY <1>0, <1>1, <1>6, <2>2, <2>3, Zenon DEF TrappedView, Fp, KeptFp, FreshFp
  <2> HIDE DEF k, n, fsp
  <2> QED BY <1>0, <2>1, <2>2, <2>5, <2>6, <2>7, <2>8, Zenon DEF InTrap, ResumeSp, OnStack, KernelAddr
<1>12. HandlerOK'
  BY <1>0, <1>6, <1>8, <1>11 DEF HandlerOK
<1>13. \A u \in alive' \ {cur'} : SuspendedOK(u)'
  BY <1>0, <1>7, <1>8, OthersSuspended, Zenon DEF TrapIInv, PlacesOK
<1> QED BY <1>9, <1>10, <1>12, <1>13, Zenon DEF TrapIInv

LEMMA HandleInv ==
  ASSUME TrapIInv, Handle PROVE TrapIInv'
<1>0. /\ pc = "dispatch" /\ pc' = "resched" /\ cur \in Tasks
      /\ UNCHANGED <<arch, cpu, cause, cur, alive, stack, context, views>>
      /\ inService' = FALSE
  BY Zenon DEF Handle, TrapIInv, PlacesOK, riscv64_try_handle_irq, aarch64_try_handle_irq, x86_post_dispatch
<1>1. PlacesOK'
  BY <1>0, Zenon DEF TrapIInv, PlacesOK, Top, KernelAddr
<1>2. RunOK' /\ EntryOK' /\ RestoreOK'
  BY <1>0, Zenon DEF RunOK, EntryOK, RestoreOK
<1>3. HandlerOK'
  <2>1. InTrap(cur, cpu.sp, Fp)
    BY <1>0, Zenon DEF TrapIInv, HandlerOK
  <2>2. InTrap(cur, cpu.sp, Fp)'
    BY <1>0, <2>1, StillTrapped, Zenon DEF Fp, KeptFp, FreshFp
  <2> QED BY <1>0, <2>2, Zenon DEF TrapIInv, HandlerOK, View, KeptFp, FreshFp
<1>4. \A u \in alive' \ {cur'} : SuspendedOK(u)'
  BY <1>0, OthersSuspended, Zenon
<1> QED BY <1>1, <1>2, <1>3, <1>4, Zenon DEF TrapIInv

\* Task::run: the next task goes on where it left, if the one that is left
\* behind can be resumed in its turn.
LEMMA SwitchInv ==
  ASSUME TrapIInv, NEW next \in alive, NEW resume, SwitchTo(next, resume),
         cpu.mode = "S", cpu.vec = "kernel", inService = FALSE, inService' = FALSE,
         UNCHANGED <<arch, cause, stack, views>>,
         alive' = alive \/ alive' = alive \ {cur},
         NEW left, left = cur, left \in alive' => SuspendedOK(left)'
  PROVE  TrapIInv'
<1> DEFINE to == context[next]
<1>0. /\ next # cur /\ cur' = next /\ next \in Tasks /\ cur \in Tasks /\ DOMAIN cpu = CpuFields
      /\ context' = [context EXCEPT ![cur] = [sp |-> cpu.sp, x |-> cpu.x, pc |-> resume, ie |-> cpu.ie, fp |-> cpu.fp]]
      /\ pc' = IF to.pc = "forkret" THEN "trapret" ELSE to.pc
      /\ SuspendedOK(next) /\ arch \in {"riscv64", "x86", "aarch64"} /\ DOMAIN context = Tasks
  BY Zenon DEF SwitchTo, TrapIInv, PlacesOK
<1>1. /\ DOMAIN cpu' = CpuFields /\ cpu'.sp = to.sp /\ cpu'.x = to.x /\ cpu'.ie = to.ie
      /\ cpu'.fp = IF arch = "x86" THEN to.fp ELSE cpu.fp
      /\ cpu'.mode = cpu.mode /\ cpu'.vec = cpu.vec
      /\ arch = "x86" => cpu'.scratch = Top(next)
  <2>1. CASE arch = "riscv64"
    BY <1>0, <2>1, Zenon DEF SwitchTo, riscv64_switch_to, arch_set_kernel_stack, CpuFields
  <2>2. CASE arch = "x86"
    BY <1>0, <2>2, Zenon DEF SwitchTo, x86_switch_to, arch_set_kernel_stack, CpuFields
  <2>3. CASE arch = "aarch64"
    BY <1>0, <2>3, Zenon DEF SwitchTo, aarch64_switch_to, arch_set_kernel_stack, CpuFields
  <2> QED BY <1>0, <2>1, <2>2, <2>3, Zenon
<1>2. Fp' = KeptFp(to.fp) /\ KeptFp(to.fp)' = KeptFp(to.fp)
  BY <1>0, <1>1, Zenon DEF Fp, KeptFp, FreshFp
<1>3. \A u \in Tasks \ {cur} : context'[u] = context[u]
  BY <1>0, Zenon
<1>4. DOMAIN context' = Tasks
  BY <1>0, Zenon
<1>5. PlacesOK'
  <2>1. pc' \in {"run", "trapret", "resched"}
    BY <1>0, Zenon DEF SuspendedOK
  <2> QED BY <1>0, <1>1, <1>4, <2>1, Zenon DEF TrapIInv, PlacesOK, Top, KernelAddr
<1>7. RunOK' /\ EntryOK' /\ HandlerOK' /\ RestoreOK'
  <2>1. View' = [mode |-> "S", x |-> to.x, sp |-> to.sp, ie |-> to.ie, fp |-> KeptFp(to.fp)]
    BY <1>1, <1>2, Zenon DEF View, Fp
  <2>2. CASE to.pc \in {"forkret", "trapret", "resched"}
    <3>1. InTrap(next, to.sp, KeptFp(to.fp)) /\ to.ie = FALSE
      BY <1>0, <2>2, Zenon DEF SuspendedOK
    <3>2. PICK s, f : s = to.sp /\ f = KeptFp(to.fp)
      BY Zenon
    <3>3. InTrap(next, s, f)'
      BY <3>1, <3>2, StillTrapped, Zenon
    <3>4. InTrap(cur, cpu.sp, Fp)'
      BY <1>0, <1>1, <1>2, <3>2, <3>3, Zenon
    <3>5. to.pc = "resched" => views'[cur'] = <<views'[cur'][1], View'>>
      BY <1>0, <2>1, <3>1, Zenon DEF SuspendedOK
    <3> QED BY <1>0, <1>1, <2>2, <3>1, <3>4, <3>5, Zenon DEF RunOK, EntryOK, HandlerOK, RestoreOK
  <2>3. CASE to.pc = "run"
    <3>1. /\ to.ie = TRUE /\ OnStack(to.sp, next) /\ DOMAIN stack[next] = {}
          /\ views[next] = <<[mode |-> "S", x |-> to.x, sp |-> to.sp, ie |-> TRUE, fp |-> KeptFp(to.fp)]>>
      BY <1>0, <2>3, Zenon DEF SuspendedOK
    <3>2. views'[cur'] = <<View'>>
      BY <1>0, <2>1, <3>1, Zenon
    <3>3. OnStack(cpu'.sp, cur')
      BY <1>0, <1>1, <3>1, Zenon
    <3> QED BY <1>0, <1>1, <2>3, <3>1, <3>2, <3>3, Zenon DEF RunOK, EntryOK, HandlerOK, RestoreOK, OnStack, KernelAddr
  <2> QED BY <1>0, <2>2, <2>3, Zenon DEF SuspendedOK
<1>8. ASSUME NEW u \in alive' \ {cur'} PROVE SuspendedOK(u)'
  <2>1. CASE u = cur
    BY <1>8, <2>1, Zenon
  <2>2. CASE u # cur
    BY <1>0, <1>3, <1>8, <2>2, StillSuspended, Zenon DEF TrapIInv, PlacesOK
  <2> QED BY <2>1, <2>2, Zenon
<1> QED BY <1>5, <1>7, <1>8, Zenon DEF TrapIInv

\* The context a task in a handler is left with.
LEMMA LeftInTrap ==
  ASSUME TrapIInv, NEW next, NEW resume, SwitchTo(next, resume), UNCHANGED <<arch, stack, views>>,
         pc \in {"dispatch", "resched"}, resume \in {"trapret", "resched"}, NEW t, t = cur
  PROVE  SuspendedOK(t)'
<1>1. context'[cur] = [sp |-> cpu.sp, x |-> cpu.x, pc |-> resume, ie |-> cpu.ie, fp |-> cpu.fp]
  BY Zenon DEF SwitchTo, TrapIInv, PlacesOK
<1>2. InTrap(cur, cpu.sp, Fp) /\ cpu.ie = FALSE /\ cpu.mode = "S" /\ views[cur] = <<views[cur][1], View>>
  BY Zenon DEF TrapIInv, HandlerOK
<1>3. PICK s, f, x : s = cpu.sp /\ f = Fp /\ x = cpu.x
  BY Zenon
<1>4. InTrap(t, s, f)'
  BY <1>2, <1>3, StillTrapped, Zenon
<1>5. views'[t] = <<views'[t][1], [mode |-> "S", x |-> x, sp |-> s, ie |-> FALSE, fp |-> f]>>
  BY <1>2, <1>3, Zenon DEF View, Fp
<1>6. /\ context'[t].sp = s /\ context'[t].x = x /\ context'[t].pc = resume /\ context'[t].ie = FALSE
      /\ KeptFp(context[t].fp)' = f
  BY <1>1, <1>2, <1>3 DEF Fp, KeptFp, FreshFp
<1> QED BY <1>4, <1>5, <1>6, Zenon DEF SuspendedOK

LEMMA ReschedInv ==
  ASSUME TrapIInv, Resched PROVE TrapIInv'
<1>0. /\ pc = "resched" /\ UNCHANGED <<arch, cause, alive, stack, inService, views>>
      /\ inService = FALSE /\ inService' = FALSE /\ cpu.mode = "S" /\ cpu.vec = "kernel"
  BY Zenon DEF Resched, TrapIInv, PlacesOK, HandlerOK
<1>1. CASE pc' = "trapret" /\ UNCHANGED <<cpu, cur, context>>
  <2>1. PlacesOK'
    BY <1>0, <1>1, Zenon DEF TrapIInv, PlacesOK, Top, KernelAddr
  <2>2. RunOK' /\ EntryOK' /\ RestoreOK'
    BY <1>1, Zenon DEF RunOK, EntryOK, RestoreOK
  <2>3. HandlerOK'
    <3>1. InTrap(cur, cpu.sp, Fp)
      BY <1>0, Zenon DEF TrapIInv, HandlerOK
    <3>2. InTrap(cur, cpu.sp, Fp)'
      BY <1>0, <1>1, <3>1, StillTrapped, Zenon DEF Fp, KeptFp, FreshFp
    <3> QED BY <1>0, <1>1, <3>2, Zenon DEF TrapIInv, HandlerOK
  <2>4. \A u \in alive' \ {cur'} : SuspendedOK(u)'
    BY <1>0, <1>1, OthersSuspended, Zenon
  <2> QED BY <2>1, <2>2, <2>3, <2>4, Zenon DEF TrapIInv
<1>2. CASE \E next \in alive : SwitchTo(next, "trapret")
  <2>1. PICK t : t = cur
    BY Zenon
  <2>2. SuspendedOK(t)'
    BY <1>0, <1>2, <2>1, LeftInTrap, Zenon
  <2> QED BY <1>0, <1>2, <2>1, <2>2, SwitchInv, Zenon
<1> QED BY <1>1, <1>2, Zenon DEF Resched

LEMMA BlockInv ==
  ASSUME TrapIInv, Block PROVE TrapIInv'
<1>0. /\ pc = "dispatch" /\ UNCHANGED <<arch, cause, alive, stack, inService, views>>
      /\ inService = FALSE /\ inService' = FALSE /\ cpu.mode = "S" /\ cpu.vec = "kernel"
  BY Zenon DEF Block, TrapIInv, PlacesOK, HandlerOK, Irqs
<1>1. PICK t : t = cur
  BY Zenon
<1>2. SuspendedOK(t)'
  BY <1>0, <1>1, LeftInTrap, Zenon DEF Block
<1> QED BY <1>0, <1>1, <1>2, SwitchInv, Zenon DEF Block

LEMMA ExitInv ==
  ASSUME TrapIInv, Exit PROVE TrapIInv'
<1>0. /\ pc = "dispatch" /\ UNCHANGED <<arch, cause, stack, inService, views>> /\ alive' = alive \ {cur}
      /\ inService = FALSE /\ inService' = FALSE /\ cpu.mode = "S" /\ cpu.vec = "kernel"
  BY Zenon DEF Exit, TrapIInv, PlacesOK, HandlerOK, Irqs
<1>1. PICK t : t = cur
  BY Zenon
<1> QED BY <1>0, <1>1, SwitchInv, Zenon DEF Exit

LEMMA YieldInv ==
  ASSUME TrapIInv, Yield PROVE TrapIInv'
<1>0. /\ pc = "run" /\ UNCHANGED <<arch, cause, alive, stack, inService, views>>
      /\ inService = FALSE /\ inService' = FALSE /\ cpu.mode = "S" /\ cpu.vec = "kernel" /\ cur \in alive
  BY Zenon DEF Yield, TrapIInv, PlacesOK, RunOK
<1>1. PICK next \in alive : SwitchTo(next, "run")
  BY Zenon DEF Yield
<1>2. PICK t : t = cur
  BY Zenon
<1>3. SuspendedOK(t)'
  <2>1. context'[cur] = [sp |-> cpu.sp, x |-> cpu.x, pc |-> "run", ie |-> cpu.ie, fp |-> cpu.fp]
    BY <1>1, Zenon DEF SwitchTo, TrapIInv, PlacesOK
  <2>2. cpu.ie = TRUE /\ views[cur] = <<View>> /\ DOMAIN stack[cur] = {} /\ OnStack(cpu.sp, cur)
    BY <1>0, Zenon DEF TrapIInv, RunOK
  <2>3. PICK s, f, x : s = cpu.sp /\ f = Fp /\ x = cpu.x
    BY Zenon
  <2>4. views'[t] = <<[mode |-> "S", x |-> x, sp |-> s, ie |-> TRUE, fp |-> f]>> /\ DOMAIN stack'[t] = {}
    BY <1>0, <1>2, <2>2, <2>3, Zenon DEF View, Fp
  <2>5. /\ context'[t].sp = s /\ context'[t].x = x /\ context'[t].pc = "run" /\ context'[t].ie = TRUE
        /\ KeptFp(context[t].fp)' = f /\ OnStack(s, t)
    BY <1>0, <1>2, <2>1, <2>2, <2>3 DEF Fp, KeptFp, FreshFp
  <2> QED BY <2>4, <2>5, Zenon DEF SuspendedOK, OnStack, KernelAddr
<1> QED BY <1>0, <1>1, <1>2, <1>3, SwitchInv, Zenon

LEMMA TrapretInv ==
  ASSUME TrapIInv, Trapret PROVE TrapIInv'
<1>0. /\ pc = "trapret" /\ pc' = "restore" /\ UNCHANGED <<arch, cause, cur, alive, stack, context, inService, views>>
      /\ cur \in Tasks /\ DOMAIN cpu = CpuFields /\ arch \in {"riscv64", "x86", "aarch64"}
      /\ cpu.mode = "S" /\ cpu.ie = FALSE /\ cpu.vec = "kernel" /\ InTrap(cur, cpu.sp, Fp)
  BY Zenon DEF Trapret, TrapIInv, PlacesOK, HandlerOK
<1>1. PICK t, s, p, k, f : t = cur /\ s = cpu.sp /\ p = Fp /\ k = s[3] /\ f = stack[t][k]
  BY Zenon
<1>2. /\ s = <<t, "kernel", k>> /\ k \in Nat /\ Frame = f /\ f.pie = TRUE /\ f.ie = FALSE /\ f.pc = "run"
      /\ (f.mode = "U" /\ k = TF_SIZE) \/ f.mode = "S"
  BY <1>0, <1>1 DEF InTrap, OnStack, KernelAddr, Frame
<1>3. TF_SIZE \in Nat \ {0}
  BY TfSize, Zenon DEF TrapIInv
<1>4. f.mode = "U" => Below(cpu.sp, -TF_SIZE) = Top(cur)
  BY <1>1, <1>2, <1>3 DEF Below, Top, KernelAddr
<1>5. /\ DOMAIN Status = CpuFields /\ Status.epc = "run" /\ Status.pmode = f.mode /\ Status.pie = TRUE
      /\ Status.mode = "S" /\ Status.ie = FALSE /\ Status.sp = s /\ Status.fp = cpu.fp /\ Status.vec = "kernel"
      /\ Status.scratch = cpu.scratch
  <2>1. /\ DOMAIN Status = CpuFields /\ Status.epc = Frame.pc /\ Status.pmode = Frame.mode
        /\ Status.pie = Frame.pie /\ Status.mode = cpu.mode /\ Status.ie = cpu.ie /\ Status.sp = cpu.sp
        /\ Status.fp = cpu.fp /\ Status.vec = cpu.vec /\ Status.scratch = cpu.scratch
    BY <1>0, Zenon DEF Status, CpuFields
  <2> QED BY <1>0, <1>1, <1>2, <2>1, Zenon
<1>6. /\ DOMAIN cpu' = CpuFields /\ cpu'.epc = "run" /\ cpu'.pmode = f.mode /\ cpu'.pie = TRUE
      /\ cpu'.mode = "S" /\ cpu'.ie = FALSE /\ cpu'.sp = s /\ cpu'.fp = cpu.fp
      /\ cpu'.vec = IF arch = "riscv64" /\ f.mode = "U" THEN "user" ELSE "kernel"
      /\ cpu'.scratch = IF arch = "riscv64" THEN (IF f.mode = "U" THEN Top(cur) ELSE <<>>)
                        ELSE IF arch = "x86" THEN cpu.scratch ELSE f.sp
  <2>1. CASE arch = "riscv64"
    <3>1. cpu' = [Status EXCEPT !.ie = f.ie, !.vec = IF f.mode = "U" THEN "user" ELSE "kernel",
                                !.scratch = IF f.mode = "U" THEN Below(cpu.sp, -TF_SIZE) ELSE <<>>]
      BY <1>2, <2>1, Zenon DEF Trapret, riscv64_trapret
    <3> QED BY <1>2, <1>4, <1>5, <2>1, <3>1, Zenon DEF CpuFields
  <2>2. CASE arch = "x86"
    BY <1>5, <2>2, Zenon DEF Trapret
  <2>3. CASE arch = "aarch64"
    <3>1. cpu' = [Status EXCEPT !.scratch = f.sp]
      BY <1>2, <2>3, Zenon DEF Trapret, aarch64_trapret
    <3> QED BY <1>5, <2>3, <3>1, Zenon DEF CpuFields
  <2> QED BY <1>0, <2>1, <2>2, <2>3, Zenon
<1>7. PlacesOK'
  BY <1>0, <1>1, <1>6, Zenon DEF TrapIInv, PlacesOK, Top, KernelAddr
<1>8. RunOK' /\ EntryOK'
  BY <1>0, Zenon DEF RunOK, EntryOK
<1>9. HandlerOK'
  <2>1. InTrap(t, s, p)'
    BY <1>0, <1>1, StillTrapped, Zenon
  <2>2. InTrap(cur, cpu.sp, Fp)'
    <3>1. Fp' = p
      BY <1>0, <1>1, <1>6, Zenon DEF Fp, KeptFp, FreshFp
    <3> QED BY <1>0, <1>1, <1>6, <2>1, <3>1, Zenon
  <2> QED BY <1>0, <1>6, <2>2, Zenon DEF HandlerOK
<1>10. RestoreOK'
  <2>1. Frame' = f
    BY <1>0, <1>1, <1>2, <1>6, Zenon DEF Frame
  <2> QED BY <1>0, <1>6, <2>1, Zenon DEF RestoreOK, Top, KernelAddr
<1>11. \A u \in alive' \ {cur'} : SuspendedOK(u)'
  BY <1>0, OthersSuspended, Zenon
<1> QED BY <1>7, <1>8, <1>9, <1>10, <1>11, Zenon DEF TrapIInv

LEMMA RestoreInv ==
  ASSUME TrapIInv, Restore PROVE TrapIInv'
<1>0. /\ pc = "restore" /\ pc' = "run" /\ UNCHANGED <<arch, cause, cur, alive, context, inService>>
      /\ cur \in Tasks /\ DOMAIN cpu = CpuFields /\ arch \in {"riscv64", "x86", "aarch64"}
      /\ InTrap(cur, cpu.sp, Fp) /\ cpu.pie = TRUE /\ cpu.pmode = Frame.mode
      /\ views' = [views EXCEPT ![cur] = <<views[cur][1]>>]
      /\ stack' = [stack EXCEPT ![cpu.sp[1]] =
             [a \in {b \in DOMAIN stack[cpu.sp[1]] : b < cpu.sp[3]} |-> stack[cpu.sp[1]][a]]]
  BY Zenon DEF Restore, TrapIInv, PlacesOK, HandlerOK, RestoreOK
<1>1. PICK t, s, p, k, f : t = cur /\ s = cpu.sp /\ p = Fp /\ k = s[3] /\ f = stack[t][k]
  BY Zenon
<1>2. /\ s = <<t, "kernel", k>> /\ k \in Nat /\ Frame = f /\ DOMAIN stack[t] = {k} /\ k - TF_SIZE \in Nat
      /\ (f.mode = "U" /\ k = TF_SIZE) \/ (f.mode = "S" /\ OnStack(ResumeSp(f, t, k), t))
      /\ views[t][1] = [mode |-> f.mode, x |-> f.x, sp |-> ResumeSp(f, t, k), ie |-> TRUE, fp |-> p]
  <2>1. InTrap(t, s, p)
    BY <1>0, <1>1, Zenon
  <2>2. OnStack(s, t) /\ DOMAIN stack[t] = {k} /\ k - TF_SIZE \in Nat
    BY <1>1, <2>1, Zenon DEF InTrap
  <2>3. s = <<t, "kernel", k>> /\ k \in Nat
    BY <1>1, <2>2, Zenon DEF OnStack, KernelAddr
  <2>4. Frame = f
    BY <1>1, <2>3 DEF Frame
  <2>5. s = <<t, "kernel", k>> /\ k \in Nat /\ Frame = f /\ DOMAIN stack[t] = {k} /\ k - TF_SIZE \in Nat
    BY <2>2, <2>3, <2>4, Zenon
  <2>6. /\ (f.mode = "U" /\ k = TF_SIZE) \/ (f.mode = "S" /\ OnStack(ResumeSp(f, t, k), t))
        /\ views[t][1] = [mode |-> f.mode, x |-> f.x, sp |-> ResumeSp(f, t, k), ie |-> TRUE, fp |-> p]
    BY <1>1, <2>1, Zenon DEF InTrap
  <2> QED BY <2>5, <2>6, Zenon
<1>3. TF_SIZE \in Nat \ {0}
  BY TfSize, Zenon DEF TrapIInv
<1>4. Below(cpu.sp, -TF_SIZE) = KernelAddr(t, k - TF_SIZE) /\ (f.mode = "U" => KernelAddr(t, k - TF_SIZE) = Top(t))
  <2>1. k + -TF_SIZE = k - TF_SIZE /\ (k = TF_SIZE => k - TF_SIZE = 0)
    BY <1>2, <1>3
  <2> QED BY <1>1, <1>2, <2>1 DEF Below, Top, KernelAddr
<1>5. /\ DOMAIN Returned = CpuFields /\ Returned.mode = f.mode /\ Returned.ie = TRUE /\ Returned.x = f.x
      /\ Returned.fp = cpu.fp /\ Returned.vec = cpu.vec /\ Returned.scratch = cpu.scratch
  <2>1. /\ DOMAIN Returned = CpuFields /\ Returned.mode = cpu.pmode /\ Returned.ie = cpu.pie /\ Returned.x = Frame.x
        /\ Returned.fp = cpu.fp /\ Returned.vec = cpu.vec /\ Returned.scratch = cpu.scratch
    BY <1>0, Zenon DEF Returned, CpuFields
  <2> QED BY <1>0, <1>1, <1>2, <2>1, Zenon
<1>6. /\ DOMAIN cpu' = CpuFields /\ cpu'.mode = f.mode /\ cpu'.ie = TRUE /\ cpu'.x = f.x /\ cpu'.fp = cpu.fp
      /\ cpu'.vec = cpu.vec /\ cpu'.sp = ResumeSp(f, t, k)
      /\ cpu'.scratch = IF arch = "aarch64" /\ f.mode = "U" THEN Top(t) ELSE cpu.scratch
  <2>1. CASE arch \in {"riscv64", "x86"}
    <3>1. cpu' = [Returned EXCEPT !.sp = f.sp] /\ ResumeSp(f, t, k) = f.sp
      BY <1>2, <2>1, Zenon DEF Restore, riscv64_sret, x86_iretq, ResumeSp
    <3> QED BY <1>5, <2>1, <3>1, Zenon DEF CpuFields
  <2>2. CASE arch = "aarch64"
    <3>1. cpu' = aarch64_eret /\ cpu.scratch = f.sp
      BY <1>0, <1>2, <2>2, Zenon DEF Restore, TrapIInv, RestoreOK
    <3>2. CASE f.mode = "U"
      <4>1. cpu' = [Returned EXCEPT !.sp = f.sp, !.scratch = Top(t)] /\ ResumeSp(f, t, k) = f.sp
        BY <1>0, <1>2, <1>4, <3>1, <3>2, Zenon DEF aarch64_eret, ResumeSp
      <4> QED BY <1>5, <2>2, <3>2, <4>1, Zenon DEF CpuFields
    <3>3. CASE f.mode = "S"
      <4>1. cpu' = [Returned EXCEPT !.sp = KernelAddr(t, k - TF_SIZE)] /\ ResumeSp(f, t, k) = KernelAddr(t, k - TF_SIZE)
        BY <1>0, <1>2, <1>4, <2>2, <3>1, <3>3, Zenon DEF aarch64_eret, ResumeSp
      <4> QED BY <1>5, <2>2, <3>3, <4>1, Zenon DEF CpuFields
    <3> QED BY <1>2, <3>2, <3>3, Zenon
  <2> QED BY <1>0, <2>1, <2>2, Zenon
<1>7. /\ DOMAIN stack' = Tasks /\ DOMAIN stack'[t] = {} /\ \A u \in Tasks \ {t} : stack'[u] = stack[u]
  <2> DEFINE F == [a \in {b \in DOMAIN stack[cpu.sp[1]] : b < cpu.sp[3]} |-> stack[cpu.sp[1]][a]]
  <2>1. cpu.sp[1] = t /\ cpu.sp[3] = k
    BY <1>1, <1>2
  <2>2. DOMAIN F = {}
    BY <1>2, <2>1
  <2>3. stack' = [stack EXCEPT ![t] = F]
    BY <1>0, <2>1, Zenon
  <2> HIDE DEF F
  <2> QED BY <1>0, <1>1, <2>2, <2>3, Zenon DEF TrapIInv, PlacesOK
<1>8. DOMAIN views' = Tasks /\ views'[t] = <<views[t][1]>> /\ \A u \in Tasks \ {t} : views'[u] = views[u]
  BY <1>0, <1>1, Zenon DEF TrapIInv, PlacesOK
<1>9. PlacesOK'
  BY <1>0, <1>1, <1>6, <1>7, <1>8 DEF TrapIInv, PlacesOK, Top, KernelAddr
<1>10. RunOK'
  <2>1. views'[cur'] = <<View'>>
    <3>1. View' = [mode |-> f.mode, x |-> f.x, sp |-> ResumeSp(f, t, k), ie |-> TRUE, fp |-> p]
      BY <1>0, <1>1, <1>6, Zenon DEF View, Fp, KeptFp, FreshFp
    <3> QED BY <1>0, <1>1, <1>2, <1>8, <3>1, Zenon
  <2>2. CASE f.mode = "U"
    <3>1. cpu'.scratch = Top(t) /\ cpu'.vec = IF arch = "riscv64" THEN "user" ELSE "kernel"
      BY <1>0, <1>1, <1>2, <1>6, <2>2, Zenon DEF TrapIInv, PlacesOK, RestoreOK, Top
    <3> QED BY <1>0, <1>1, <1>6, <1>7, <2>1, <2>2, <3>1, Zenon DEF RunOK, Top, KernelAddr
  <2>3. CASE f.mode = "S"
    <3>1. cpu'.vec = "kernel" /\ OnStack(cpu'.sp, t)
      BY <1>0, <1>2, <1>6, <2>3, Zenon DEF TrapIInv, RestoreOK
    <3> QED BY <1>0, <1>1, <1>6, <1>7, <2>1, <2>3, <3>1, Zenon DEF RunOK, OnStack, KernelAddr
  <2> QED BY <1>2, <2>2, <2>3, Zenon
<1>11. EntryOK' /\ HandlerOK' /\ RestoreOK'
  BY <1>0, Zenon DEF EntryOK, HandlerOK, RestoreOK
<1>12. \A u \in alive' \ {cur'} : SuspendedOK(u)'
  BY <1>0, <1>1, <1>7, <1>8, OthersSuspended, Zenon DEF TrapIInv, PlacesOK
<1> QED BY <1>9, <1>10, <1>11, <1>12, Zenon DEF TrapIInv

LEMMA TrapInitInv == TrapInit => TrapIInv
<1> SUFFICES ASSUME TrapInit PROVE TrapIInv
  BY Zenon
<1>1. /\ DOMAIN cpu = CpuFields /\ cpu.mode = "S" /\ cpu.ie = TRUE /\ cpu.sp = KernelAddr(Boot, 8) /\ cpu.fp = FreshFp
      /\ cpu.vec = "kernel" /\ cpu.scratch = IF arch = "x86" THEN Top(Boot) ELSE <<>>
  BY Zenon DEF TrapInit, CpuFields
<1>2. PlacesOK
  BY <1>1, TrapAssumption, Zenon DEF TrapInit, PlacesOK
<1>3. views[Boot] = <<View>> /\ DOMAIN stack[Boot] = {}
  <2>1. DOMAIN <<>> = {}
    OBVIOUS
  <2> QED BY <2>1, TrapAssumption, Zenon DEF TrapInit
<1>4. RunOK /\ EntryOK /\ HandlerOK /\ RestoreOK
  BY <1>1, <1>3, Zenon DEF TrapInit, RunOK, EntryOK, HandlerOK, RestoreOK, OnStack, KernelAddr
<1> QED BY <1>2, <1>4, Zenon DEF TrapInit, TrapIInv

LEMMA TrapInductive == TrapIInv /\ [TrapNext]_trapVars => TrapIInv'
<1> SUFFICES ASSUME TrapIInv, [TrapNext]_trapVars PROVE TrapIInv'
  BY Zenon
<1>1. CASE UNCHANGED trapVars
  <2>0. UNCHANGED <<arch, cpu, pc, cause, cur, alive, stack, context, inService, views>>
    BY <1>1, Zenon DEF trapVars
  <2>1. PlacesOK'
    BY <2>0, Zenon DEF TrapIInv, PlacesOK, Top, KernelAddr
  <2>2. RunOK' /\ EntryOK' /\ RestoreOK'
    BY <2>0, Zenon DEF TrapIInv, RunOK, EntryOK, RestoreOK, View, TrappedView, TrappedSp, Fp, KeptFp, FreshFp, Frame, OnStack,
      Top, KernelAddr
  <2>3. HandlerOK'
    BY <2>0, StillTrapped, Zenon DEF TrapIInv, HandlerOK, View, Fp, KeptFp, FreshFp
  <2>4. \A u \in alive' \ {cur'} : SuspendedOK(u)'
    BY <2>0, OthersSuspended, Zenon
  <2> QED BY <2>1, <2>2, <2>3, <2>4, Zenon DEF TrapIInv
<1> QED BY <1>1, ForkInv, ComputeInv, TakenInv, EntryInv, HandleInv, ReschedInv, BlockInv, ExitInv, YieldInv, TrapretInv,
           RestoreInv, Zenon DEF TrapNext

\* On each of the three architectures, for any number of tasks: however traps,
\* preemption, blocking system calls, exits and new tasks interleave, a task's
\* code goes on with the mode, registers, stack pointer and interrupt state it
\* had, and on x86, which alone saves it, with its FP state; every trap from
\* user mode finds the top of that task's own empty kernel stack; and
\* interrupts are off while one is in service and while the vectors and trapret
\* handle a frame.
THEOREM TrapsInvisible == TrapSpec => []TrapTransparent
<1>1. TrapIInv => TrapTransparent
  <2> SUFFICES ASSUME TrapIInv PROVE TrapTransparent
    BY Zenon
  <2>1. Resumed
    <3>1. PICK w, v : w = views[cur] /\ v = View
      BY Zenon
    <3>2. pc \in {"run", "dispatch", "resched"} => w = <<v>> \/ w = <<w[1], v>>
      BY <3>1, Zenon DEF TrapIInv, RunOK, HandlerOK
    <3>3. w = <<v>> => w[Len(w)] = v
      OBVIOUS
    <3>4. w = <<w[1], v>> => w[Len(w)] = v
      <4>1. \A a : Len(<<a, v>>) = 2 /\ <<a, v>>[2] = v
        BY Zenon
      <4> QED BY <4>1, Zenon
    <3> QED BY ONLY <3>1, <3>2, <3>3, <3>4 DEF Resumed
  <2>2. UserTrapReady
    BY Zenon DEF TrapIInv, PlacesOK, RunOK, EntryOK, HandlerOK, UserTrapReady
  <2>3. OnOwnStack
    BY DEF TrapIInv, PlacesOK, RunOK, EntryOK, HandlerOK, InTrap, OnStack, KernelAddr, OnOwnStack
  <2>4. InterruptsSafe
    BY Zenon DEF TrapIInv, PlacesOK, RunOK, EntryOK, HandlerOK, InterruptsSafe
  <2> QED BY <2>1, <2>2, <2>3, <2>4, Zenon DEF TrapTransparent
<1> QED BY <1>1, TrapInitInv, TrapInductive, PTL DEF TrapSpec

(***************************************************************************)
(* Reads and writes are exact: IoExact for every file, chain, cluster size *)
(* and size of the kernel's buffer                                         *)
(***************************************************************************)

Descriptors == 0 .. MaxFd - 1
CallFields == {"pc", "fd", "op", "count", "done", "size", "skip", "solve", "next", "buf", "ret", "fault"}
Under == {"chunk", "io", "next"}

IoTypeOK ==
  /\ chain \in Chains
  /\ DOMAIN disk = Clusters
  /\ \A c \in Clusters : DOMAIN disk[c] = 0 .. ClusterSize - 1
  /\ fds \in [Descriptors -> 0 .. Closed]
  /\ DOMAIN user = Offsets
  /\ call.pc \in Under \cup {"none", "ret"}
  /\ call.pc # "none" =>
       /\ DOMAIN call = CallFields
       /\ call.fd \in Descriptors /\ call.op \in {"read", "write"} /\ call.count \in 1 .. MaxCount
       /\ call.done \in Nat /\ call.fault \in BOOLEAN
       /\ DOMAIN before.user = Offsets

\* The byte at p is in the file's chain and, on the disk, what the program's
\* buffer has at i.
Agrees(i, p) == Reaches(p) /\ user[i] = ByteAt(disk, p)

\* Where a write may have changed the disk.
Asked(c, i) ==
  \E p \in before.offset .. before.offset + call.count - 1 :
    /\ p < FileSize /\ Reaches(p)
    /\ chain[(p \div ClusterSize) + 1] = c /\ p % ClusterSize = i

\* A call under way: done bytes are through, and the rest is as it was.
CallOK ==
  /\ before.offset \in 0 .. FileSize
  /\ call.done <= call.count /\ before.offset + call.done <= FileSize
  /\ fds[call.fd] = before.offset + call.done
  /\ ~call.fault
  /\ \A i \in Offsets : i < call.done => Agrees(i, before.offset + i)
  /\ \A i \in Offsets : i >= call.done => user[i] = before.user[i]
  /\ call.op = "read" => disk = before.disk
  /\ call.op = "write" =>
       /\ user = before.user
       /\ \A c \in Clusters, i \in 0 .. ClusterSize - 1 : Asked(c, i) \/ disk[c][i] = before.disk[c][i]

\* A chunk under way in do_file_io, at byte solve of the chunk.
Here == before.offset + call.done
ChunkOK ==
  /\ call.done < call.count
  /\ call.size = MinOf(Chunk, FileSize - Here)
  /\ call.solve \in 0 .. call.size
  /\ DOMAIN call.buf = 0 .. Chunk - 1
  /\ call.next \in Nat \ {0} /\ call.skip \in Nat
  /\ call.solve < call.size => (call.next - 1) * ClusterSize + call.skip = Here + call.solve
  /\ \A j \in 0 .. call.solve - 1 : Reaches(Here + j) /\ call.buf[j] = ByteAt(disk, Here + j)
  /\ call.op = "write" => \A j \in 0 .. Chunk - 1 : call.buf[j] = user[call.done + j]

\* A chunk that is through: it was the largest that the file allowed.
NextOK ==
  LET from == call.done - call.size IN
  /\ call.size \in 0 .. call.done
  /\ from < call.count
  /\ call.size = MinOf(MinOf(call.count - from, BufferSize), FileSize - (before.offset + from))

IoInv ==
  /\ IoTypeOK
  /\ call.pc \in Under => CallOK
  /\ call.pc = "chunk" => call.done < call.count
  /\ call.pc = "io" => ChunkOK
  /\ call.pc = "next" => NextOK
  /\ IoExact

(***************************************************************************)
(* Positions in the file                                                   *)
(***************************************************************************)

LEMMA IoNumbers ==
  /\ BufferSize \in Nat \ {0} /\ ClusterSize \in Nat \ {0} /\ FileSize \in Nat
  /\ MaxFd \in Nat /\ MaxCount \in Nat
BY FileIoAssumption, Zenon

\* The bytes of cluster q (from 0) of the file are those from q * ClusterSize.
LEMMA InCluster ==
  ASSUME NEW q \in Nat, NEW p \in Nat, q * ClusterSize <= p, p < q * ClusterSize + ClusterSize
  PROVE  p \div ClusterSize = q /\ p % ClusterSize = p - q * ClusterSize
<1>1. PICK b : b = ClusterSize /\ b \in Nat \ {0}
  BY IoNumbers, Zenon
<1>2. PICK r \in Nat : p = q * b + r /\ r < b
  <2>1. q * b \in Nat
    BY <1>1
  <2>2. p - q * b \in Nat /\ p - q * b < b
    BY <1>1, <2>1
  <2> QED BY <2>1, <2>2
<1>3. p \div b = q
  BY <1>1, <1>2, Z3
<1>4. p % b = r
  BY <1>1, <1>2, <1>3, Z3
<1> QED BY <1>1, <1>2, <1>3, <1>4

\* A byte before them is in a cluster before.
LEMMA BeforeCluster ==
  ASSUME NEW q \in Nat, NEW p \in Nat, p < q * ClusterSize
  PROVE  p \div ClusterSize \in Nat /\ p \div ClusterSize < q
<1>1. PICK b : b = ClusterSize /\ b \in Nat \ {0}
  BY IoNumbers, Zenon
<1>2. p \div b \in Nat /\ b * (p \div b) <= p
  BY <1>1, Z3
<1>3. p \div b < q
  BY <1>1, <1>2, Z3
<1> QED BY <1>1, <1>2, <1>3, Zenon

LEMMA Position ==
  ASSUME NEW p \in Nat
  PROVE  p \div ClusterSize \in Nat /\ p % ClusterSize \in 0 .. ClusterSize - 1
BY IoNumbers

LEMMA ChainIs ==
  ASSUME IoTypeOK
  PROVE  /\ chain \in Seq(Clusters) /\ Len(chain) \in Nat
         /\ \A i \in 1 .. Len(chain) : chain[i] \in Clusters
         /\ \A i, j \in 1 .. Len(chain) : chain[i] = chain[j] => i = j
<1>1. chain \in Seq(Clusters) /\ \A i, j \in DOMAIN chain : chain[i] = chain[j] => i = j
  BY FileIoAssumption, Zenon DEF IoTypeOK, ClusterLists
<1> QED BY <1>1

(***************************************************************************)
(* The steps                                                               *)
(***************************************************************************)

LEMMA ReturnsIs ==
  ASSUME NEW c, DOMAIN c = CallFields, NEW r, NEW f \in BOOLEAN, c.fault \in BOOLEAN
  PROVE  LET d == Returns(c, r, f)
         IN /\ DOMAIN d = CallFields /\ d.pc = "ret" /\ d.ret = r /\ d.fault = (c.fault \/ f)
            /\ d.fd = c.fd /\ d.op = c.op /\ d.count = c.count /\ d.done = c.done
BY Zenon DEF Returns, CallFields

\* The numbers of a call under way.
LEMMA CallNumbers ==
  ASSUME IoTypeOK, CallOK, call.pc \in Under
  PROVE  /\ call.done \in Nat /\ call.count \in Nat \ {0} /\ call.count <= MaxCount /\ call.done <= call.count
         /\ before.offset \in Nat /\ before.offset + call.done <= FileSize
         /\ fds[call.fd] = before.offset + call.done
<1>1. call.done \in Nat /\ call.count \in 1 .. MaxCount
  BY Zenon DEF IoTypeOK, Under
<1>2. /\ before.offset \in 0 .. FileSize /\ call.done <= call.count /\ before.offset + call.done <= FileSize
      /\ fds[call.fd] = before.offset + call.done
  BY Zenon DEF CallOK
<1> QED BY <1>1, <1>2, IoNumbers

\* The disk d holds the bytes that are through, and is otherwise as before.
DiskOK(d) ==
  /\ DOMAIN d = Clusters
  /\ \A c \in Clusters : DOMAIN d[c] = 0 .. ClusterSize - 1
  /\ \A i \in Offsets : i < call.done => user[i] = ByteAt(d, before.offset + i)
  /\ call.op = "read" => d = before.disk
  /\ call.op = "write" =>
       \A c \in Clusters, i \in 0 .. ClusterSize - 1 : Asked(c, i) \/ d[c][i] = before.disk[c][i]

LEMMA DiskIsOK == ASSUME IoInv, call.pc \in Under PROVE DiskOK(disk)
BY Zenon DEF IoInv, IoTypeOK, CallOK, Agrees, DiskOK

\* A call returns what it has done.
LEMMA ReturnInv ==
  ASSUME IoInv, call.pc \in Under, NEW r, NEW f \in BOOLEAN, call' = Returns(call, r, f),
         r = call.done \/ (r = -1 /\ call.done = 0),
         ~f => call.done = MinOf(call.count, FileSize - before.offset),
         DiskOK(disk'), UNCHANGED <<chain, fds, user, before>>
  PROVE  IoInv'
<1>0. IoTypeOK /\ CallOK /\ DOMAIN call = CallFields /\ call.fault \in BOOLEAN
  BY Zenon DEF IoInv, IoTypeOK, Under
<1>1. /\ DOMAIN call' = CallFields /\ call'.pc = "ret" /\ call'.ret = r /\ call'.fault = (call.fault \/ f)
      /\ call'.fd = call.fd /\ call'.op = call.op /\ call'.count = call.count /\ call'.done = call.done
  BY <1>0, ReturnsIs
<1>2. IoTypeOK'
  BY <1>0, <1>1, Zenon DEF IoTypeOK, DiskOK, Under
<1>3. \A c, i : Asked(c, i)' <=> Asked(c, i)
  BY <1>1, Zenon DEF Asked, Reaches
<1>4. PICK n \in Nat : n = call.done /\ n <= MaxCount
  BY <1>0, CallNumbers, IoNumbers
<1>5. (IF call'.ret = -1 THEN 0 ELSE call'.ret) = n
  BY <1>1, <1>4
<1>6. /\ fds'[call'.fd] = before.offset + n /\ before.offset \in Nat
      /\ ~call'.fault => n = MinOf(call.count, FileSize - before.offset)
  BY <1>0, <1>1, <1>4, IoNumbers DEF CallOK
<1>7. \A i \in 0 .. n - 1 : user'[i] = ByteAt(disk, before.offset + i)'
  BY <1>4, IoNumbers DEF DiskOK, ByteAt, Offsets
<1>8. \A i \in n .. MaxCount - 1 : user'[i] = before'.user[i]
  BY <1>0, <1>4, IoNumbers DEF CallOK, Offsets
<1>9. call'.op = "read" => disk' = before'.disk
  BY <1>1, Zenon DEF DiskOK
<1>10. call'.op = "write" =>
         /\ user' = before'.user
         /\ \A c \in Clusters, i \in 0 .. ClusterSize - 1 : Asked(c, i)' \/ disk'[c][i] = before'.disk[c][i]
  <2>1. call.op = "write" => user = before.user
    BY <1>0, Zenon DEF CallOK
  <2>2. call.op = "write" =>
          \A c \in Clusters, i \in 0 .. ClusterSize - 1 : Asked(c, i) \/ disk'[c][i] = before.disk[c][i]
    BY Zenon DEF DiskOK
  <2> QED BY <1>1, <1>3, <2>1, <2>2, Zenon
<1>11. IoExact'
  BY <1>1, <1>5, <1>6, <1>7, <1>8, <1>9, <1>10 DEF IoExact, Asked
<1> QED BY <1>1, <1>2, <1>11, Zenon DEF IoInv, Under

LEMMA IdleInv ==
  ASSUME IoInv, call' = None, fds' \in [Descriptors -> 0 .. Closed], UNCHANGED <<disk, chain, user, before>>
  PROVE  IoInv'
<1>1. call'.pc = "none"
  BY Zenon DEF None
<1> QED BY <1>1, Zenon DEF IoInv, IoTypeOK, IoExact, Under

LEMMA OpenInv == ASSUME IoInv, Open PROVE IoInv'
<1>1. PICK d : fds' = fds \/ fds' = [fds EXCEPT ![d] = 0]
  BY Zenon DEF Open
<1>2. fds' \in [Descriptors -> 0 .. Closed]
  BY <1>1, IoNumbers DEF IoInv, IoTypeOK, Closed
<1> QED BY <1>2, IdleInv, Zenon DEF Open

LEMMA CloseInv == ASSUME IoInv, Close PROVE IoInv'
<1>1. PICK d : fds' = [fds EXCEPT ![d] = Closed]
  BY Zenon DEF Close
<1>2. Closed \in 0 .. Closed
  BY IoNumbers DEF Closed
<1>3. fds' \in [Descriptors -> 0 .. Closed]
  BY <1>1, <1>2, Zenon DEF IoInv, IoTypeOK
<1> QED BY <1>3, IdleInv, Zenon DEF Close

LEMMA sys_file_ioInv == ASSUME IoInv, sys_file_io PROVE IoInv'
<1>1. PICK fd \in DOMAIN fds, op \in {"read", "write"}, count \in 1 .. MaxCount :
        LET start == [pc |-> "chunk", fd |-> fd, op |-> op, count |-> count, done |-> 0,
                      size |-> 0, skip |-> 0, solve |-> 0, next |-> 1, buf |-> <<>>,
                      ret |-> 0, fault |-> FALSE]
        IN /\ before' = [disk |-> disk, user |-> NewBuffer, offset |-> fds[fd]]
           /\ \/ fds[fd] # Closed /\ call' = start
              \/ call' = [start EXCEPT !.pc = "ret", !.ret = -1, !.fault = TRUE]
  BY Zenon DEF sys_file_io
<1>2. /\ user' = NewBuffer /\ UNCHANGED <<disk, chain, fds>>
      /\ before'.disk = disk /\ before'.user = user' /\ before'.offset = fds[fd]
      /\ fd \in Descriptors /\ fds[fd] \in 0 .. Closed /\ DOMAIN user' = Offsets
  BY <1>1, Zenon DEF sys_file_io, IoInv, IoTypeOK, NewBuffer
<1>3. /\ DOMAIN call' = CallFields
      /\ call'.fd = fd /\ call'.op = op /\ call'.count = count /\ call'.done = 0
      /\ \/ call'.pc = "chunk" /\ call'.fault = FALSE /\ fds[fd] # Closed
         \/ call'.pc = "ret" /\ call'.fault = TRUE /\ call'.ret = -1
  <2> DEFINE start == [pc |-> "chunk", fd |-> fd, op |-> op, count |-> count, done |-> 0,
                       size |-> 0, skip |-> 0, solve |-> 0, next |-> 1, buf |-> <<>>,
                       ret |-> 0, fault |-> FALSE]
  <2>1. /\ DOMAIN start = CallFields
        /\ start.pc = "chunk" /\ start.fd = fd /\ start.op = op /\ start.count = count /\ start.done = 0
        /\ start.fault = FALSE
    BY Zenon DEF CallFields
  <2>2. \/ fds[fd] # Closed /\ call' = start
        \/ call' = [start EXCEPT !.pc = "ret", !.ret = -1, !.fault = TRUE]
    BY <1>1, Zenon
  <2> HIDE DEF start
  <2>3. CASE fds[fd] # Closed /\ call' = start
    BY <2>1, <2>3, Zenon
  <2>4. CASE call' = [start EXCEPT !.pc = "ret", !.ret = -1, !.fault = TRUE]
    BY <2>1, <2>4, Zenon DEF CallFields
  <2> QED BY <2>2, <2>3, <2>4, Zenon
<1>4. IoTypeOK'
  <2>1. call'.done \in Nat /\ call'.pc \in Under \cup {"none", "ret"}
    BY <1>3 DEF Under
  <2>2. call'.fault \in BOOLEAN
    BY <1>3, Zenon
  <2> QED BY <1>2, <1>3, <2>1, <2>2, Zenon DEF IoInv, IoTypeOK
<1>5. CASE call'.pc = "chunk"
  <2>1. fds[fd] \in 0 .. FileSize /\ FileSize \in Nat
    BY <1>2, <1>3, <1>5, IoNumbers DEF Closed
  <2>2. \A i \in Offsets : i \in Nat /\ ~(i < 0)
    BY IoNumbers DEF Offsets
  <2>3. CallOK'
    BY <1>2, <1>3, <1>5, <2>1, <2>2 DEF CallOK
  <2> QED BY <1>3, <1>4, <1>5, <2>3 DEF IoInv, Under, IoExact
<1>6. CASE call'.pc = "ret"
  <2>1. IoExact'
    BY <1>2, <1>3, <1>6 DEF IoExact
  <2> QED BY <1>4, <1>6, <2>1, Zenon DEF IoInv, Under
<1> QED BY <1>3, <1>5, <1>6, Zenon

LEMMA LeaveInv ==
  ASSUME IoInv, call.pc \in Under, call' = Leave, DiskOK(disk'), UNCHANGED <<chain, fds, user, before>>
  PROVE  IoInv'
<1>1. PICK r : r = (IF call.done = 0 THEN -1 ELSE call.done)
  BY Zenon
<1>2. call' = Returns(call, r, TRUE) /\ (r = call.done \/ (r = -1 /\ call.done = 0))
  BY <1>1, Zenon DEF Leave
<1> QED BY <1>2, ReturnInv, Zenon

LEMMA StutterIoInv == ASSUME IoInv, UNCHANGED <<disk, chain, fds, user, call, before>> PROVE IoInv'
<1>1. IoTypeOK'
  BY Zenon DEF IoInv, IoTypeOK
<1>2. CallOK => CallOK'
  BY Zenon DEF CallOK, Agrees, Asked, Reaches, ByteAt
<1>3. ChunkOK => ChunkOK'
  BY Zenon DEF ChunkOK, Reaches, ByteAt, Here, Chunk
<1>4. NextOK => NextOK'
  BY Zenon DEF NextOK
<1>5. IoExact'
  BY Zenon DEF IoInv, IoExact, Reaches, ByteAt
<1>6. call' = call
  BY Zenon
<1> QED BY <1>1, <1>2, <1>3, <1>4, <1>5, <1>6, Zenon DEF IoInv

LEMMA ChainTooShortInv == ASSUME IoInv, ChainTooShort PROVE IoInv'
BY DiskIsOK, LeaveInv, Zenon DEF ChainTooShort, Under

\* What stays when only the steps of a call go on.
LEMMA SameCall ==
  ASSUME CallOK, UNCHANGED <<disk, chain, fds, user, before>>,
         call'.fd = call.fd, call'.op = call.op, call'.count = call.count, call'.done = call.done,
         call'.fault = call.fault
  PROVE  CallOK'
BY Zenon DEF CallOK, Agrees, Asked, Reaches, ByteAt

LEMMA BeginChunkInv == ASSUME IoInv, BeginChunk PROVE IoInv'
<1>0. /\ call.pc = "chunk" /\ call.pc \in Under /\ call.done < call.count /\ call' \in {StartIo(call), Leave}
      /\ UNCHANGED <<disk, chain, fds, user, before>>
  BY Zenon DEF BeginChunk, Under
<1>1. CASE call' = Leave
  BY <1>0, <1>1, DiskIsOK, LeaveInv, Zenon
<1>2. CASE call' = StartIo(call)
  <2>0. IoTypeOK /\ CallOK /\ DOMAIN call = CallFields
    BY <1>0, Zenon DEF IoInv, IoTypeOK
  <2> DEFINE b == IF call.op = "write" THEN copy_from_user(call.done, Chunk) ELSE [i \in 0 .. Chunk - 1 |-> 0]
  <2>1. /\ DOMAIN b = 0 .. Chunk - 1
        /\ call.op = "write" => \A j \in 0 .. Chunk - 1 : b[j] = user[call.done + j]
    BY Zenon DEF copy_from_user
  <2>2. call' = [call EXCEPT !.pc = "io", !.size = MinOf(Chunk, FileSize - fds[call.fd]), !.skip = fds[call.fd],
                            !.solve = 0, !.next = 1, !.buf = b]
    BY <1>2, Zenon DEF StartIo
  <2> HIDE DEF b
  <2>3. /\ DOMAIN call' = CallFields
        /\ call'.pc = "io" /\ call'.size = MinOf(Chunk, FileSize - fds[call.fd]) /\ call'.skip = fds[call.fd]
        /\ call'.solve = 0 /\ call'.next = 1 /\ call'.buf = b
        /\ call'.fd = call.fd /\ call'.op = call.op /\ call'.count = call.count /\ call'.done = call.done
        /\ call'.fault = call.fault
    BY <2>0, <2>2, Zenon DEF CallFields
  <2>4. IoTypeOK'
    BY <1>0, <2>0, <2>3, Zenon DEF IoTypeOK, Under
  <2>5. CallOK'
    BY <1>0, <2>0, <2>3, SameCall, Zenon
  <2>6. /\ Chunk' = Chunk /\ Here' = Here /\ fds[call.fd] = Here /\ Here \in Nat /\ Here <= FileSize
        /\ Chunk \in Nat \ {0} /\ call.done \in Nat /\ call.count \in Nat
    <3>1. Chunk' = Chunk /\ Here' = Here
      BY <1>0, <2>3, Zenon DEF Chunk, Here
    <3>2. fds[call.fd] = Here /\ Here \in Nat /\ Here <= FileSize /\ call.done \in Nat /\ call.count \in Nat
      BY <1>0, <2>0, CallNumbers DEF Here
    <3>3. Chunk \in Nat \ {0}
      BY <1>0, <3>2, IoNumbers DEF Chunk, MinOf
    <3> QED BY <3>1, <3>2, <3>3, Zenon
  <2>7. call'.size \in Nat /\ 0 \in 0 .. call'.size
    BY <2>3, <2>6, IoNumbers DEF MinOf
  <2>8. (1 - 1) * ClusterSize + Here = Here + 0
    BY <2>6, IoNumbers
  <2>9. ChunkOK'
    BY <1>0, <2>1, <2>3, <2>6, <2>7, <2>8 DEF ChunkOK
  <2> QED BY <2>3, <2>4, <2>5, <2>9, Zenon DEF IoInv, IoExact
<1> QED BY <1>0, <1>1, <1>2, Zenon

LEMMA NextChunkInv == ASSUME IoInv, NextChunk PROVE IoInv'
<1>0. /\ call.pc = "next" /\ call.pc \in Under /\ UNCHANGED <<disk, chain, fds, user, before>>
      /\ IoTypeOK /\ CallOK /\ NextOK /\ DOMAIN call = CallFields /\ call.done \in Nat /\ call.count \in Nat
  BY DEF NextChunk, Under, IoInv, IoTypeOK
<1>1. CASE call.done = call.count \/ call.size < MinOf(call.count - call.done + call.size, BufferSize)
  <2>1. call' = Returns(call, call.done, FALSE)
    BY <1>1, Zenon DEF NextChunk
  <2>2. call.done = MinOf(call.count, FileSize - before.offset)
    <3>1. PICK d \in Nat, s \in Nat, n \in Nat, o \in Nat, f \in Nat, b \in Nat \ {0} :
            /\ d = call.done /\ s = call.size /\ n = call.count /\ o = before.offset
            /\ f = FileSize /\ b = BufferSize
      <4>1. call.size \in 0 .. call.done
        BY <1>0, Zenon DEF NextOK
      <4>2. call.size \in Nat
        BY <1>0, <4>1
      <4> QED BY <1>0, <4>2, CallNumbers, IoNumbers, Zenon
    <3>2. /\ s <= d /\ d <= n /\ o + d <= f /\ d - s < n
          /\ s = MinOf(MinOf(n - (d - s), b), f - (o + (d - s)))
      <4>1. /\ call.size \in 0 .. call.done /\ call.done - call.size < call.count
            /\ call.size = MinOf(MinOf(call.count - (call.done - call.size), BufferSize),
                                 FileSize - (before.offset + (call.done - call.size)))
        BY <1>0, Zenon DEF NextOK
      <4> QED BY <1>0, <3>1, <4>1, CallNumbers
    <3>3. d = n \/ s < MinOf(n - d + s, b)
      BY <1>1, <3>1, Zenon
    <3>4. d = MinOf(n, f - o)
      BY <3>2, <3>3 DEF MinOf
    <3> QED BY <3>1, <3>4, Zenon
  <2> QED BY <1>0, <2>1, <2>2, DiskIsOK, ReturnInv, Zenon
<1>2. CASE ~(call.done = call.count \/ call.size < MinOf(call.count - call.done + call.size, BufferSize))
  <2>1. call' = [call EXCEPT !.pc = "chunk"]
    BY <1>2, Zenon DEF NextChunk
  <2>2. /\ DOMAIN call' = CallFields /\ call'.pc = "chunk"
        /\ call'.fd = call.fd /\ call'.op = call.op /\ call'.count = call.count /\ call'.done = call.done
        /\ call'.fault = call.fault
    BY <1>0, <2>1, Zenon DEF CallFields
  <2>3. IoTypeOK'
    BY <1>0, <2>2, Zenon DEF IoTypeOK, Under
  <2>4. CallOK'
    BY <1>0, <2>2, SameCall, Zenon
  <2>5. call'.done < call'.count
    <3>1. call.done \in Nat /\ call.count \in Nat /\ call.done <= call.count
      BY <1>0, CallNumbers, Zenon
    <3>2. call.done < call.count
      BY <1>2, <3>1
    <3> QED BY <2>2, <3>2, Zenon
  <2> QED BY <2>2, <2>3, <2>4, <2>5, Zenon DEF IoInv, IoExact
<1> QED BY <1>1, <1>2, Zenon

\* The numbers of a chunk under way.
LEMMA ChunkNumbers ==
  ASSUME IoInv, call.pc = "io"
  PROVE  /\ IoTypeOK /\ CallOK /\ ChunkOK /\ DOMAIN call = CallFields /\ call.pc \in Under
         /\ before.offset \in Nat /\ call.done \in Nat /\ call.count \in Nat /\ call.count <= MaxCount
         /\ Chunk \in Nat \ {0} /\ Chunk <= call.count - call.done
         /\ call.size \in Nat /\ call.size <= Chunk /\ call.size <= FileSize - Here
         /\ call.solve \in Nat /\ call.solve <= call.size
         /\ Here \in Nat /\ Here = before.offset + call.done
         /\ call.skip \in Nat /\ call.next \in Nat \ {0}
<1>1. IoTypeOK /\ CallOK /\ ChunkOK /\ DOMAIN call = CallFields /\ call.pc \in Under
  BY Zenon DEF IoInv, IoTypeOK, Under
<1>2. before.offset \in Nat /\ call.done \in Nat /\ call.count \in Nat /\ call.count <= MaxCount
  BY <1>1, CallNumbers, Zenon
<1>3. Chunk \in Nat \ {0} /\ Chunk <= call.count - call.done
  BY <1>1, <1>2, IoNumbers DEF ChunkOK, Chunk, MinOf
<1>4. Here \in Nat /\ Here = before.offset + call.done /\ Here <= FileSize
  BY <1>1, <1>2 DEF Here, CallOK
<1>5. call.size \in Nat /\ call.size <= Chunk /\ call.size <= FileSize - Here
  BY <1>1, <1>3, <1>4, IoNumbers DEF ChunkOK, MinOf
<1> QED BY <1>1, <1>2, <1>3, <1>4, <1>5 DEF ChunkOK

LEMMA EndChunkInv == ASSUME IoInv, EndChunk PROVE IoInv'
<1>0. call.pc = "io" /\ call.solve = call.size /\ UNCHANGED <<disk, chain, before>>
  BY Zenon DEF EndChunk
<1>1. CASE call' = Leave /\ UNCHANGED <<user, fds>>
  BY <1>0, <1>1, DiskIsOK, LeaveInv, Zenon DEF Under
<1>2. CASE /\ user' = IF call.op = "write" THEN user ELSE copy_to_user(call.done, call.buf, call.size)
           /\ fds' = [fds EXCEPT ![call.fd] = @ + call.size]
           /\ call' = [call EXCEPT !.done = @ + call.size, !.pc = "next"]
  <2>0. /\ IoTypeOK /\ CallOK /\ ChunkOK /\ DOMAIN call = CallFields
        /\ before.offset \in Nat /\ call.done \in Nat /\ call.count \in Nat /\ call.count <= MaxCount
        /\ Chunk \in Nat \ {0} /\ Chunk <= call.count - call.done
        /\ call.size \in Nat /\ call.size <= Chunk /\ call.size <= FileSize - Here
        /\ Here \in Nat /\ Here = before.offset + call.done
    BY <1>0, ChunkNumbers, Zenon
  <2>1. /\ DOMAIN call' = CallFields /\ call'.pc = "next" /\ call'.done = call.done + call.size
        /\ call'.fd = call.fd /\ call'.op = call.op /\ call'.count = call.count /\ call'.size = call.size
        /\ call'.fault = call.fault
    BY <1>2, <2>0, Zenon DEF CallFields
  <2>2. call.fd \in Descriptors /\ call.op \in {"read", "write"} /\ call.count \in 1 .. MaxCount
    BY <1>0, <2>0, Zenon DEF IoTypeOK
  <2>3. fds'[call.fd] = fds[call.fd] + call.size /\ fds[call.fd] = Here
    BY <1>2, <2>0, <2>2, Zenon DEF IoTypeOK, CallOK
  <2>4. fds' \in [Descriptors -> 0 .. Closed]
    <3>1. Here + call.size \in 0 .. Closed
      BY <2>0, IoNumbers DEF Closed
    <3> QED BY <1>2, <2>0, <2>3, <3>1, Zenon DEF IoTypeOK
  <2>5. /\ DOMAIN user' = Offsets
        /\ \A i \in Offsets : i < call.done \/ i >= call.done + call.size => user'[i] = user[i]
        /\ \A i \in Offsets : i >= call.done /\ i < call.done + call.size => user'[i] = call.buf[i - call.done]
    <3>1. CASE call.op = "write"
      <4>1. \A i \in Offsets : i >= call.done /\ i < call.done + call.size =>
              /\ i - call.done \in 0 .. Chunk - 1 /\ call.done + (i - call.done) = i
        BY <2>0, IoNumbers DEF Offsets
      <4>2. \A j \in 0 .. Chunk - 1 : call.buf[j] = user[call.done + j]
        BY <2>0, <3>1, Zenon DEF ChunkOK
      <4> QED BY <1>2, <2>0, <3>1, <4>1, <4>2, Zenon DEF IoTypeOK
    <3>2. CASE call.op = "read"
      <4>1. \A i \in Offsets : i \in Nat
        BY IoNumbers DEF Offsets
      <4> QED BY <1>2, <2>0, <3>2, <4>1 DEF copy_to_user
    <3> QED BY <2>2, <3>1, <3>2, Zenon
  <2>6. IoTypeOK'
    BY <1>0, <2>0, <2>1, <2>2, <2>4, <2>5 DEF IoTypeOK, Under
  <2>7. CallOK'
    <3>1. \A i \in Offsets : i < call.done + call.size => Agrees(i, before.offset + i)'
      <4> TAKE i \in Offsets
      <4>0. i \in Nat
        BY IoNumbers DEF Offsets
      <4>1. CASE i < call.done
        BY <1>0, <2>0, <2>5, <4>1, Zenon DEF CallOK, Agrees, Reaches, ByteAt
      <4>2. CASE i >= call.done /\ i < call.done + call.size
        <5>1. i - call.done \in 0 .. call.solve - 1 /\ Here + (i - call.done) = before.offset + i
          BY <1>0, <2>0, <4>0, <4>2
        <5>2. Reaches(before.offset + i) /\ call.buf[i - call.done] = ByteAt(disk, before.offset + i)
          BY <2>0, <5>1, Zenon DEF ChunkOK
        <5> QED BY <1>0, <2>5, <4>2, <5>2, Zenon DEF Agrees, Reaches, ByteAt
      <4> QED BY <2>0, <4>0, <4>1, <4>2
    <3>2. \A i \in Offsets : i >= call.done + call.size => user'[i] = before'.user[i]
      <4>1. \A i \in Offsets : i >= call.done + call.size => i >= call.done
        BY <2>0, IoNumbers DEF Offsets
      <4> QED BY <1>0, <2>0, <2>5, <4>1, Zenon DEF CallOK
    <3>3. call.done + call.size <= call.count /\ before.offset + (call.done + call.size) <= FileSize
      BY <2>0, IoNumbers
    <3>4. fds'[call'.fd] = before'.offset + call'.done
      BY <1>0, <2>0, <2>1, <2>3
    <3>5. call.op = "write" =>
            /\ user' = before'.user
            /\ \A c \in Clusters, i \in 0 .. ClusterSize - 1 : Asked(c, i)' \/ disk'[c][i] = before'.disk[c][i]
      BY <1>0, <1>2, <2>0, <2>1 DEF CallOK, Asked, Reaches
    <3> QED BY <1>0, <2>0, <2>1, <3>1, <3>2, <3>3, <3>4, <3>5, Zenon DEF CallOK
  <2>8. NextOK'
    <3>1. (call.done + call.size) - call.size = call.done /\ call.size \in 0 .. call.done + call.size
      BY <2>0
    <3>2. call.size = MinOf(MinOf(call.count - call.done, BufferSize), FileSize - (before.offset + call.done))
      BY <2>0, Zenon DEF ChunkOK, Chunk
    <3> QED BY <1>0, <2>0, <2>1, <3>1, <3>2, Zenon DEF NextOK, ChunkOK
  <2> QED BY <2>1, <2>6, <2>7, <2>8, Zenon DEF IoInv, IoExact
<1> QED BY <1>1, <1>2, Zenon DEF EndChunk

\* do_file_io is at a cluster of the chain: where the bytes it moves are.
At == call.pc = "io" /\ call.solve < call.size /\ call.next <= Len(chain)

LEMMA Touched ==
  ASSUME IoInv, At, call.skip < ClusterSize, NEW i \in 0 .. ClusterSize - 1, i >= call.skip,
         NEW p \in Nat, p = Here + call.solve + (i - call.skip)
  PROVE  Reaches(p) /\ (p \div ClusterSize) + 1 = call.next /\ p % ClusterSize = i
<1>1. /\ call.next \in Nat \ {0} /\ call.skip \in Nat /\ Here \in Nat /\ call.solve \in Nat /\ ChunkOK
  BY ChunkNumbers, Zenon DEF At
<1>2. PICK q \in Nat : q = call.next - 1
  BY <1>1
<1>3. PICK b \in Nat : b = q * ClusterSize
  BY <1>2, IoNumbers
<1>4. b + call.skip = Here + call.solve
  BY <1>1, <1>2, <1>3, Zenon DEF ChunkOK, At
<1>5. p = b + i /\ i \in Nat /\ i < ClusterSize
  BY <1>1, <1>3, <1>4, IoNumbers
<1>6. q * ClusterSize <= p /\ p < q * ClusterSize + ClusterSize
  BY <1>3, <1>5, IoNumbers
<1>7. p \div ClusterSize = q /\ p % ClusterSize = p - b
  BY <1>3, <1>6, InCluster, Zenon
<1>8. q + 1 = call.next /\ p - b = i
  BY <1>1, <1>2, <1>3, <1>5
<1> QED BY <1>7, <1>8, Zenon DEF Reaches, At

\* The bytes before are in other clusters, or before skip in this one.
LEMMA Passed ==
  ASSUME IoInv, At, call.skip < ClusterSize, NEW p \in Nat, p < Here + call.solve, Reaches(p)
  PROVE  chain[(p \div ClusterSize) + 1] # chain[call.next] \/ p % ClusterSize < call.skip
<1>1. /\ call.next \in Nat \ {0} /\ call.skip \in Nat /\ Here \in Nat /\ call.solve \in Nat /\ ChunkOK
      /\ IoTypeOK
  BY ChunkNumbers, Zenon DEF At
<1>2. PICK q \in Nat : q = call.next - 1
  BY <1>1
<1>3. PICK b \in Nat : b = q * ClusterSize
  BY <1>2, IoNumbers
<1>4. b + call.skip = Here + call.solve
  BY <1>1, <1>2, <1>3, Zenon DEF ChunkOK, At
<1>5. CASE p < b
  <2>1. p \div ClusterSize \in Nat /\ p \div ClusterSize < q
    BY <1>3, <1>5, BeforeCluster, Zenon
  <2>2. /\ (p \div ClusterSize) + 1 \in 1 .. Len(chain) /\ call.next \in 1 .. Len(chain)
        /\ (p \div ClusterSize) + 1 # call.next
    BY <1>1, <1>2, <2>1, ChainIs DEF Reaches, At
  <2> QED BY <1>1, <2>2, ChainIs, Zenon
<1>6. CASE p >= b
  <2>1. p % ClusterSize = p - b
    <3>1. q * ClusterSize <= p /\ p < q * ClusterSize + ClusterSize
      BY <1>1, <1>3, <1>4, <1>6, IoNumbers
    <3> QED BY <1>3, <3>1, InCluster, Zenon
  <2> QED BY <1>1, <1>3, <1>4, <1>6, <2>1
<1> QED BY <1>3, <1>5, <1>6

\* A cluster is written: what is through stays, and nothing else changes.
LEMMA MergedOK ==
  ASSUME IoInv, At, call.skip < ClusterSize, call.op = "write",
         disk' = [disk EXCEPT ![chain[call.next]] = Merged(chain[call.next])]
  PROVE  /\ DiskOK(disk')
         /\ \A p \in Nat : p < Here + call.solve /\ Reaches(p) => ByteAt(disk', p) = ByteAt(disk, p)
         /\ \A i \in 0 .. ClusterSize - 1 : Within(i) =>
              disk'[chain[call.next]][i] = call.buf[call.solve + i - call.skip]
<1>0. /\ IoTypeOK /\ CallOK /\ ChunkOK /\ call.pc \in Under
      /\ before.offset \in Nat /\ call.done \in Nat /\ call.count \in Nat
      /\ Chunk \in Nat \ {0} /\ Chunk <= call.count - call.done
      /\ call.size \in Nat /\ call.size <= Chunk /\ call.size <= FileSize - Here
      /\ call.solve \in Nat /\ Here \in Nat /\ Here = before.offset + call.done
      /\ call.skip \in Nat /\ call.next \in Nat \ {0}
  BY ChunkNumbers, Zenon DEF At
<1>1. PICK k \in Clusters : k = chain[call.next]
  BY <1>0, ChainIs DEF At
<1>2. /\ DOMAIN disk' = Clusters
      /\ \A c \in Clusters : c # k => disk'[c] = disk[c]
      /\ disk'[k] = Merged(k)
  BY <1>0, <1>1, Zenon DEF IoTypeOK
<1>3. /\ DOMAIN disk'[k] = 0 .. ClusterSize - 1
      /\ \A i \in 0 .. ClusterSize - 1 :
           disk'[k][i] = IF Within(i) THEN call.buf[call.solve + i - call.skip] ELSE disk[k][i]
  BY <1>2, Zenon DEF Merged
<1>4. \A p \in Nat : p < Here + call.solve /\ Reaches(p) => ByteAt(disk', p) = ByteAt(disk, p)
  <2> SUFFICES ASSUME NEW p \in Nat, p < Here + call.solve, Reaches(p) PROVE ByteAt(disk', p) = ByteAt(disk, p)
    BY Zenon
  <2>1. PICK c, i : c = chain[(p \div ClusterSize) + 1] /\ i = p % ClusterSize
    BY Zenon
  <2>2. c \in Clusters /\ i \in 0 .. ClusterSize - 1
    <3>1. (p \div ClusterSize) + 1 \in 1 .. Len(chain)
      <4>1. p \div ClusterSize \in Nat /\ Len(chain) \in Nat
        BY <1>0, Position, ChainIs, Zenon
      <4> QED BY <4>1 DEF Reaches
    <3> QED BY <1>0, <2>1, <3>1, Position, ChainIs, Zenon
  <2>3. c # k \/ i < call.skip
    BY <1>1, <2>1, Passed, Zenon
  <2>4. c # k \/ ~Within(i)
    BY <1>0, <2>2, <2>3, IoNumbers DEF Within
  <2>5. disk'[c][i] = disk[c][i]
    BY <1>2, <1>3, <2>2, <2>4, Zenon
  <2> QED BY <2>1, <2>5, Zenon DEF ByteAt
<1>5. \A i \in Offsets : i < call.done => user[i] = ByteAt(disk', before.offset + i)
  <2> SUFFICES ASSUME NEW i \in Offsets, i < call.done PROVE user[i] = ByteAt(disk', before.offset + i)
    BY Zenon
  <2>1. before.offset + i \in Nat /\ before.offset + i < Here + call.solve
    BY <1>0, IoNumbers DEF Offsets
  <2> QED BY <1>0, <1>4, <2>1, Zenon DEF CallOK, Agrees
<1>6. \A c \in Clusters, i \in 0 .. ClusterSize - 1 : Asked(c, i) \/ disk'[c][i] = before.disk[c][i]
  <2> SUFFICES ASSUME NEW c \in Clusters, NEW i \in 0 .. ClusterSize - 1, disk'[c][i] # before.disk[c][i]
               PROVE  Asked(c, i)
    BY Zenon
  <2>1. CASE disk'[c][i] = disk[c][i]
    BY <1>0, <2>1, Zenon DEF CallOK
  <2>2. CASE disk'[c][i] # disk[c][i]
    <3>1. c = k /\ Within(i)
      BY <1>2, <1>3, <2>2, Zenon
    <3>2. i >= call.skip /\ i - call.skip < call.size - call.solve /\ i \in Nat
      BY <3>1, IoNumbers DEF Within
    <3>3. PICK p \in Nat : p = Here + call.solve + (i - call.skip)
      BY <1>0, <3>2
    <3>4. Reaches(p) /\ (p \div ClusterSize) + 1 = call.next /\ p % ClusterSize = i
      BY <3>2, <3>3, Touched, Zenon
    <3>5. p \in before.offset .. before.offset + call.count - 1 /\ p < FileSize
      BY <1>0, <3>2, <3>3, IoNumbers
    <3> QED BY <1>1, <3>1, <3>4, <3>5, Zenon DEF Asked
  <2> QED BY <2>1, <2>2, Zenon
<1>7. \A c \in Clusters : DOMAIN disk'[c] = 0 .. ClusterSize - 1
  BY <1>0, <1>2, <1>3, Zenon DEF IoTypeOK
<1>8. DiskOK(disk')
  BY <1>2, <1>5, <1>6, <1>7, Zenon DEF DiskOK
<1> QED BY <1>1, <1>3, <1>4, <1>8, Zenon

LEMMA SameCallOnDisk ==
  ASSUME CallOK, DiskOK(disk'), UNCHANGED <<chain, fds, user, before>>,
         call'.fd = call.fd, call'.op = call.op, call'.count = call.count, call'.done = call.done,
         call'.fault = call.fault
  PROVE  CallOK'
<1>1. \A c, i : Asked(c, i)' <=> Asked(c, i)
  BY Zenon DEF Asked, Reaches
<1>2. \A i \in Offsets : i < call.done => Agrees(i, before.offset + i)'
  BY Zenon DEF CallOK, DiskOK, Agrees, Reaches, ByteAt
<1> QED BY <1>1, <1>2, Zenon DEF CallOK, DiskOK

\* The count of bytes of one turn, and the place of the next one.
Count == MinOf(ClusterSize - call.skip, call.size - call.solve)

LEMMA Turn ==
  ASSUME IoInv, At
  PROVE  /\ call.skip >= ClusterSize =>
              ((call.next + 1) - 1) * ClusterSize + (call.skip - ClusterSize) = Here + call.solve
         /\ call.skip < ClusterSize =>
              /\ Count \in Nat \ {0} /\ call.solve + Count <= call.size
              /\ call.solve + Count < call.size =>
                   ((call.next + 1) - 1) * ClusterSize + 0 = Here + (call.solve + Count)
<1>1. /\ call.next \in Nat \ {0} /\ call.skip \in Nat /\ Here \in Nat /\ call.solve \in Nat /\ call.size \in Nat
      /\ ChunkOK
  BY ChunkNumbers, Zenon DEF At
<1>2. PICK q \in Nat, z \in Nat \ {0} : q = call.next - 1 /\ z = ClusterSize
  BY <1>1, IoNumbers
<1>3. q * z + call.skip = Here + call.solve
  BY <1>1, <1>2, Zenon DEF ChunkOK, At
<1>4. ((call.next + 1) - 1) * ClusterSize = q * z + z /\ q * z \in Nat
  BY <1>1, <1>2
<1>5. PICK b \in Nat : b = q * z
  BY <1>4, Zenon
<1>6. PICK h \in Nat, s \in Nat, k \in Nat : h = Here /\ s = call.solve /\ k = call.skip
  BY <1>1, Zenon
<1>7. b + k = h + s
  BY <1>3, <1>5, <1>6, Zenon
<1>8. ASSUME call.skip >= ClusterSize
      PROVE  ((call.next + 1) - 1) * ClusterSize + (call.skip - ClusterSize) = Here + call.solve
  <2>1. (b + z) + (call.skip - z) = Here + call.solve
    BY <1>1, <1>2, <1>3, <1>5
  <2> QED BY <1>2, <1>4, <1>5, <2>1, Zenon
<1>9. ASSUME call.skip < ClusterSize
      PROVE  /\ Count \in Nat \ {0} /\ call.solve + Count <= call.size
             /\ call.solve + Count < call.size => Count = z - call.skip
  BY <1>1, <1>2, <1>9 DEF Count, MinOf, At
<1>10. ASSUME call.skip < ClusterSize, call.solve + Count < call.size
      PROVE  ((call.next + 1) - 1) * ClusterSize + 0 = Here + (call.solve + Count)
  <2>1. (b + z) + 0 = Here + (call.solve + (z - call.skip))
    <3>1. (b + z) + 0 = h + (s + (z - k))
      BY <1>7
    <3> QED BY <1>6, <3>1, Zenon
  <2> QED BY <1>4, <1>5, <1>9, <1>10, <2>1, Zenon
<1> QED BY <1>8, <1>9, <1>10, Zenon

\* What one turn leaves of the record of a call.
Moved(next, skip, solve) ==
  /\ DOMAIN call' = CallFields
  /\ call'.pc = "io" /\ call'.fd = call.fd /\ call'.op = call.op /\ call'.count = call.count
  /\ call'.done = call.done /\ call'.size = call.size /\ call'.fault = call.fault
  /\ call'.next = next /\ call'.skip = skip /\ call'.solve = solve

LEMMA MovedInv ==
  ASSUME IoInv, At, NEW next \in Nat \ {0}, NEW skip \in Nat, NEW solve \in 0 .. call.size,
         Moved(next, skip, solve), DiskOK(disk'), UNCHANGED <<chain, fds, user, before>>,
         DOMAIN call'.buf = DOMAIN call.buf,
         call.op = "write" => call'.buf = call.buf,
         solve < call.size => (next - 1) * ClusterSize + skip = Here + solve,
         \A j \in 0 .. solve - 1 : Reaches(Here + j) /\ call'.buf[j] = ByteAt(disk', Here + j)
  PROVE  IoInv'
<1>0. IoTypeOK /\ CallOK /\ ChunkOK
  BY ChunkNumbers, Zenon DEF At
<1>1. IoTypeOK'
  BY <1>0, Zenon DEF IoTypeOK, Moved, DiskOK, Under, At
<1>2. CallOK'
  BY <1>0, SameCallOnDisk, Zenon DEF Moved
<1>3. Here' = Here /\ Chunk' = Chunk
  BY Zenon DEF Moved, Here, Chunk
<1>4. \A j \in 0 .. solve - 1 : Reaches(Here + j)' /\ call'.buf[j] = ByteAt(disk, Here + j)'
  BY <1>3, Zenon DEF Reaches, ByteAt
<1>5. ChunkOK'
  BY <1>0, <1>3, <1>4, Zenon DEF ChunkOK, Moved
<1> QED BY <1>1, <1>2, <1>5, Zenon DEF IoInv, Moved, IoExact

LEMMA do_file_ioInv == ASSUME IoInv, do_file_io PROVE IoInv'
<1>0. At /\ call.pc \in Under /\ UNCHANGED <<chain, fds, user, before>>
  BY Zenon DEF do_file_io, At, Under
<1>1. /\ IoTypeOK /\ CallOK /\ ChunkOK /\ DOMAIN call = CallFields
      /\ Chunk \in Nat \ {0} /\ call.size \in Nat /\ call.size <= Chunk
      /\ call.solve \in Nat /\ Here \in Nat /\ call.skip \in Nat /\ call.next \in Nat \ {0}
      /\ call.solve < call.size
  BY <1>0, ChunkNumbers, Zenon DEF At
<1>2. PICK k : k = chain[call.next]
  BY Zenon
<1> DEFINE passed == [call EXCEPT !.next = @ + 1]
           solved == [passed EXCEPT !.skip = 0, !.solve = @ + Count]
<1>3. /\ DOMAIN passed = CallFields /\ passed.next = call.next + 1 /\ passed.skip = call.skip
      /\ passed.solve = call.solve /\ passed.buf = call.buf
      /\ \A f \in {"pc", "fd", "op", "count", "done", "size", "fault"} : passed[f] = call[f]
  BY <1>1, Zenon DEF CallFields
<1>4. /\ DOMAIN solved = CallFields /\ solved.next = call.next + 1 /\ solved.skip = 0
      /\ solved.solve = call.solve + Count /\ solved.buf = call.buf
      /\ \A f \in {"pc", "fd", "op", "count", "done", "size", "fault"} : solved[f] = call[f]
  <2> HIDE DEF passed
  <2> QED BY <1>3, Zenon DEF CallFields
<1>5. \/ /\ call.skip >= ClusterSize
         /\ call' = [passed EXCEPT !.skip = @ - ClusterSize] /\ UNCHANGED disk
      \/ /\ call.skip < ClusterSize /\ call.op = "read"
         /\ call' = [solved EXCEPT !.buf = Copied(k)] /\ UNCHANGED disk
      \/ /\ call.skip < ClusterSize /\ call.op = "write"
         /\ disk' = [disk EXCEPT ![k] = Merged(k)] /\ call' = solved
      \/ call' = Leave /\ UNCHANGED disk
      \/ /\ call.skip < ClusterSize /\ call.op = "write" /\ call' = Leave
         /\ disk' = [disk EXCEPT ![k] = Merged(k)]
  BY <1>2, Zenon DEF do_file_io, Count
<1> HIDE DEF passed, solved
<1>6. CASE call' = Leave /\ UNCHANGED disk
  BY <1>0, <1>6, DiskIsOK, LeaveInv, Zenon
<1>7. CASE /\ call.skip < ClusterSize /\ call.op = "write" /\ call' = Leave
           /\ disk' = [disk EXCEPT ![k] = Merged(k)]
  BY <1>0, <1>2, <1>7, MergedOK, LeaveInv, Zenon
<1>8. CASE /\ call.skip >= ClusterSize
           /\ call' = [passed EXCEPT !.skip = @ - ClusterSize] /\ UNCHANGED disk
  <2>1. call'.buf = call.buf /\ Moved(call.next + 1, call.skip - ClusterSize, call.solve)
    BY <1>0, <1>3, <1>8, Zenon DEF Moved, CallFields, At
  <2>2. /\ call.next + 1 \in Nat \ {0} /\ call.skip - ClusterSize \in Nat /\ call.solve \in 0 .. call.size
    BY <1>1, <1>8, IoNumbers
  <2>3. ((call.next + 1) - 1) * ClusterSize + (call.skip - ClusterSize) = Here + call.solve
    BY <1>0, <1>8, Turn, Zenon
  <2>4. DiskOK(disk')
    BY <1>0, <1>8, DiskIsOK, Zenon
  <2>5. \A j \in 0 .. call.solve - 1 : Reaches(Here + j) /\ call'.buf[j] = ByteAt(disk', Here + j)
    BY <1>1, <1>8, <2>1, Zenon DEF ChunkOK
  <2> QED BY <1>0, <2>1, <2>2, <2>3, <2>4, <2>5, MovedInv, Zenon
<1>9. ASSUME call.skip < ClusterSize
      PROVE  /\ call.next + 1 \in Nat \ {0} /\ 0 \in Nat /\ call.solve + Count \in 0 .. call.size /\ Count \in Nat
             /\ Count <= ClusterSize - call.skip
             /\ call.solve + Count < call.size =>
                  ((call.next + 1) - 1) * ClusterSize + 0 = Here + (call.solve + Count)
  <2>1. Count <= ClusterSize - call.skip
    BY <1>1, <1>9, IoNumbers DEF Count, MinOf
  <2> QED BY <1>0, <1>1, <1>9, <2>1, Turn
\* The bytes of this turn: where they are in the file and in the buffer.
<1>10. ASSUME call.skip < ClusterSize, NEW j \in call.solve .. call.solve + Count - 1
       PROVE  LET i == j - call.solve + call.skip IN
              /\ i \in 0 .. ClusterSize - 1 /\ Within(i) /\ j \in 0 .. Chunk - 1
              /\ call.solve + i - call.skip = j
              /\ Reaches(Here + j) /\ \A d : ByteAt(d, Here + j) = d[k][i]
  <2>1. PICK i \in Nat : i = j - call.solve + call.skip
    BY <1>1, <1>9, <1>10
  <2>2. i \in 0 .. ClusterSize - 1 /\ i >= call.skip /\ call.solve + i - call.skip = j /\ j \in 0 .. Chunk - 1
    BY <1>1, <1>9, <1>10, <2>1, IoNumbers
  <2>3. Within(i)
    BY <1>1, <1>9, <1>10, <2>1 DEF Within
  <2>4. Here + j \in Nat /\ Here + j = Here + call.solve + (i - call.skip)
    BY <1>1, <2>1, <2>2
  <2>5. Reaches(Here + j) /\ ((Here + j) \div ClusterSize) + 1 = call.next /\ (Here + j) % ClusterSize = i
    BY <1>0, <1>10, <2>2, <2>4, Touched, Zenon
  <2> QED BY <1>2, <2>1, <2>2, <2>3, <2>5, Zenon DEF ByteAt
<1>11. CASE /\ call.skip < ClusterSize /\ call.op = "read"
            /\ call' = [solved EXCEPT !.buf = Copied(k)] /\ UNCHANGED disk
  <2>1. call'.buf = Copied(k) /\ Moved(call.next + 1, 0, call.solve + Count)
    BY <1>0, <1>4, <1>11, Zenon DEF Moved, CallFields, At
  <2>2. DOMAIN Copied(k) = DOMAIN call.buf /\ DOMAIN call.buf = 0 .. Chunk - 1
    BY <1>1, Zenon DEF Copied, ChunkOK
  <2>3. DiskOK(disk')
    BY <1>0, <1>11, DiskIsOK, Zenon
  <2>4. \A j \in 0 .. (call.solve + Count) - 1 : Reaches(Here + j) /\ call'.buf[j] = ByteAt(disk', Here + j)
    <3> TAKE j \in 0 .. (call.solve + Count) - 1
    <3>1. CASE j < call.solve
      <4>1. j \in 0 .. call.solve - 1 /\ j \in 0 .. Chunk - 1 /\ ~(j >= call.solve)
        BY <1>1, <1>9, <1>11, <3>1
      <4>2. Copied(k)[j] = call.buf[j]
        BY <2>2, <4>1, Zenon DEF Copied
      <4> QED BY <1>1, <1>11, <2>1, <4>1, <4>2, Zenon DEF ChunkOK
    <3>2. CASE j >= call.solve
      <4>1. j \in call.solve .. call.solve + Count - 1
        BY <1>1, <1>9, <1>11, <3>2
      <4>2. PICK i : i = j - call.solve + call.skip
        BY Zenon
      <4>3. /\ i \in 0 .. ClusterSize - 1 /\ Within(i) /\ j \in 0 .. Chunk - 1
            /\ Reaches(Here + j) /\ ByteAt(disk', Here + j) = disk'[k][i]
        BY <1>10, <1>11, <4>1, <4>2, Zenon
      <4>4. i < ClusterSize
        BY <4>3, IoNumbers
      <4>5. Copied(k)[j] = disk[k][i]
        BY <2>2, <3>2, <4>2, <4>3, <4>4, Zenon DEF Copied
      <4> QED BY <1>11, <2>1, <4>3, <4>5, Zenon
    <3>3. j < call.solve \/ j >= call.solve
      BY <1>1
    <3> QED BY <3>1, <3>2, <3>3, Zenon
  <2> QED BY <1>0, <1>9, <1>11, <2>1, <2>2, <2>3, <2>4, MovedInv, Zenon
<1>12. CASE /\ call.skip < ClusterSize /\ call.op = "write"
            /\ disk' = [disk EXCEPT ![k] = Merged(k)] /\ call' = solved
  <2>1. call'.buf = call.buf /\ Moved(call.next + 1, 0, call.solve + Count)
    BY <1>0, <1>4, <1>12, Zenon DEF Moved, At
  <2>2. /\ DiskOK(disk')
        /\ \A p \in Nat : p < Here + call.solve /\ Reaches(p) => ByteAt(disk', p) = ByteAt(disk, p)
        /\ \A i \in 0 .. ClusterSize - 1 : Within(i) => disk'[k][i] = call.buf[call.solve + i - call.skip]
    BY <1>0, <1>2, <1>12, MergedOK, Zenon
  <2>3. \A j \in 0 .. (call.solve + Count) - 1 : Reaches(Here + j) /\ call'.buf[j] = ByteAt(disk', Here + j)
    <3> TAKE j \in 0 .. (call.solve + Count) - 1
    <3>1. CASE j < call.solve
      <4>1. j \in 0 .. call.solve - 1 /\ Here + j \in Nat /\ Here + j < Here + call.solve
        BY <1>1, <1>9, <1>12, <3>1
      <4>2. Reaches(Here + j) /\ call.buf[j] = ByteAt(disk, Here + j)
        BY <1>1, <4>1, Zenon DEF ChunkOK
      <4> QED BY <2>1, <2>2, <4>1, <4>2, Zenon
    <3>2. CASE j >= call.solve
      <4>1. j \in call.solve .. call.solve + Count - 1
        BY <1>1, <1>9, <1>12, <3>2
      <4>2. PICK i : i = j - call.solve + call.skip
        BY Zenon
      <4>3. /\ i \in 0 .. ClusterSize - 1 /\ Within(i) /\ call.solve + i - call.skip = j
            /\ Reaches(Here + j) /\ ByteAt(disk', Here + j) = disk'[k][i]
        BY <1>10, <1>12, <4>1, <4>2, Zenon
      <4>4. disk'[k][i] = call.buf[j]
        BY <2>2, <4>3, Zenon
      <4>5. call'.buf[j] = call.buf[j]
        BY <2>1, Zenon
      <4>6. call'.buf[j] = ByteAt(disk', Here + j)
        BY <4>3, <4>4, <4>5, Zenon
      <4> QED BY <4>3, <4>6, Zenon
    <3>3. j < call.solve \/ j >= call.solve
      BY <1>1
    <3> QED BY <3>1, <3>2, <3>3, Zenon
  <2> QED BY <1>0, <1>9, <1>12, <2>1, <2>2, <2>3, MovedInv, Zenon
<1> QED BY <1>5, <1>6, <1>7, <1>8, <1>11, <1>12, Zenon

LEMMA IoInitInv == IoInit => IoInv
<1> SUFFICES ASSUME IoInit PROVE IoInv
  BY Zenon
<1>1. call.pc = "none"
  BY Zenon DEF IoInit, None
<1>2. Closed \in 0 .. Closed
  BY IoNumbers DEF Closed
<1>3. IoTypeOK
  BY <1>1, <1>2, Zenon DEF IoInit, IoTypeOK, Descriptors
<1> QED BY <1>1, <1>3, Zenon DEF IoInv, IoExact, Under

\* A read or a write that returns n has moved exactly the n bytes at the
\* descriptor's offset, and nothing else, for every file size, cluster size,
\* size of the kernel's buffer and chain, through every failure half way.
THEOREM IoCorrect == IoSpec => []IoExact
<1>1. IoInv /\ [IoNext]_ioVars => IoInv'
  <2> SUFFICES ASSUME IoInv, [IoNext]_ioVars PROVE IoInv'
    BY Zenon
  <2>1. CASE UNCHANGED ioVars
    BY <2>1, StutterIoInv, Zenon DEF ioVars
  <2> QED BY <2>1, OpenInv, CloseInv, sys_file_ioInv, BeginChunkInv, do_file_ioInv, ChainTooShortInv, EndChunkInv,
             NextChunkInv, Zenon DEF IoNext
<1>2. IoInv => IoExact
  BY Zenon DEF IoInv
<1> QED BY IoInitInv, <1>1, <1>2, PTL DEF IoSpec

=============================================================================
