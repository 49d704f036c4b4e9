-------------------------------- MODULE Trap --------------------------------
(***************************************************************************)
(* Trap entry, context switch and trap return on the three architectures.  *)
(*                                                                         *)
(* One processor runs the tasks' own code, is taken away from it by a trap *)
(* and comes back, possibly after any number of other tasks.  What the     *)
(* processor does by itself (taking the trap, the return instruction) is   *)
(* external; what the vectors, trap_dispatch, Task::run, switch_to,        *)
(* forkret and trapret do is translated from the source.  A stack address  *)
(* is the stack's task and the words in use below its top; the general     *)
(* registers are one value, which a task changes as it computes.           *)
(***************************************************************************)
EXTENDS Integers, Sequences

CONSTANTS
    Tasks,      \* task slots
    Boot        \* the task that runs first, a kernel thread

ASSUME TrapAssumption == Boot \in Tasks

VARIABLES
    arch,       \* "riscv64", "x86" or "aarch64"
    cpu,        \* the registers, see Init
    pc,         \* where the processor executes
    cause,      \* cause of the trap being handled
    cur,        \* Scheduler::current_
    alive,      \* tasks that exist
    stack,      \* stack[t]: frames on the kernel stack, by words in use
    context,    \* context[t]: Task::context_, with the guard's flag_
    inService,  \* an interrupt is acknowledged and not yet completed
    views       \* history: what a task's code, then its handler, left behind

trapVars == <<arch, cpu, pc, cause, cur, alive, stack, context, inService, views>>

Irqs == {"irq"}
Causes == Irqs \cup {"syscall", "fault", "coded"}

\* sizeof(TrapFrame) in words.
TF_SIZE == [riscv64 |-> 36, x86 |-> 22, aarch64 |-> 38][arch]
KernelAddr(t, used) == <<t, "kernel", used>>
UserAddr(t) == <<t, "user", 0>>
Top(t) == KernelAddr(t, 0)
Below(a, n) == <<a[1], a[2], a[3] + n>>

\* The FP state that is a task's own: x86 alone keeps it for each task.
FreshFp == 0
KeptFp(fp) == IF arch = "x86" THEN fp ELSE FreshFp

\* What the code that is running can see of the processor.
View == [mode |-> cpu.mode, x |-> cpu.x, sp |-> cpu.sp, ie |-> cpu.ie,
         fp |-> KeptFp(cpu.fp)]
-----------------------------------------------------------------------------
(* Creating a task: the frame at the top of its kernel stack. *)

\* A frame: the mode returned to, the interrupt enable after (pie) and, on
\* RISC-V, before the return instruction (ie), the registers and sp.
TrapFrame(mode, x, sp) ==
    [mode |-> mode, pie |-> TRUE, ie |-> FALSE, x |-> x, sp |-> sp, pc |-> "run"]

\* A kernel thread starts in supervisor mode; interrupts come on with the
\* return instruction: SSTATUS_SPIE, FL_IF, an unmasked PSTATE.
arch_setup_kthread_tf(x) == TrapFrame("S", x, <<>>)

arch_setup_user_tf(t, x) == TrapFrame("U", x, UserAddr(t))

\* stack_va is 0 for a kernel thread: its stack starts at the frame itself.
arch_fixup_fork_tf(tf, t) ==
    IF tf.mode = "U" THEN tf
    ELSE [tf EXCEPT !.sp = KernelAddr(t, TF_SIZE)]

\* A kernel thread's eret ignores the frame's sp, which is SP_EL0.
FirstSp(tf, t) ==
    IF tf.mode = "S" /\ arch = "aarch64" THEN Top(t) ELSE tf.sp

copy_thread(t, source) ==
    LET tf == arch_fixup_fork_tf(source, t)
    IN  /\ stack' = [stack EXCEPT ![t] = [a \in {TF_SIZE} |-> tf]]
        /\ context' = [context EXCEPT ![t] =
               [sp |-> KernelAddr(t, TF_SIZE), x |-> "zero", pc |-> "forkret",
                ie |-> FALSE, fp |-> FreshFp]]
        /\ views' = [views EXCEPT ![t] =
               << [mode |-> tf.mode, x |-> tf.x, sp |-> FirstSp(tf, t),
                   ie |-> TRUE, fp |-> FreshFp] >>]

\* A kernel thread, or exec on behalf of one, creates task t.
Fork(t) ==
    /\ pc = "run" /\ cpu.mode = "S"
    /\ t \notin alive
    /\ \/ copy_thread(t, arch_setup_kthread_tf(<<t, 0>>))
       \/ copy_thread(t, arch_setup_user_tf(t, <<t, 0>>))
    /\ alive' = alive \cup {t}
    /\ UNCHANGED <<arch, cpu, pc, cause, cur, inService>>

TrapInit ==
    /\ arch \in {"riscv64", "x86", "aarch64"}
    /\ cpu = [mode |-> "S", ie |-> TRUE, sp |-> KernelAddr(Boot, 8),
              x |-> <<Boot, 0>>, fp |-> FreshFp,
              vec |-> "kernel",        \* stvec
              \* sscratch, TSS.rsp0, or the banked SP that is not in use
              scratch |-> IF arch = "x86" THEN Top(Boot) ELSE <<>>,
              epc |-> "run", pmode |-> "S", pie |-> TRUE,
              pushed |-> <<>>]         \* rsp as the processor pushed it
    /\ pc = "run" /\ cause = "irq" /\ cur = Boot /\ alive = {Boot}
    /\ stack = [t \in Tasks |-> <<>>]
    /\ context = [t \in Tasks |-> <<>>]
    /\ inService = FALSE
    /\ views = [t \in Tasks |->
           IF t = Boot THEN <<View>> ELSE <<>>]
-----------------------------------------------------------------------------
(* The processor. *)

\* A task computes: its registers change.  The FP unit is used by user code
\* on x86, whose kernel is built without it, and by all code on AArch64, where
\* _start turns it on; on RISC-V tasks run with it off.
Compute ==
    /\ pc = "run"
    /\ cpu' = [cpu EXCEPT !.x = <<cur, 1 - cpu.x[2]>>,
                          !.fp = IF arch = "aarch64" \/ (arch = "x86" /\ cpu.mode = "U")
                                 THEN 1 - @ ELSE @]
    /\ views' = [views EXCEPT ![cur] = << [@[1] EXCEPT !.x = cpu'.x,
                                                       !.fp = KeptFp(cpu'.fp)] >>]
    /\ UNCHANGED <<arch, pc, cause, cur, alive, stack, context, inService>>

\* The processor takes a trap.  Interrupts go off: every x86 gate is an
\* interrupt gate (idt::init).  x86 and AArch64 change to the kernel stack
\* when they come from user mode; RISC-V leaves sp alone.
Taken(c) ==
    /\ cause' = c
    /\ pc' = "entry"
    /\ inService' = (inService \/ c \in Irqs)
    /\ cpu' = [cpu EXCEPT
           !.mode = "S", !.ie = FALSE,
           !.epc = pc, !.pmode = cpu.mode, !.pie = cpu.ie,
           !.pushed = IF arch = "x86" THEN cpu.sp ELSE @,
           !.sp = IF cpu.mode = "U" /\ arch # "riscv64" THEN cpu.scratch ELSE @,
           !.scratch = IF cpu.mode = "U" /\ arch = "aarch64" THEN cpu.sp ELSE @]
    /\ views' = [views EXCEPT ![cur] = <<View, View>>]
    /\ UNCHANGED <<arch, cur, alive, stack, context>>

\* An interrupt while they are enabled, wherever the processor is; a system
\* call, a page fault or another exception with an error code in a task's own
\* code.  Handlers run with interrupts off and reach user memory through the
\* page tables, so a handler itself does not trap.
Trap ==
    \E c \in Causes :
        /\ \/ c \in Irqs /\ cpu.ie /\ ~inService
           \/ c \in {"syscall", "coded"} /\ pc = "run" /\ cpu.mode = "U"
           \/ c = "fault" /\ pc = "run"
        /\ Taken(c)
-----------------------------------------------------------------------------
(* Entry: each vector builds the frame below some stack pointer, and leaves *)
(* the processor ready for trap_dispatch.                                   *)

Saved(sp) == [mode |-> cpu.pmode, pie |-> cpu.pie, ie |-> cpu.ie,
              x |-> cpu.x, sp |-> sp, pc |-> cpu.epc]

\* sp is a kernel stack pointer; sscratch only parks it for a moment.
kernel_trap_vec ==
    [base |-> cpu.sp, words |-> TF_SIZE, frame |-> Saved(cpu.sp),
     cpu |-> [cpu EXCEPT !.scratch = <<>>]]

\* sp and sscratch are swapped; from here on traps go to kernel_trap_vec.
user_trap_vec ==
    [base |-> cpu.scratch, words |-> TF_SIZE, frame |-> Saved(cpu.sp),
     cpu |-> [cpu EXCEPT !.scratch = <<>>, !.vec = "kernel"]]

\* The processor pushes ss, rsp, rflags, cs, rip, and for some exceptions an
\* error code; the stub of the vector makes up for the others.
HardwareWords(c) == IF c \in {"coded", "fault"} THEN 6 ELSE 5
StubWords(c) == IF c \in {"coded", "fault"} THEN 1 ELSE 2
_trap_entry ==
    [base |-> cpu.sp, words |-> HardwareWords(cause) + StubWords(cause) + 15,
     frame |-> Saved(cpu.pushed), cpu |-> [cpu EXCEPT !.pushed = <<>>]]

\* The frame goes below SP_EL1; SP_EL0 is saved whatever the mode was.
SAVE_ALL ==
    [base |-> cpu.sp, words |-> TF_SIZE, frame |-> Saved(cpu.scratch),
     cpu |-> cpu]

\* A push overwrites what is deeper in the stack.  The handler is C code,
\* with registers of its own.
Entry ==
    LET e == CASE arch = "riscv64" /\ cpu.vec = "kernel" -> kernel_trap_vec
               [] arch = "riscv64" /\ cpu.vec = "user" -> user_trap_vec
               [] arch = "x86" -> _trap_entry
               [] arch = "aarch64" -> SAVE_ALL
        t    == e.base[1]
        tfAt == e.base[3] + e.words
        live == {a \in DOMAIN stack[t] : a <= e.base[3]}
    IN  /\ pc = "entry"
        /\ stack' = [stack EXCEPT ![t] =
               [a \in live \cup {tfAt} |-> IF a = tfAt THEN e.frame ELSE @[a]]]
        /\ cpu' = [e.cpu EXCEPT !.sp = KernelAddr(t, tfAt), !.x = <<cur, 2>>]
        /\ pc' = "dispatch"
        /\ views' = [views EXCEPT ![cur] =
               [@ EXCEPT ![2] = [View EXCEPT !.sp = cpu'.sp, !.x = cpu'.x]]]
        /\ UNCHANGED <<arch, cause, cur, alive, context, inService>>
-----------------------------------------------------------------------------
(* trap_dispatch and the scheduler. *)

\* The frame trap_dispatch and trapret are given.
Frame == stack[cpu.sp[1]][cpu.sp[3]]

\* The interrupt is completed before the handler returns: inside
\* arch_try_handle_irq (PLIC, GIC), or by arch_post_dispatch (8259).
riscv64_try_handle_irq == inService /\ cause \notin Irqs
aarch64_try_handle_irq == inService /\ cause \notin Irqs
x86_post_dispatch == inService /\ cause \notin Irqs

\* The handler runs to its end.
Handle ==
    /\ pc = "dispatch"
    /\ inService' = CASE arch = "riscv64" -> riscv64_try_handle_irq
                      [] arch = "x86" -> x86_post_dispatch
                      [] arch = "aarch64" -> aarch64_try_handle_irq
    /\ pc' = "resched"
    /\ UNCHANGED <<arch, cpu, cause, cur, alive, stack, context, views>>

\* Where the next trap from user mode finds its stack.
arch_set_kernel_stack(t) == IF arch = "aarch64" THEN cpu.scratch ELSE Top(t)

\* switch_to: the callee-saved registers are traded, on x86 with the FP state.
\* Returning from it, the task leaves the guard it had entered.
riscv64_switch_to(to) == [cpu EXCEPT !.sp = to.sp, !.x = to.x, !.ie = to.ie]
aarch64_switch_to(to) == [cpu EXCEPT !.sp = to.sp, !.x = to.x, !.ie = to.ie]
x86_switch_to(to) ==
    [cpu EXCEPT !.sp = to.sp, !.x = to.x, !.ie = to.ie, !.fp = to.fp]

\* Task::run for next.  forkret goes on with trapret.
SwitchTo(next, resume) ==
    LET to == context[next]
        traded == CASE arch = "riscv64" -> riscv64_switch_to(to)
                    [] arch = "x86" -> x86_switch_to(to)
                    [] arch = "aarch64" -> aarch64_switch_to(to)
    IN  /\ next # cur
        /\ cur' = next
        /\ context' = [context EXCEPT ![cur] =
               [sp |-> cpu.sp, x |-> cpu.x, pc |-> resume, ie |-> cpu.ie,
                fp |-> cpu.fp]]
        /\ cpu' = [traded EXCEPT !.scratch = arch_set_kernel_stack(next)]
        /\ pc' = IF to.pc = "forkret" THEN "trapret" ELSE to.pc

\* need_resched: schedule picks another task before the handler returns.
Resched ==
    /\ pc = "resched"
    /\ \/ pc' = "trapret" /\ UNCHANGED <<cpu, cur, context>>
       \/ \E next \in alive : SwitchTo(next, "trapret")
    /\ UNCHANGED <<arch, cause, alive, stack, inService, views>>

\* A system call sleeps inside its handler.
Block ==
    /\ pc = "dispatch" /\ cause = "syscall"
    /\ \E next \in alive : SwitchTo(next, "resched")
    /\ UNCHANGED <<arch, cause, alive, stack, inService, views>>

\* An unhandled trap of user code ends the task, which never runs again.
Exit ==
    /\ pc = "dispatch" /\ cause \in {"syscall", "fault", "coded"}
    /\ Frame.mode = "U"
    /\ \E next \in alive : SwitchTo(next, "dead")
    /\ alive' = alive \ {cur}
    /\ UNCHANGED <<arch, cause, stack, inService, views>>

\* A kernel thread gives the processor up by itself.
Yield ==
    /\ pc = "run" /\ cpu.mode = "S"
    /\ \E next \in alive : SwitchTo(next, "run")
    /\ UNCHANGED <<arch, cause, alive, stack, inService, views>>
-----------------------------------------------------------------------------
(* trapret: the status registers, then the registers and the return. *)

Status == [cpu EXCEPT !.epc = Frame.pc, !.pmode = Frame.mode, !.pie = Frame.pie]

\* Mutant of riscv64_trapret: sscratch is left at the frame, not above it.
riscv64_trapret_low ==
    [Status EXCEPT !.ie = Frame.ie,
                   !.vec = IF Frame.mode = "U" THEN "user" ELSE "kernel",
                   !.scratch = IF Frame.mode = "U" THEN cpu.sp ELSE <<>>]

\* sepc and sstatus, with SIE as it was saved; stvec and sscratch for the
\* mode that is returned to.
riscv64_trapret ==
    [Status EXCEPT !.ie = Frame.ie,
                   !.vec = IF Frame.mode = "U" THEN "user" ELSE "kernel",
                   !.scratch = IF Frame.mode = "U" THEN Below(cpu.sp, -TF_SIZE)
                               ELSE <<>>]

\* ELR_EL1, SPSR_EL1 and SP_EL0.
aarch64_trapret == [Status EXCEPT !.scratch = Frame.sp]

Trapret ==
    /\ pc = "trapret"
    /\ cpu' = CASE arch = "riscv64" -> riscv64_trapret
                [] arch = "x86" -> Status
                [] arch = "aarch64" -> aarch64_trapret
    /\ pc' = "restore"
    /\ UNCHANGED <<arch, cause, cur, alive, stack, context, inService, views>>

\* sret and iretq: sp comes from the frame.
Returned == [cpu EXCEPT !.mode = cpu.pmode, !.ie = cpu.pie, !.x = Frame.x]
riscv64_sret == [Returned EXCEPT !.sp = Frame.sp]
x86_iretq == [Returned EXCEPT !.sp = Frame.sp]

\* eret: the frame is popped from SP_EL1; user mode goes on with SP_EL0.
aarch64_eret ==
    LET popped == Below(cpu.sp, -TF_SIZE)
    IN  IF cpu.pmode = "U"
        THEN [Returned EXCEPT !.sp = cpu.scratch, !.scratch = popped]
        ELSE [Returned EXCEPT !.sp = popped]

Restore ==
    /\ pc = "restore"
    /\ cpu' = CASE arch = "riscv64" -> riscv64_sret
                [] arch = "x86" -> x86_iretq
                [] arch = "aarch64" -> aarch64_eret
    /\ pc' = cpu.epc
    /\ views' = [views EXCEPT ![cur] = <<@[1]>>]
    /\ stack' = [stack EXCEPT ![cpu.sp[1]] =
           [a \in {b \in DOMAIN @ : b < cpu.sp[3]} |-> @[a]]]
    /\ UNCHANGED <<arch, cause, cur, alive, context, inService>>

TrapNext ==
    \/ \E t \in Tasks : Fork(t)
    \/ Compute \/ Trap \/ Entry \/ Handle \/ Resched \/ Block \/ Exit \/ Yield
    \/ Trapret \/ Restore

TrapSpec == TrapInit /\ [][TrapNext]_trapVars
-----------------------------------------------------------------------------
(* Properties. *)

\* A task never notices that it was interrupted, switched away from or
\* preempted inside a handler: whenever its code runs again, in trap entry,
\* trapret, switch_to and forkret of every architecture, its mode, registers,
\* stack pointer and interrupt state are the ones it left, and on x86 its FP
\* state, which fxsave and fxrstor trade.  On AArch64 neither SAVE_ALL nor
\* switch_to saves the FP registers: they are whoever used them last's.
Resumed ==
    pc \in {"run", "dispatch", "resched"} => View = views[cur][Len(views[cur])]

\* Before user code runs, the next trap has a place to go: stvec is the user
\* vector, and sscratch, TSS.rsp0 or SP_EL1 is the top of that task's own
\* empty kernel stack.
UserTrapReady ==
    cpu.mode = "U" =>
        /\ cpu.scratch = Top(cur)
        /\ arch = "riscv64" => cpu.vec = "user"
        /\ DOMAIN stack[cur] = {}

\* Kernel code runs on the stack of the current task and traps to the
\* kernel vector.
OnOwnStack ==
    cpu.mode = "S" /\ pc # "entry" =>
        /\ cpu.sp[1] = cur /\ cpu.sp[2] = "kernel"
        /\ pc # "restore" => cpu.vec = "kernel"

\* Interrupts are never enabled with one still in service (the controller
\* would hold back the timer for good), nor while a frame is being built or
\* taken apart.
InterruptsSafe ==
    /\ inService => ~cpu.ie
    /\ pc \in {"entry", "trapret", "restore"} => ~cpu.ie

\* What makes a trap invisible to the code it interrupts.
TrapTransparent == Resumed /\ UserTrapReady /\ OnOwnStack /\ InterruptsSafe
=============================================================================
