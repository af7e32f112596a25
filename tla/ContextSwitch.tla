---------------------------- MODULE ContextSwitch ----------------------------
(***************************************************************************)
(* The entries of interrupts/entry.S: the timer interrupt, system calls,   *)
(* the change between a process's two stacks, and scheduler_entry().       *)
(* Everything happens on one processor; with interrupts on, the timer may  *)
(* come between any two steps.                                             *)
(*                                                                         *)
(* cpu holds registers, stacks and the variables of entry.S and of the     *)
(* PCBs; the routines of entry.S are functions from cpu to cpu.  A stack   *)
(* pointer is a stack and a depth, a stack a sequence of frames, a frame   *)
(* what one group of pushes leaves there: registers, flags, and where to   *)
(* go on.  General registers hold <<p, mode, x>>: values of process p in   *)
(* that mode, x having been the argument of its last system call.          *)
(*                                                                         *)
(* pc: "user" and "kernel" code, "sched" in scheduler(), "irq0" and        *)
(* "crit1", "crit2" when scheduler_entry() has returned to the interrupt   *)
(* or to kernel code in one or two critical sections, "ret" at the end of  *)
(* a system call, "iret" before the iret of irq0_entry.                    *)
(***************************************************************************)
EXTENDS Integers, Sequences

CONSTANTS Procs,
          Threads,    \* kernel threads: one stack, nested_count is 1
          Arguments,  \* of system calls
          MaxNested   \* bound on interrupts that meet each other before iret

ASSUME ContextSwitchAssumption ==
  Threads \subseteq Procs /\ MaxNested \in Nat /\ 0 \in Arguments

VARIABLES cpu, pc,
          started,  \* the processes that have been dispatched once
          mine      \* history: what the registers of a process should be

vars == <<cpu, pc, started, mine>>

Stack(p, kind, depth) == [of |-> p, kind |-> kind, depth |-> depth]

\* The mode a process starts in
Mode(p) == IF p \in Threads THEN "kernel" ELSE "user"

Init ==
  \E p \in Procs :
    /\ cpu = [current_running |-> p,
              disable_count |-> 0, interrupts |-> TRUE,
              gen |-> <<p, Mode(p), 0>>, eax |-> <<p, 0>>,
              esp |-> Stack(p, Mode(p), 0),
              stack |-> [q \in Procs |-> [kind \in {"user", "kernel"} |-> <<>>]],
              USER_STACK |-> [q \in Procs |-> Stack(q, "user", 0)],
              KERNEL_STACK |-> [q \in Procs |-> Stack(q, "kernel", 0)],
              nested_count |-> [q \in Procs |-> IF q \in Threads THEN 1 ELSE 0],
              syscall_return_val |-> <<p, 0>>,
              saved_count |-> [q \in Procs |-> 0]]
    /\ pc = Mode(p)
    /\ started = {p}
    /\ mine = [q \in Procs |-> [gen |-> <<q, Mode(q), 0>>, eax |-> <<q, 0>>]]

-----------------------------------------------------------------------------
(* Pushing and popping; a push overwrites whatever lies above the pointer. *)

Frame(c, to) == [gen |-> c.gen, eax |-> c.eax, interrupts |-> c.interrupts, to |-> to]

Push(c, f) ==
  [c EXCEPT !.stack[c.esp.of][c.esp.kind] = Append(SubSeq(@, 1, c.esp.depth), f),
            !.esp.depth = @ + 1]

Top(c) == c.stack[c.esp.of][c.esp.kind][c.esp.depth]

Pop(c) == [c EXCEPT !.esp.depth = @ - 1]

\* SAVE_GEN_REGS and its reverse
RestoreRegs(c) == [Pop(c) EXCEPT !.gen = Top(c).gen, !.eax = Top(c).eax]

\* An interrupt pushes the flags and the place to go on at, and turns interrupts
\* off; iret undoes it.
Interrupted(c, to) == [Push(c, Frame(c, to)) EXCEPT !.interrupts = FALSE]

Iret(c) == [Pop(c) EXCEPT !.interrupts = Top(c).interrupts]

-----------------------------------------------------------------------------
enter_critical(c) == [c EXCEPT !.interrupts = FALSE, !.disable_count = @ + 1]

\* Mutant: interrupts come back on when an inner section ends.
leave_criticalAlways(c) ==
  [c EXCEPT !.disable_count = @ - 1, !.interrupts = TRUE]

leave_critical(c) ==
  [c EXCEPT !.disable_count = @ - 1,
            !.interrupts = IF c.disable_count = 1 THEN TRUE ELSE @]

\* Leaves interrupts to iret.
leave_critical_delayed(c) == [c EXCEPT !.disable_count = @ - 1]

switch_to_kernel_stack(c) ==
  LET p == c.current_running
  IN  IF c.nested_count[p] # 0 THEN c
      ELSE [c EXCEPT !.USER_STACK[p] = c.esp, !.esp = c.KERNEL_STACK[p]]

\* Mutant: the kernel stack is left without saving its pointer.
switch_to_user_stackUnsaved(c) ==
  LET p == c.current_running
  IN  IF c.nested_count[p] # 0 THEN c ELSE [c EXCEPT !.esp = c.USER_STACK[p]]

switch_to_user_stack(c) ==
  LET p == c.current_running
  IN  IF c.nested_count[p] # 0 THEN c
      ELSE [c EXCEPT !.KERNEL_STACK[p] = c.esp, !.esp = c.USER_STACK[p]]

\* scheduler_entry() up to the call of scheduler(); it will return to `to'.
scheduler_entry(c, to) ==
  LET s == Push(c, Frame(c, to))
  IN  [s EXCEPT !.KERNEL_STACK[s.current_running] = s.esp]

\* scheduler() and dispatch() of the preemptive kernel: disable_count goes with
\* the process, and the stack is the one of process q.
Dispatched(c, q) ==
  LET saved == [c.saved_count EXCEPT ![c.current_running] = c.disable_count]
  IN  [c EXCEPT !.saved_count = saved, !.disable_count = saved[q],
                !.current_running = q, !.esp = c.KERNEL_STACK[q]]

-----------------------------------------------------------------------------
\* irq0_entry, up to scheduler()
Irq0 ==
  /\ cpu.interrupts
  /\ cpu.esp.depth < MaxNested
  /\ cpu' = scheduler_entry(switch_to_kernel_stack(enter_critical(Interrupted(cpu, pc))),
                            "irq0")
  /\ pc' = "sched"
  /\ UNCHANGED <<started, mine>>

\* irq0_entry after scheduler(): leave_critical() turns interrupts on just
\* before iret.
Irq0Returns ==
  /\ pc = "irq0"
  /\ cpu' = leave_critical(switch_to_user_stack(cpu))
  /\ pc' = "iret"
  /\ UNCHANGED <<started, mine>>

Irq0Iret ==
  /\ pc = "iret"
  /\ cpu' = Iret(cpu)
  /\ pc' = Top(cpu).to
  /\ UNCHANGED <<started, mine>>

\* scheduler() picks a process that has run before: scheduler_entry() goes on
\* in it and restores flags and registers.
Resume(q) ==
  LET c == Dispatched(cpu, q) IN
  /\ pc = "sched" /\ q \in started
  /\ cpu' = [RestoreRegs(c) EXCEPT !.interrupts = Top(c).interrupts]
  /\ pc' = Top(c).to
  /\ UNCHANGED <<started, mine>>

\* It picks a new one, which starts on its user or, a thread, kernel stack.
Start(q) ==
  /\ pc = "sched" /\ q \notin started
  /\ cpu' = [Dispatched(cpu, q) EXCEPT
               !.esp = Stack(q, Mode(q), 0), !.interrupts = TRUE,
               !.gen = mine[q].gen, !.eax = mine[q].eax]
  /\ pc' = Mode(q)
  /\ started' = started \cup {q}
  /\ UNCHANGED mine

-----------------------------------------------------------------------------
\* Kernel code gives up the processor in d critical sections (d is 1 in the
\* functions of thread.c and 2 where getchar() calls them).
GiveUp(d) ==
  /\ pc = "kernel"
  /\ cpu' = IF d = 1 THEN scheduler_entry(enter_critical(cpu), "crit1")
            ELSE scheduler_entry(enter_critical(enter_critical(cpu)), "crit2")
  /\ pc' = "sched"
  /\ UNCHANGED <<started, mine>>

\* It goes on and leaves the sections, one after the other.
GoOn ==
  /\ pc \in {"crit1", "crit2"}
  /\ cpu' = leave_critical(cpu)
  /\ pc' = IF pc = "crit1" THEN "kernel" ELSE "crit1"
  /\ UNCHANGED <<started, mine>>

\* syscall_entry with argument x; system_call_helper() counts the nesting and
\* leaves the critical section.
Syscall(x) ==
  LET p == cpu.current_running
      user == [cpu EXCEPT !.gen = <<p, "user", x>>]
      entered == switch_to_kernel_stack(enter_critical(Interrupted(user, "user")))
      helper == [Push(entered, Frame(entered, "ret"))
                 EXCEPT !.nested_count[p] = @ + 1, !.gen = <<p, "kernel", x>>]
  IN
  /\ pc = "user"
  /\ cpu' = leave_critical(helper)
  /\ pc' = "kernel"
  /\ mine' = [mine EXCEPT ![p].gen = <<p, "user", x>>]
  /\ UNCHANGED started

\* system_call_helper() is back in the critical section and returns a value, which
\* is kept in syscall_return_val while the registers are restored.
SyscallReturns ==
  LET p == cpu.current_running
      done == [enter_critical(cpu) EXCEPT !.nested_count[p] = @ - 1,
                                          !.syscall_return_val = <<p, cpu.gen[3]>>]
  IN
  /\ pc = "kernel" /\ p \notin Threads
  /\ cpu' = RestoreRegs(done)
  /\ pc' = "ret"
  /\ mine' = [mine EXCEPT ![p].eax = <<p, mine[p].gen[3]>>]
  /\ UNCHANGED started

\* The rest of syscall_entry.  leave_critical_delayed() raises exception 1 when
\* it is not in the outermost critical section.
SyscallIret ==
  LET c == leave_critical_delayed(switch_to_user_stack(
             [cpu EXCEPT !.eax = cpu.syscall_return_val]))
  IN
  /\ pc = "ret"
  /\ cpu' = IF c.disable_count = 0 THEN Iret(c) ELSE c
  /\ pc' = IF c.disable_count = 0 THEN Top(c).to ELSE "exception_1"
  /\ UNCHANGED <<started, mine>>

-----------------------------------------------------------------------------
Next ==
  \/ Irq0 \/ Irq0Returns \/ Irq0Iret
  \/ \E q \in Procs : Resume(q) \/ Start(q)
  \/ \E d \in {1, 2} : GiveUp(d)
  \/ GoOn
  \/ \E x \in Arguments : Syscall(x)
  \/ SyscallReturns \/ SyscallIret

Spec == Init /\ [][Next]_vars

-----------------------------------------------------------------------------
\* However system calls, timer interrupts and switches are nested, a process
\* goes on as it was interrupted: with its own registers, the result of its own
\* system call in %eax (the global syscall_return_val and the scratch variables
\* are shared by all), on its own stack, with nothing left over on either.
OwnContext ==
  LET p == cpu.current_running
      x == mine[p].gen[3]
  IN
  /\ pc = "user" =>
       /\ cpu.gen = mine[p].gen /\ cpu.eax = mine[p].eax
       /\ cpu.esp = Stack(p, "user", 0)
       /\ cpu.KERNEL_STACK[p] = Stack(p, "kernel", 0) /\ cpu.nested_count[p] = 0
  /\ pc = "kernel" =>
       /\ cpu.gen = <<p, "kernel", x>>
       /\ cpu.esp = Stack(p, "kernel", IF p \in Threads THEN 0 ELSE 1)

\* Interrupts are on whenever a process runs its own code or kernel code outside
\* critical sections, off in scheduler(), and every critical section that has
\* been entered is left: leave_critical_delayed() never stops the computer.
InterruptsBalanced ==
  /\ pc # "exception_1"
  /\ pc \in {"user", "kernel", "iret"} => cpu.interrupts /\ cpu.disable_count = 0
  /\ pc \in {"sched", "irq0", "ret", "crit1", "crit2"} =>
       ~cpu.interrupts /\ cpu.disable_count > 0
=============================================================================
