------------------------- MODULE ContextSwitchProofs -------------------------
(***************************************************************************)
(* A process goes on as it was interrupted, for any processes, any         *)
(* arguments of system calls and any nesting of interrupts.  The invariant *)
(* says what lies on the two stacks of a process at each place where it    *)
(* can be, whether it is running or has given up the processor.            *)
(***************************************************************************)
EXTENDS ContextSwitch, SequenceTheorems, TLAPS

Kinds == {"user", "kernel"}

Labels == {"user", "kernel", "irq0", "crit1", "crit2", "ret", "iret"}

Pointers == [of : Procs, kind : Kinds, depth : Nat]

Gens == Procs \X Kinds \X Arguments

Values == Procs \X Arguments

FrameSet == [gen : Gens, eax : Values, interrupts : BOOLEAN, to : Labels]

CPU ==
  [current_running : Procs, disable_count : Nat, interrupts : BOOLEAN,
   gen : Gens, eax : Values, esp : Pointers,
   stack : [Procs -> [Kinds -> Seq(FrameSet)]],
   USER_STACK : [Procs -> Pointers], KERNEL_STACK : [Procs -> Pointers],
   nested_count : [Procs -> Nat],
   syscall_return_val : Values,
   saved_count : [Procs -> Nat]]

Histories == [Procs -> [gen : Gens, eax : Values]]

\* The critical sections that are open at l
Sections(l) == IF l \in {"user", "kernel", "iret"} THEN 0
               ELSE IF l = "crit2" THEN 2 ELSE 1

\* The depth of the kernel stack in kernel code: a system call has left a frame.
Base(q) == IF q \in Threads THEN 0 ELSE 1

\* The frames lo..hi of stack s are those of an interrupt in code l and of
\* interrupts that came just before an iret.
Interrupts(s, lo, hi, l) ==
  /\ lo <= hi /\ hi <= Len(s)
  /\ \A i \in lo..hi : s[i].interrupts /\ s[i].to = IF i = lo THEN l ELSE "iret"

(* In what follows c is the processor, h the history, and l, e, g, x where    *)
(* process q is, its stack pointer, its registers and its %eax.               *)

\* q is in the kernel: a program has its return to user code on its stacks.
InKernel(c, h, q) ==
  /\ c.nested_count[q] = 1
  /\ q \notin Threads =>
       /\ c.USER_STACK[q] = Stack(q, "user", 1)
       /\ Interrupts(c.stack[q]["user"], 1, 1, "user")
       /\ Len(c.stack[q]["kernel"]) >= 1
       /\ c.stack[q]["kernel"][1].gen = h[q].gen

KernelContext(c, h, q, l, e, g) ==
  /\ InKernel(c, h, q)
  /\ g = <<q, "kernel", h[q].gen[3]>>
  /\ e = Stack(q, "kernel", e.depth) /\ e.depth \in Nat
  /\ \/ l \in {"kernel", "crit1", "crit2"} /\ e.depth = Base(q)
     \/ /\ l \in {"iret", "irq0"}
        /\ Interrupts(c.stack[q]["kernel"], Base(q) + 1, e.depth, "kernel")

UserContext(c, h, q, l, e, g, x) ==
  /\ q \notin Threads
  /\ c.nested_count[q] = 0
  /\ g = h[q].gen
  /\ l # "ret" => x = h[q].eax
  /\ l \in {"user", "iret"} =>
       /\ e = Stack(q, "user", e.depth) /\ e.depth \in Nat
       /\ c.KERNEL_STACK[q] = Stack(q, "kernel", 0)
       /\ l = "user" => e.depth = 0
       /\ l = "iret" => Interrupts(c.stack[q]["user"], 1, e.depth, "user")
  /\ l \in {"irq0", "ret"} =>
       /\ e = Stack(q, "kernel", 0)
       /\ c.USER_STACK[q] = Stack(q, "user", c.USER_STACK[q].depth)
       /\ Interrupts(c.stack[q]["user"], 1, c.USER_STACK[q].depth, "user")
       /\ l = "ret" => c.USER_STACK[q].depth = 1

Context(c, h, q, l, e, g, x) ==
  \/ l \in {"user", "iret", "irq0", "ret"} /\ UserContext(c, h, q, l, e, g, x)
  \/ KernelContext(c, h, q, l, e, g)

\* q has called scheduler_entry(), with n critical sections open.
Suspended(c, h, q, n) ==
  \E d \in Nat :
    LET f == c.stack[q]["kernel"][d + 1]
    IN  /\ c.KERNEL_STACK[q] = Stack(q, "kernel", d + 1)
        /\ d + 1 <= Len(c.stack[q]["kernel"])
        /\ f.to \in {"irq0", "crit1", "crit2"} /\ ~f.interrupts
        /\ n = Sections(f.to)
        /\ Context(c, h, q, f.to, Stack(q, "kernel", d), f.gen, f.eax)

\* q has not run yet.
Fresh(c, q) ==
  /\ c.KERNEL_STACK[q] = Stack(q, "kernel", 0)
  /\ c.nested_count[q] = IF q \in Threads THEN 1 ELSE 0
  /\ c.saved_count[q] = 0

Active(c, h, l) ==
  /\ Context(c, h, c.current_running, l, c.esp, c.gen, c.eax)
  /\ c.disable_count = Sections(l)
  /\ (c.interrupts <=> Sections(l) = 0)
  /\ l = "ret" => c.syscall_return_val = h[c.current_running].eax

Switching(c, h) ==
  ~c.interrupts /\ Suspended(c, h, c.current_running, c.disable_count)

TypeInv ==
  /\ cpu \in CPU /\ mine \in Histories /\ pc \in Labels \cup {"sched"}
  /\ started \subseteq Procs /\ cpu.current_running \in started
  /\ \A q \in Procs : mine[q].gen = <<q, Mode(q), mine[q].gen[3]>>

RunningInv == IF pc = "sched" THEN Switching(cpu, mine) ELSE Active(cpu, mine, pc)

OthersInv ==
  /\ \A q \in started \ {cpu.current_running} : Suspended(cpu, mine, q, cpu.saved_count[q])
  /\ \A q \in Procs \ started : Fresh(cpu, q)

IInv == TypeInv /\ RunningInv /\ OthersInv

-----------------------------------------------------------------------------
\* What is equal in two processors whose stacks and stack pointers may differ
SameRest(c, d) ==
  /\ c.current_running = d.current_running
  /\ c.USER_STACK = d.USER_STACK /\ c.KERNEL_STACK = d.KERNEL_STACK
  /\ c.nested_count = d.nested_count /\ c.saved_count = d.saved_count
  /\ c.syscall_return_val = d.syscall_return_val

\* A push puts a frame on the stack in use and leaves what is below it.
LEMMA PushFields ==
  ASSUME NEW c \in CPU, NEW f \in FrameSet,
         c.esp.depth <= Len(c.stack[c.esp.of][c.esp.kind])
  PROVE  LET r == Push(c, f)
             o == c.esp.of
             k == c.esp.kind
             n == c.esp.depth
         IN  /\ r \in CPU
             /\ r.esp = Stack(o, k, n + 1)
             /\ \A q \in Procs : q # o => r.stack[q] = c.stack[q]
             /\ \A j \in Kinds : j # k => r.stack[o][j] = c.stack[o][j]
             /\ Len(r.stack[o][k]) = n + 1 /\ r.stack[o][k][n + 1] = f
             /\ \A i \in 1..n : r.stack[o][k][i] = c.stack[o][k][i]
             /\ SameRest(r, c) /\ r.disable_count = c.disable_count
             /\ r.interrupts = c.interrupts /\ r.gen = c.gen /\ r.eax = c.eax
  <1> DEFINE r == Push(c, f)
             o == c.esp.of
             k == c.esp.kind
             n == c.esp.depth
  <1>a. /\ o \in Procs /\ k \in Kinds /\ n \in Nat /\ n <= Len(c.stack[o][k])
        /\ c.esp.of = o /\ c.esp.kind = k /\ c.esp.depth = n
    BY DEF CPU, Pointers
  <1>b. c.esp = Stack(o, k, n)
    BY DEF CPU, Pointers, Stack
  <1>c. r = Push(c, f)
    OBVIOUS
  <1> HIDE DEF r, o, k, n
  <1> DEFINE old == c.stack[o][k]
             new == Append(SubSeq(old, 1, n), f)
  <1>1. old \in Seq(FrameSet) /\ n <= Len(old)
    BY <1>a DEF CPU
  <1>2. /\ new \in Seq(FrameSet) /\ Len(new) = n + 1 /\ new[n + 1] = f
        /\ \A i \in 1..n : new[i] = old[i]
    BY <1>a, <1>1
  <1>3. r = [c EXCEPT !.stack = [c.stack EXCEPT ![o] = [c.stack[o] EXCEPT ![k] = new]],
                      !.esp = [c.esp EXCEPT !.depth = n + 1]]
    BY <1>a, <1>c DEF Push
  <1> HIDE DEF new
  <1>4. [c.esp EXCEPT !.depth = n + 1] = Stack(o, k, n + 1)
    BY <1>b DEF Stack
  <1>5. Stack(o, k, n + 1) \in Pointers
    BY <1>a DEF Stack, Pointers
  <1>6. /\ r.stack = [c.stack EXCEPT ![o] = [c.stack[o] EXCEPT ![k] = new]]
        /\ r.esp = Stack(o, k, n + 1)
        /\ SameRest(r, c) /\ r.disable_count = c.disable_count
        /\ r.interrupts = c.interrupts /\ r.gen = c.gen /\ r.eax = c.eax
    BY <1>3, <1>4 DEF CPU, SameRest
  <1>7. r.stack \in [Procs -> [Kinds -> Seq(FrameSet)]]
    BY <1>2, <1>6, <1>a DEF CPU
  <1>8. r \in CPU
    BY <1>3, <1>4, <1>5, <1>6, <1>7 DEF CPU
  <1>9. /\ r.stack[o][k] = new
        /\ \A q \in Procs : q # o => r.stack[q] = c.stack[q]
        /\ \A j \in Kinds : j # k => r.stack[o][j] = c.stack[o][j]
    BY <1>a, <1>6 DEF CPU
  <1>10. QED
    BY <1>2, <1>6, <1>8, <1>9 DEF r, o, k, n

\* A pop only moves the stack pointer.
LEMMA PopFields ==
  ASSUME NEW c \in CPU, c.esp.depth >= 1
  PROVE  /\ Pop(c) \in CPU
         /\ Pop(c).esp = Stack(c.esp.of, c.esp.kind, c.esp.depth - 1)
         /\ Pop(c).stack = c.stack
         /\ SameRest(Pop(c), c) /\ Pop(c).disable_count = c.disable_count
         /\ Pop(c).interrupts = c.interrupts /\ Pop(c).gen = c.gen /\ Pop(c).eax = c.eax
  <1> DEFINE e == Stack(c.esp.of, c.esp.kind, c.esp.depth - 1)
  <1>1. c.esp \in Pointers
    BY DEF CPU
  <1>2. [c.esp EXCEPT !.depth = c.esp.depth - 1] = e
    BY <1>1 DEF Stack, Pointers
  <1>3. e \in Pointers
    BY <1>1 DEF Stack, Pointers
  <1>4. Pop(c) = [c EXCEPT !.esp = e]
    BY <1>2 DEF Pop
  <1> HIDE DEF e
  <1>5. /\ Pop(c) \in CPU /\ Pop(c).esp = e /\ Pop(c).stack = c.stack
        /\ SameRest(Pop(c), c) /\ Pop(c).disable_count = c.disable_count
        /\ Pop(c).interrupts = c.interrupts /\ Pop(c).gen = c.gen /\ Pop(c).eax = c.eax
    BY <1>3, <1>4 DEF CPU, SameRest
  <1>6. QED
    BY <1>5 DEF e

\* Two processors agree on process q.
SameSlice(c, d, q) ==
  /\ c.stack[q] = d.stack[q]
  /\ c.USER_STACK[q] = d.USER_STACK[q] /\ c.KERNEL_STACK[q] = d.KERNEL_STACK[q]
  /\ c.nested_count[q] = d.nested_count[q]

\* What a process finds when it goes on depends on its own stacks, on what the PCB
\* has of it, and on nothing else.
LEMMA ContextIsOwn ==
  ASSUME NEW c, NEW d, NEW h, NEW k, NEW q, SameSlice(d, c, q), k[q] = h[q]
  PROVE  /\ \A l, e, g, x : Context(c, h, q, l, e, g, x) => Context(d, k, q, l, e, g, x)
         /\ \A n : Suspended(c, h, q, n) => Suspended(d, k, q, n)
  <1>1. \A l, e, g, x : Context(c, h, q, l, e, g, x) => Context(d, k, q, l, e, g, x)
    BY DEF SameSlice, Context, UserContext, KernelContext, InKernel
  <1>2. QED
    BY <1>1 DEF Suspended, SameSlice

\* As long as the processor stays with its process, the others are not affected.
LEMMA OthersKept ==
  ASSUME IInv, started' = started, cpu'.current_running = cpu.current_running,
         cpu'.saved_count = cpu.saved_count,
         \A q \in Procs \ {cpu.current_running} :
           SameSlice(cpu', cpu, q) /\ mine'[q] = mine[q]
  PROVE  OthersInv'
  <1>1. started \subseteq Procs /\ cpu.current_running \in started
    BY DEF IInv, TypeInv
  <1>2. ASSUME NEW q \in started \ {cpu.current_running}
        PROVE  Suspended(cpu', mine', q, cpu'.saved_count[q])
    BY <1>1, <1>2, ContextIsOwn DEF IInv, OthersInv
  <1>3. ASSUME NEW q \in Procs \ started PROVE Fresh(cpu', q)
    BY <1>1, <1>3 DEF IInv, OthersInv, Fresh, SameSlice
  <1>4. QED
    BY <1>2, <1>3 DEF OthersInv

\* Frames are made from what the processor holds.
LEMMA FrameType ==
  ASSUME NEW c \in CPU, NEW l \in Labels
  PROVE  /\ Frame(c, l) \in FrameSet
         /\ Frame(c, l).gen = c.gen /\ Frame(c, l).eax = c.eax
         /\ Frame(c, l).interrupts = c.interrupts /\ Frame(c, l).to = l
  BY DEF CPU, FrameSet, Frame

\* Frames are looked for only where they are.
LEMMA InterruptsKept ==
  ASSUME NEW s, NEW r, NEW lo \in Nat \ {0}, NEW hi \in Nat, NEW l,
         Interrupts(s, lo, hi, l), hi <= Len(r), \A i \in 1..hi : r[i] = s[i]
  PROVE  Interrupts(r, lo, hi, l)
  BY DEF Interrupts

\* scheduler_entry() leaves all that the process needs on its kernel stack.
LEMMA EntrySuspends ==
  ASSUME NEW c \in CPU, NEW h, NEW l \in {"irq0", "crit1", "crit2"},
         c.esp = Stack(c.current_running, "kernel", c.esp.depth),
         c.esp.depth <= Len(c.stack[c.current_running]["kernel"]),
         ~c.interrupts, c.disable_count = Sections(l),
         Context(c, h, c.current_running, l, c.esp, c.gen, c.eax)
  PROVE  /\ scheduler_entry(c, l) \in CPU /\ Switching(scheduler_entry(c, l), h)
         /\ scheduler_entry(c, l).current_running = c.current_running
         /\ scheduler_entry(c, l).saved_count = c.saved_count
         /\ \A u \in Procs \ {c.current_running} : SameSlice(scheduler_entry(c, l), c, u)
  <1> DEFINE q == c.current_running
             n == c.esp.depth
             r == scheduler_entry(c, l)
  <1>0. /\ q \in Procs /\ n \in Nat /\ q = c.current_running /\ n = c.esp.depth
        /\ c.esp = Stack(q, "kernel", n) /\ n <= Len(c.stack[q]["kernel"])
        /\ Context(c, h, q, l, c.esp, c.gen, c.eax) /\ r = scheduler_entry(c, l)
    BY DEF CPU, Pointers
  <1>a. q \in Procs /\ n \in Nat
    BY <1>0
  <1> HIDE DEF q, n, r
  <1> DEFINE f == Frame(c, l)
             s == Push(c, f)
  <1>1. /\ f \in FrameSet /\ f.gen = c.gen /\ f.eax = c.eax
        /\ f.interrupts = c.interrupts /\ f.to = l
    BY FrameType DEF Labels
  <1>2. r = [s EXCEPT !.KERNEL_STACK[s.current_running] = s.esp]
    BY <1>0 DEF scheduler_entry
  <1> HIDE DEF f
  <1>3. /\ s \in CPU /\ s.esp = Stack(q, "kernel", n + 1)
        /\ \A u \in Procs : u # q => s.stack[u] = c.stack[u]
        /\ \A j \in Kinds : j # "kernel" => s.stack[q][j] = c.stack[q][j]
        /\ Len(s.stack[q]["kernel"]) = n + 1 /\ s.stack[q]["kernel"][n + 1] = f
        /\ \A i \in 1..n : s.stack[q]["kernel"][i] = c.stack[q]["kernel"][i]
        /\ SameRest(s, c) /\ s.disable_count = c.disable_count
        /\ s.interrupts = c.interrupts /\ s.gen = c.gen /\ s.eax = c.eax
    <2>1. "kernel" \in Kinds
      BY DEF Kinds
    <2>2. c.esp.of = q /\ c.esp.kind = "kernel" /\ c.esp.depth = n
      BY <1>0 DEF Stack
    <2>3. c.esp.depth <= Len(c.stack[c.esp.of][c.esp.kind])
      BY <1>0, <2>2
    <2>4. /\ s \in CPU /\ s.esp = Stack(c.esp.of, c.esp.kind, c.esp.depth + 1)
          /\ \A u \in Procs : u # c.esp.of => s.stack[u] = c.stack[u]
          /\ \A j \in Kinds : j # c.esp.kind => s.stack[c.esp.of][j] = c.stack[c.esp.of][j]
          /\ Len(s.stack[c.esp.of][c.esp.kind]) = c.esp.depth + 1
          /\ s.stack[c.esp.of][c.esp.kind][c.esp.depth + 1] = f
          /\ \A i \in 1..c.esp.depth :
               s.stack[c.esp.of][c.esp.kind][i] = c.stack[c.esp.of][c.esp.kind][i]
          /\ SameRest(s, c) /\ s.disable_count = c.disable_count
          /\ s.interrupts = c.interrupts /\ s.gen = c.gen /\ s.eax = c.eax
      BY <1>1, <2>3, PushFields
    <2> HIDE DEF s
    <2>5. QED
      BY <2>1, <2>2, <2>4
  <1> HIDE DEF s
  <1>4. s.current_running = q
    BY <1>0, <1>3 DEF SameRest
  <1>5. /\ r \in CPU /\ r.stack = s.stack /\ r.esp = s.esp
        /\ r.KERNEL_STACK[q] = s.esp
        /\ \A u \in Procs : u # q => r.KERNEL_STACK[u] = c.KERNEL_STACK[u]
        /\ r.USER_STACK = c.USER_STACK /\ r.nested_count = c.nested_count
        /\ r.current_running = q /\ r.saved_count = c.saved_count
        /\ r.disable_count = c.disable_count /\ r.interrupts = c.interrupts
    <2> DEFINE ks == [s.KERNEL_STACK EXCEPT ![q] = s.esp]
    <2>1. s.esp \in Pointers /\ s.KERNEL_STACK \in [Procs -> Pointers]
      BY <1>3 DEF CPU
    <2>2. ks \in [Procs -> Pointers] /\ ks[q] = s.esp
          /\ \A u \in Procs : u # q => ks[u] = s.KERNEL_STACK[u]
      BY <1>a, <2>1
    <2>3. r = [s EXCEPT !.KERNEL_STACK = ks]
      BY <1>2, <1>4
    <2> HIDE DEF ks
    <2>4. /\ r \in CPU /\ r.KERNEL_STACK = ks /\ r.stack = s.stack /\ r.esp = s.esp
          /\ r.USER_STACK = s.USER_STACK /\ r.nested_count = s.nested_count
          /\ r.current_running = s.current_running /\ r.saved_count = s.saved_count
          /\ r.disable_count = s.disable_count /\ r.interrupts = s.interrupts
      BY <1>3, <2>2, <2>3 DEF CPU
    <2>5. QED
      BY <1>0, <1>3, <2>2, <2>4 DEF SameRest
  <1>6. \A u \in Procs \ {q} : SameSlice(r, c, u)
    BY <1>3, <1>5 DEF SameSlice
  <1>7. /\ r.stack[q]["user"] = c.stack[q]["user"]
        /\ Len(r.stack[q]["kernel"]) = n + 1 /\ r.stack[q]["kernel"][n + 1] = f
        /\ \A i \in 1..n : r.stack[q]["kernel"][i] = c.stack[q]["kernel"][i]
        /\ r.USER_STACK[q] = c.USER_STACK[q] /\ r.nested_count[q] = c.nested_count[q]
    BY <1>0, <1>3, <1>5 DEF Kinds
  <1>8. Context(r, h, q, l, c.esp, c.gen, c.eax)
    <2>1. CASE l = "irq0" /\ UserContext(c, h, q, l, c.esp, c.gen, c.eax)
      BY <1>0, <1>7, <2>1 DEF Context, UserContext
    <2>2. CASE KernelContext(c, h, q, l, c.esp, c.gen)
      <3>1. c.esp.depth = n
        BY <1>0
      <3>2. q \notin Threads => n >= 1
        <4>1. n = Base(q) \/ Base(q) + 1 <= n
          BY <2>2, <3>1 DEF KernelContext, Interrupts
        <4>2. QED
          BY <1>a, <4>1 DEF Base
      <3>3. InKernel(r, h, q)
        <4>1. q \notin Threads => 1 \in 1..n /\ n + 1 >= 1
          BY <1>0, <3>2
        <4>2. QED
          BY <1>0, <1>7, <2>2, <4>1 DEF KernelContext, InKernel
      <3>4. Interrupts(c.stack[q]["kernel"], Base(q) + 1, n, "kernel")
              => Interrupts(r.stack[q]["kernel"], Base(q) + 1, n, "kernel")
        <4> DEFINE K == c.stack[q]["kernel"]
                   R == r.stack[q]["kernel"]
                   b == Base(q) + 1
        <4>1. b \in Nat \ {0}
          BY DEF Base
        <4>2. n <= Len(R) /\ \A i \in 1..n : R[i] = K[i]
          BY <1>a, <1>7
        <4> HIDE DEF K, R, b
        <4>3. Interrupts(K, b, n, "kernel") => Interrupts(R, b, n, "kernel")
          BY <1>0, <4>1, <4>2, InterruptsKept
        <4>4. QED
          BY <4>3 DEF K, R, b
      <3>5. QED
        BY <1>0, <2>2, <3>1, <3>3, <3>4 DEF Context, KernelContext
    <2>3. QED
      BY <1>0, <2>1, <2>2 DEF Context
  <1>9. Switching(r, h)
    <2>1. r.KERNEL_STACK[q] = Stack(q, "kernel", n + 1)
      BY <1>3, <1>5
    <2>2. n + 1 <= Len(r.stack[q]["kernel"])
      BY <1>a, <1>7
    <2>3. Suspended(r, h, q, c.disable_count)
      BY <1>0, <1>1, <1>7, <1>8, <2>1, <2>2, Zenon DEF Suspended
    <2>4. QED
      BY <1>5, <2>3 DEF Switching
  <1>10. QED
    BY <1>0, <1>5, <1>6, <1>9

-----------------------------------------------------------------------------
\* A step of the running process, after which it is in order, keeps the invariant.
LEMMA OwnStep ==
  ASSUME IInv, NEW p \in Procs, p = cpu.current_running,
         started' = started, mine' \in Histories,
         mine'[p].gen = <<p, Mode(p), mine'[p].gen[3]>>,
         cpu' \in CPU, pc' \in Labels \cup {"sched"},
         cpu'.current_running = p, cpu'.saved_count = cpu.saved_count,
         \A q \in Procs \ {p} : SameSlice(cpu', cpu, q) /\ mine'[q] = mine[q],
         RunningInv'
  PROVE  IInv'
  <1>1. TypeInv'
    BY DEF IInv, TypeInv
  <1>2. OthersInv'
    BY OthersKept
  <1>3. QED
    BY <1>1, <1>2 DEF IInv

\* Entering and leaving critical sections changes the counter and the interrupt
\* flag.
LEMMA CriticalFields ==
  ASSUME NEW c \in CPU
  PROVE  /\ \A r : r = enter_critical(c) =>
              /\ r \in CPU /\ r.disable_count = c.disable_count + 1 /\ ~r.interrupts
              /\ r.stack = c.stack /\ r.esp = c.esp /\ r.gen = c.gen /\ r.eax = c.eax
              /\ SameRest(r, c)
         /\ \A r : r = leave_critical(c) /\ c.disable_count >= 1 =>
              /\ r \in CPU /\ r.disable_count = c.disable_count - 1
              /\ (r.interrupts <=> c.disable_count = 1 \/ c.interrupts)
              /\ r.stack = c.stack /\ r.esp = c.esp /\ r.gen = c.gen /\ r.eax = c.eax
              /\ SameRest(r, c)
  <1>1. ASSUME NEW r, r = enter_critical(c)
        PROVE  /\ r \in CPU /\ r.disable_count = c.disable_count + 1 /\ ~r.interrupts
               /\ r.stack = c.stack /\ r.esp = c.esp /\ r.gen = c.gen /\ r.eax = c.eax
               /\ SameRest(r, c)
    <2>1. c.disable_count \in Nat /\ c.disable_count + 1 \in Nat
      BY DEF CPU
    <2>2. r = [c EXCEPT !.interrupts = FALSE, !.disable_count = c.disable_count + 1]
      BY <1>1 DEF enter_critical
    <2>3. QED
      BY <2>1, <2>2 DEF CPU, SameRest
  <1>2. ASSUME NEW r, r = leave_critical(c), c.disable_count >= 1
        PROVE  /\ r \in CPU /\ r.disable_count = c.disable_count - 1
               /\ (r.interrupts <=> c.disable_count = 1 \/ c.interrupts)
               /\ r.stack = c.stack /\ r.esp = c.esp /\ r.gen = c.gen /\ r.eax = c.eax
               /\ SameRest(r, c)
    <2>1. c.disable_count \in Nat /\ c.disable_count - 1 \in Nat /\ c.interrupts \in BOOLEAN
      BY <1>2 DEF CPU
    <2>2. CASE c.disable_count = 1
      <3>1. r = [c EXCEPT !.disable_count = c.disable_count - 1, !.interrupts = TRUE]
        BY <1>2, <2>2 DEF leave_critical
      <3>2. QED
        BY <2>1, <2>2, <3>1 DEF CPU, SameRest
    <2>3. CASE c.disable_count # 1
      <3>1. r = [c EXCEPT !.disable_count = c.disable_count - 1, !.interrupts = c.interrupts]
        BY <1>2, <2>3 DEF leave_critical
      <3>2. QED
        BY <2>1, <2>3, <3>1 DEF CPU, SameRest
    <2>4. QED
      BY <2>2, <2>3
  <1>3. QED
    BY <1>1, <1>2

\* With the same stacks and PCBs every process is the same.
LEMMA RestIsSlices ==
  ASSUME NEW c, NEW d, SameRest(d, c), d.stack = c.stack
  PROVE  \A q : SameSlice(d, c, q)
  BY DEF SameRest, SameSlice

\* What the invariant says of the running process.
LEMMA RunningFacts ==
  ASSUME IInv
  PROVE  /\ cpu \in CPU /\ mine \in Histories
         /\ cpu.current_running \in Procs
         /\ \A q \in Procs : mine[q].gen = <<q, Mode(q), mine[q].gen[3]>>
         /\ pc # "sched" => pc \in Labels /\ Active(cpu, mine, pc)
         /\ pc = "sched" => Switching(cpu, mine)
  BY DEF IInv, TypeInv, RunningInv

\* Kernel code leaves its critical sections.
LEMMA GoOnIInv ==
  ASSUME IInv, GoOn
  PROVE  IInv'
  <1> DEFINE p == cpu.current_running
             l == IF pc = "crit1" THEN "kernel" ELSE "crit1"
  <1>1. /\ pc \in {"crit1", "crit2"} /\ cpu' = leave_critical(cpu) /\ pc' = l
        /\ UNCHANGED <<started, mine>>
    BY DEF GoOn
  <1>2. /\ cpu \in CPU /\ mine \in Histories /\ p \in Procs /\ Active(cpu, mine, pc)
        /\ mine[p].gen = <<p, Mode(p), mine[p].gen[3]>>
    BY <1>1, RunningFacts
  <1>3. /\ cpu.disable_count = Sections(pc) /\ Sections(pc) >= 1 /\ ~cpu.interrupts
        /\ Sections(l) = Sections(pc) - 1 /\ (Sections(pc) = 1 <=> Sections(l) = 0)
    <2>1. /\ Sections(pc) \in {1, 2} /\ Sections(l) = Sections(pc) - 1
          /\ (Sections(pc) = 1 <=> Sections(l) = 0)
      BY <1>1 DEF Sections
    <2>2. cpu.disable_count = Sections(pc) /\ (cpu.interrupts <=> Sections(pc) = 0)
      BY <1>2 DEF Active
    <2>3. QED
      BY <2>1, <2>2
  <1>4. /\ cpu' \in CPU /\ cpu'.disable_count = Sections(l)
        /\ (cpu'.interrupts <=> Sections(l) = 0)
        /\ cpu'.stack = cpu.stack /\ cpu'.esp = cpu.esp
        /\ cpu'.gen = cpu.gen /\ cpu'.eax = cpu.eax
        /\ SameRest(cpu', cpu)
    BY <1>1, <1>2, <1>3, CriticalFields
  <1>5. \A q : SameSlice(cpu', cpu, q)
    BY <1>4, RestIsSlices
  <1>6. cpu'.current_running = p /\ cpu'.saved_count = cpu.saved_count
    BY <1>4 DEF SameRest
  <1>7. Context(cpu, mine, p, l, cpu.esp, cpu.gen, cpu.eax)
    BY <1>1, <1>2 DEF Active, Context, KernelContext
  <1>8. Context(cpu', mine, p, l, cpu.esp, cpu.gen, cpu.eax)
    BY <1>5, <1>7, ContextIsOwn
  <1>9. Active(cpu', mine', l)
    BY <1>1, <1>4, <1>6, <1>8 DEF Active
  <1>10. RunningInv' /\ pc' \in Labels
    BY <1>1, <1>9 DEF RunningInv, Labels
  <1>11. QED
    BY <1>1, <1>2, <1>4, <1>5, <1>6, <1>10, OwnStep

\* In kernel code the stack pointer is just above what a system call has left.
LEMMA KernelCode ==
  ASSUME NEW c \in CPU, NEW h, NEW q \in Procs, Context(c, h, q, "kernel", c.esp, c.gen, c.eax)
  PROVE  /\ KernelContext(c, h, q, "kernel", c.esp, c.gen)
         /\ c.esp = Stack(q, "kernel", Base(q)) /\ Base(q) \in Nat
         /\ Base(q) <= Len(c.stack[q]["kernel"])
         /\ \A l \in {"crit1", "crit2"} : Context(c, h, q, l, c.esp, c.gen, c.eax)
  <1>1. KernelContext(c, h, q, "kernel", c.esp, c.gen)
    BY DEF Context
  <1>2. c.esp = Stack(q, "kernel", Base(q))
    BY <1>1 DEF KernelContext
  <1>3. Base(q) \in Nat /\ Base(q) <= Len(c.stack[q]["kernel"])
    <2>1. c.stack[q]["kernel"] \in Seq(FrameSet)
      BY DEF CPU, Kinds
    <2>2. Len(c.stack[q]["kernel"]) \in Nat
      BY <2>1
    <2>3. q \notin Threads => Len(c.stack[q]["kernel"]) >= 1
      BY <1>1 DEF KernelContext, InKernel
    <2>4. QED
      BY <2>2, <2>3 DEF Base
  <1>4. \A l \in {"crit1", "crit2"} : Context(c, h, q, l, c.esp, c.gen, c.eax)
    BY <1>1 DEF Context, KernelContext
  <1>5. QED
    BY <1>1, <1>2, <1>3, <1>4

\* Kernel code gives up the processor.
LEMMA GiveUpIInv ==
  ASSUME IInv, NEW d \in {1, 2}, GiveUp(d)
  PROVE  IInv'
  <1> DEFINE p == cpu.current_running
             l == IF d = 1 THEN "crit1" ELSE "crit2"
             c == IF d = 1 THEN enter_critical(cpu) ELSE enter_critical(enter_critical(cpu))
  <1>1. /\ pc = "kernel" /\ cpu' = scheduler_entry(c, l) /\ pc' = "sched"
        /\ UNCHANGED <<started, mine>>
    BY DEF GiveUp
  <1>2. /\ cpu \in CPU /\ mine \in Histories /\ p \in Procs /\ Active(cpu, mine, "kernel")
        /\ mine[p].gen = <<p, Mode(p), mine[p].gen[3]>>
    BY <1>1, RunningFacts
  <1>3. cpu.disable_count = 0 /\ Context(cpu, mine, p, "kernel", cpu.esp, cpu.gen, cpu.eax)
    BY <1>2 DEF Active, Sections
  <1>4. /\ c \in CPU /\ c.disable_count = d /\ ~c.interrupts
        /\ c.stack = cpu.stack /\ c.esp = cpu.esp /\ c.gen = cpu.gen /\ c.eax = cpu.eax
        /\ SameRest(c, cpu)
    <2>1. ASSUME NEW b, b = enter_critical(cpu)
          PROVE  /\ b \in CPU /\ b.disable_count = 1 /\ ~b.interrupts
                 /\ b.stack = cpu.stack /\ b.esp = cpu.esp /\ b.gen = cpu.gen /\ b.eax = cpu.eax
                 /\ SameRest(b, cpu)
      BY <1>2, <1>3, <2>1, CriticalFields
    <2>2. CASE d = 1
      BY <2>1, <2>2
    <2>3. CASE d = 2
      <3>1. PICK b : b = enter_critical(cpu)
        OBVIOUS
      <3>2. c = enter_critical(b)
        BY <2>3, <3>1
      <3> HIDE DEF c
      <3>3. /\ b \in CPU /\ b.disable_count = 1
            /\ b.stack = cpu.stack /\ b.esp = cpu.esp /\ b.gen = cpu.gen /\ b.eax = cpu.eax
            /\ SameRest(b, cpu)
        BY <2>1, <3>1
      <3>4. /\ c \in CPU /\ c.disable_count = 1 + 1 /\ ~c.interrupts
            /\ c.stack = b.stack /\ c.esp = b.esp /\ c.gen = b.gen /\ c.eax = b.eax
            /\ SameRest(c, b)
        BY <3>2, <3>3, CriticalFields
      <3>5. QED
        BY <2>3, <3>3, <3>4 DEF SameRest
    <2>4. QED
      BY <2>2, <2>3
  <1> HIDE DEF c
  <1>5. /\ c.esp = Stack(p, "kernel", Base(p)) /\ Base(p) \in Nat
        /\ Base(p) <= Len(c.stack[p]["kernel"])
        /\ Context(c, mine, p, l, c.esp, c.gen, c.eax)
    <2>1. \A q : SameSlice(c, cpu, q)
      BY <1>4, RestIsSlices
    <2>2. Context(c, mine, p, "kernel", c.esp, c.gen, c.eax)
      BY <1>3, <1>4, <2>1, ContextIsOwn
    <2>3. l \in {"crit1", "crit2"}
      OBVIOUS
    <2>4. QED
      BY <1>2, <1>4, <2>2, <2>3, KernelCode
  <1>6. l \in {"irq0", "crit1", "crit2"} /\ d = Sections(l)
    BY DEF Sections
  <1>7. p = c.current_running /\ c.saved_count = cpu.saved_count
    BY <1>4 DEF SameRest
  <1>8. /\ cpu' \in CPU /\ Switching(cpu', mine)
        /\ cpu'.current_running = p /\ cpu'.saved_count = c.saved_count
        /\ \A u \in Procs \ {p} : SameSlice(cpu', c, u)
    <2>1. c.esp.depth = Base(p)
      BY <1>5 DEF Stack
    <2>2. /\ c.esp = Stack(p, "kernel", c.esp.depth)
          /\ c.esp.depth <= Len(c.stack[p]["kernel"]) /\ c.disable_count = Sections(l)
      BY <1>4, <1>5, <1>6, <2>1
    <2> HIDE DEF l, p
    <2>3. QED
      BY <1>1, <1>4, <1>5, <1>6, <1>7, <2>2, EntrySuspends
  <1>9. \A u \in Procs \ {p} : SameSlice(cpu', cpu, u)
    BY <1>4, <1>8 DEF SameSlice, SameRest
  <1>10. RunningInv'
    BY <1>1, <1>8 DEF RunningInv
  <1>11. QED
    BY <1>1, <1>2, <1>7, <1>8, <1>9, <1>10, OwnStep

\* iret takes the flags from the frame on top of the stack.
LEMMA IretFields ==
  ASSUME NEW c \in CPU, c.esp.depth >= 1, c.esp.depth <= Len(c.stack[c.esp.of][c.esp.kind])
  PROVE  /\ Iret(c) \in CPU
         /\ Iret(c).esp = Stack(c.esp.of, c.esp.kind, c.esp.depth - 1)
         /\ Iret(c).stack = c.stack
         /\ SameRest(Iret(c), c) /\ Iret(c).disable_count = c.disable_count
         /\ Iret(c).gen = c.gen /\ Iret(c).eax = c.eax
         /\ Iret(c).interrupts = Top(c).interrupts /\ Top(c) \in FrameSet
  <1> DEFINE f == Top(c)
             b == Pop(c)
             r == Iret(c)
  <1>1. f \in FrameSet
    <2>1. c.stack[c.esp.of][c.esp.kind] \in Seq(FrameSet) /\ c.esp.depth \in Nat
      BY DEF CPU, Pointers
    <2>2. QED
      BY <2>1 DEF Top
  <1>2. r = [b EXCEPT !.interrupts = f.interrupts]
    BY DEF Iret
  <1>3. /\ b \in CPU
        /\ b.esp = Stack(c.esp.of, c.esp.kind, c.esp.depth - 1) /\ b.stack = c.stack
        /\ SameRest(b, c) /\ b.disable_count = c.disable_count
        /\ b.interrupts = c.interrupts /\ b.gen = c.gen /\ b.eax = c.eax
    BY PopFields
  <1> HIDE DEF f, b, r
  <1>4. f.interrupts \in BOOLEAN
    BY <1>1 DEF FrameSet
  <1>5. /\ r \in CPU
        /\ r.esp = b.esp /\ r.stack = b.stack /\ SameRest(r, b)
        /\ r.disable_count = b.disable_count /\ r.gen = b.gen /\ r.eax = b.eax
        /\ r.interrupts = f.interrupts
    BY <1>2, <1>3, <1>4 DEF CPU, SameRest
  <1>6. /\ r.esp = Stack(c.esp.of, c.esp.kind, c.esp.depth - 1) /\ r.stack = c.stack
        /\ SameRest(r, c) /\ r.disable_count = c.disable_count
        /\ r.gen = c.gen /\ r.eax = c.eax
    BY <1>3, <1>5 DEF SameRest
  <1>7. QED
    BY <1>1, <1>5, <1>6 DEF f, r

\* Two processors that differ at most in stack pointers
SameCode(c, d) ==
  /\ c.current_running = d.current_running /\ c.stack = d.stack
  /\ c.nested_count = d.nested_count /\ c.saved_count = d.saved_count
  /\ c.syscall_return_val = d.syscall_return_val
  /\ c.disable_count = d.disable_count /\ c.interrupts = d.interrupts
  /\ c.gen = d.gen /\ c.eax = d.eax

\* Changing stacks keeps the pointer of the stack that is left.
LEMMA SwitchFields ==
  ASSUME NEW c \in CPU
  PROVE  LET p == c.current_running
             u == switch_to_user_stack(c)
             k == switch_to_kernel_stack(c)
         IN  /\ c.nested_count[p] # 0 => u = c /\ k = c
             /\ c.nested_count[p] = 0 =>
                  /\ u \in CPU /\ SameCode(u, c) /\ u.esp = c.USER_STACK[p]
                  /\ u.USER_STACK = c.USER_STACK /\ u.KERNEL_STACK[p] = c.esp
                  /\ \A q \in Procs \ {p} : u.KERNEL_STACK[q] = c.KERNEL_STACK[q]
                  /\ k \in CPU /\ SameCode(k, c) /\ k.esp = c.KERNEL_STACK[p]
                  /\ k.KERNEL_STACK = c.KERNEL_STACK /\ k.USER_STACK[p] = c.esp
                  /\ \A q \in Procs \ {p} : k.USER_STACK[q] = c.USER_STACK[q]
  <1> DEFINE p == c.current_running
             u == switch_to_user_stack(c)
             k == switch_to_kernel_stack(c)
             us == [c.USER_STACK EXCEPT ![p] = c.esp]
             ks == [c.KERNEL_STACK EXCEPT ![p] = c.esp]
  <1>1. c.nested_count[p] # 0 => u = c /\ k = c
    BY DEF switch_to_user_stack, switch_to_kernel_stack
  <1>2. ASSUME c.nested_count[p] = 0
        PROVE  /\ u = [c EXCEPT !.KERNEL_STACK = ks, !.esp = c.USER_STACK[p]]
               /\ k = [c EXCEPT !.USER_STACK = us, !.esp = c.KERNEL_STACK[p]]
    BY <1>2 DEF switch_to_user_stack, switch_to_kernel_stack
  <1>3. /\ p \in Procs /\ c.esp \in Pointers
        /\ c.USER_STACK \in [Procs -> Pointers] /\ c.KERNEL_STACK \in [Procs -> Pointers]
        /\ p = c.current_running
    BY DEF CPU
  <1> HIDE DEF p, u, k
  <1>4. /\ us \in [Procs -> Pointers] /\ us[p] = c.esp
        /\ \A q \in Procs \ {p} : us[q] = c.USER_STACK[q]
        /\ ks \in [Procs -> Pointers] /\ ks[p] = c.esp
        /\ \A q \in Procs \ {p} : ks[q] = c.KERNEL_STACK[q]
        /\ c.USER_STACK[p] \in Pointers /\ c.KERNEL_STACK[p] \in Pointers
    BY <1>3
  <1> HIDE DEF us, ks
  <1>5. ASSUME c.nested_count[p] = 0
        PROVE  /\ u \in CPU /\ SameCode(u, c) /\ u.esp = c.USER_STACK[p]
               /\ u.USER_STACK = c.USER_STACK /\ u.KERNEL_STACK = ks
    <2>1. u = [c EXCEPT !.KERNEL_STACK = ks, !.esp = c.USER_STACK[p]]
      BY <1>2, <1>5
    <2>2. u \in CPU
      BY <1>4, <2>1 DEF CPU
    <2>3. QED
      BY <2>1, <2>2 DEF CPU, SameCode
  <1>6. ASSUME c.nested_count[p] = 0
        PROVE  /\ k \in CPU /\ SameCode(k, c) /\ k.esp = c.KERNEL_STACK[p]
               /\ k.KERNEL_STACK = c.KERNEL_STACK /\ k.USER_STACK = us
    <2>1. k = [c EXCEPT !.USER_STACK = us, !.esp = c.KERNEL_STACK[p]]
      BY <1>2, <1>6
    <2>2. k \in CPU
      BY <1>4, <2>1 DEF CPU
    <2>3. QED
      BY <2>1, <2>2 DEF CPU, SameCode
  <1>7. c.nested_count[p] = 0 =>
          /\ u \in CPU /\ SameCode(u, c) /\ u.esp = c.USER_STACK[p]
          /\ u.USER_STACK = c.USER_STACK /\ u.KERNEL_STACK[p] = c.esp
          /\ \A q \in Procs \ {p} : u.KERNEL_STACK[q] = c.KERNEL_STACK[q]
          /\ k \in CPU /\ SameCode(k, c) /\ k.esp = c.KERNEL_STACK[p]
          /\ k.KERNEL_STACK = c.KERNEL_STACK /\ k.USER_STACK[p] = c.esp
          /\ \A q \in Procs \ {p} : k.USER_STACK[q] = c.USER_STACK[q]
    BY <1>4, <1>5, <1>6
  <1>8. QED
    BY <1>1, <1>7 DEF p, u, k

\* An interrupt adds a frame to those that are there, ...
LEMMA InterruptsGrow ==
  ASSUME NEW s, NEW r, NEW lo \in Nat \ {0}, NEW hi \in Nat, NEW l, NEW m,
         \/ hi + 1 = lo /\ m = l
         \/ Interrupts(s, lo, hi, l) /\ m = "iret",
         Len(r) = hi + 1, \A i \in 1..hi : r[i] = s[i],
         r[hi + 1].interrupts, r[hi + 1].to = m
  PROVE  Interrupts(r, lo, hi + 1, l)
  <1>1. CASE hi + 1 = lo /\ m = l
    BY <1>1 DEF Interrupts
  <1>2. CASE Interrupts(s, lo, hi, l) /\ m = "iret"
    <2>1. lo <= hi /\ \A i \in lo..hi : s[i].interrupts /\ s[i].to = IF i = lo THEN l ELSE "iret"
      BY <1>2 DEF Interrupts
    <2>2. ASSUME NEW i \in lo..(hi + 1)
          PROVE  r[i].interrupts /\ r[i].to = IF i = lo THEN l ELSE "iret"
      <3>1. CASE i = hi + 1
        BY <1>2, <2>1, <3>1
      <3>2. CASE i # hi + 1
        <4>1. i \in lo..hi /\ i \in 1..hi
          BY <3>2
        <4>2. QED
          BY <2>1, <4>1
      <3>3. QED
        BY <3>1, <3>2
    <2>3. QED
      BY <2>1, <2>2 DEF Interrupts
  <1>3. QED
    BY <1>1, <1>2

\* ... and iret takes away the last.
LEMMA InterruptsShrink ==
  ASSUME NEW s, NEW lo \in Nat \ {0}, NEW hi \in Nat, NEW l, Interrupts(s, lo, hi, l)
  PROVE  /\ hi >= 1 /\ hi <= Len(s) /\ s[hi].interrupts
         /\ \/ hi = lo /\ s[hi].to = l
            \/ hi - 1 \in Nat /\ s[hi].to = "iret" /\ Interrupts(s, lo, hi - 1, l)
  <1>1. /\ lo <= hi /\ hi <= Len(s)
        /\ \A i \in lo..hi : s[i].interrupts /\ s[i].to = IF i = lo THEN l ELSE "iret"
    BY DEF Interrupts
  <1>2. s[hi].interrupts /\ s[hi].to = IF hi = lo THEN l ELSE "iret"
    BY <1>1
  <1>3. hi # lo => Interrupts(s, lo, hi - 1, l)
    <2>1. ASSUME hi # lo
          PROVE  /\ lo <= hi - 1 /\ hi - 1 <= Len(s)
                 /\ \A i \in lo..(hi - 1) : i \in lo..hi
      <3>1. lo <= hi - 1 /\ \A i \in lo..(hi - 1) : i \in lo..hi
        BY <1>1, <2>1
      <3>2. hi - 1 <= Len(s)
        BY <1>1 
      <3>3. QED
        BY <3>1, <3>2
    <2>2. QED
      BY <1>1, <2>1 DEF Interrupts
  <1>4. QED
    BY <1>1, <1>2, <1>3

-----------------------------------------------------------------------------
\* scheduler_entry() has returned to irq0_entry, which goes back to the stack that
\* the interrupt came on.
LEMMA Irq0ReturnsIInv ==
  ASSUME IInv, Irq0Returns
  PROVE  IInv'
  <1> DEFINE p == cpu.current_running
             s == switch_to_user_stack(cpu)
  <1>1. /\ pc = "irq0" /\ cpu' = leave_critical(s) /\ pc' = "iret"
        /\ UNCHANGED <<started, mine>>
    BY DEF Irq0Returns
  <1>2. /\ cpu \in CPU /\ mine \in Histories /\ p \in Procs /\ Active(cpu, mine, "irq0")
        /\ mine[p].gen = <<p, Mode(p), mine[p].gen[3]>> /\ p = cpu.current_running
    BY <1>1, RunningFacts
  <1>3. /\ cpu.disable_count = 1 /\ ~cpu.interrupts
        /\ Context(cpu, mine, p, "irq0", cpu.esp, cpu.gen, cpu.eax)
    BY <1>2 DEF Active, Sections
  <1>4. /\ s \in CPU /\ s.current_running = p /\ s.saved_count = cpu.saved_count
        /\ s.disable_count = 1 /\ ~s.interrupts
        /\ \A q \in Procs \ {p} : SameSlice(s, cpu, q)
        /\ Context(s, mine, p, "iret", s.esp, s.gen, s.eax)
    <2>1. CASE UserContext(cpu, mine, p, "irq0", cpu.esp, cpu.gen, cpu.eax)
      <3>1. /\ cpu.nested_count[p] = 0 /\ p \notin Threads
            /\ cpu.gen = mine[p].gen /\ cpu.eax = mine[p].eax
            /\ cpu.esp = Stack(p, "kernel", 0)
            /\ cpu.USER_STACK[p] = Stack(p, "user", cpu.USER_STACK[p].depth)
            /\ Interrupts(cpu.stack[p]["user"], 1, cpu.USER_STACK[p].depth, "user")
        BY <2>1 DEF UserContext
      <3>2. /\ s \in CPU /\ SameCode(s, cpu) /\ s.esp = cpu.USER_STACK[p]
            /\ s.USER_STACK = cpu.USER_STACK /\ s.KERNEL_STACK[p] = cpu.esp
            /\ \A q \in Procs \ {p} : s.KERNEL_STACK[q] = cpu.KERNEL_STACK[q]
        BY <1>2, <3>1, SwitchFields
      <3> HIDE DEF s, p
      <3>3. s.esp.depth \in Nat
        BY <3>2 DEF CPU, Pointers
      <3>4. UserContext(s, mine, p, "iret", s.esp, s.gen, s.eax)
        BY <3>1, <3>2, <3>3 DEF UserContext, SameCode
      <3>5. \A q \in Procs \ {p} : SameSlice(s, cpu, q)
        BY <3>2 DEF SameSlice, SameCode
      <3>6. /\ s.current_running = p /\ s.saved_count = cpu.saved_count
            /\ s.disable_count = 1 /\ ~s.interrupts
        BY <1>2, <1>3, <3>2 DEF SameCode
      <3>7. QED
        BY <3>2, <3>4, <3>5, <3>6 DEF Context
    <2>2. CASE KernelContext(cpu, mine, p, "irq0", cpu.esp, cpu.gen)
      <3>1. cpu.nested_count[p] # 0
        BY <2>2 DEF KernelContext, InKernel
      <3>2. s = cpu
        BY <1>2, <3>1, SwitchFields
      <3> HIDE DEF s, p
      <3>3. Context(cpu, mine, p, "iret", cpu.esp, cpu.gen, cpu.eax)
        BY <2>2 DEF Context, KernelContext
      <3>4. QED
        BY <1>2, <1>3, <3>2, <3>3 DEF SameSlice
    <2>3. QED
      BY <1>3, <2>1, <2>2 DEF Context
  <1> HIDE DEF s
  <1>5. /\ cpu' \in CPU /\ cpu'.disable_count = 0 /\ cpu'.interrupts
        /\ cpu'.stack = s.stack /\ cpu'.esp = s.esp
        /\ cpu'.gen = s.gen /\ cpu'.eax = s.eax
        /\ SameRest(cpu', s)
    BY <1>1, <1>4, CriticalFields
  <1>6. \A q : SameSlice(cpu', s, q)
    BY <1>5, RestIsSlices
  <1>7. Context(cpu', mine, p, "iret", s.esp, s.gen, s.eax)
    BY <1>4, <1>6, ContextIsOwn
  <1>8. cpu'.current_running = p /\ cpu'.saved_count = cpu.saved_count
    BY <1>4, <1>5 DEF SameRest
  <1>9. \A q \in Procs \ {p} : SameSlice(cpu', cpu, q)
    BY <1>4, <1>6 DEF SameSlice
  <1>10. Active(cpu', mine', "iret")
    BY <1>1, <1>5, <1>7, <1>8 DEF Active, Sections
  <1>11. RunningInv' /\ pc' \in Labels
    BY <1>1, <1>10 DEF RunningInv, Labels
  <1>12. QED
    BY <1>1, <1>2, <1>5, <1>8, <1>9, <1>11, OwnStep

\* iret goes back to the code that was interrupted, or to another iret.
LEMMA Irq0IretIInv ==
  ASSUME IInv, Irq0Iret
  PROVE  IInv'
  <1> DEFINE p == cpu.current_running
             d == cpu.esp.depth
             k == cpu.esp.kind
             l == Top(cpu).to
  <1>1. /\ pc = "iret" /\ cpu' = Iret(cpu) /\ pc' = l
        /\ UNCHANGED <<started, mine>>
    BY DEF Irq0Iret
  <1>2. /\ cpu \in CPU /\ mine \in Histories /\ p \in Procs /\ Active(cpu, mine, "iret")
        /\ mine[p].gen = <<p, Mode(p), mine[p].gen[3]>> /\ p = cpu.current_running
    BY <1>1, RunningFacts
  <1>3. /\ cpu.disable_count = 0
        /\ Context(cpu, mine, p, "iret", cpu.esp, cpu.gen, cpu.eax)
    BY <1>2 DEF Active, Sections
  <1>4. d \in Nat /\ cpu.stack[p]["user"] \in Seq(FrameSet) /\ cpu.stack[p]["kernel"] \in Seq(FrameSet)
    BY <1>2 DEF CPU, Pointers, Kinds
  \* The two stacks are alike: what is on top of the one in use, and what is left
  <1>5. /\ d >= 1 /\ d <= Len(cpu.stack[cpu.esp.of][cpu.esp.kind])
        /\ cpu.esp.of = p /\ Top(cpu).interrupts
        /\ l \in {"user", "kernel", "iret"}
        /\ Context(cpu, mine, p, l, Stack(p, k, d - 1), cpu.gen, cpu.eax)
    <2>1. CASE UserContext(cpu, mine, p, "iret", cpu.esp, cpu.gen, cpu.eax)
      <3>1. /\ cpu.nested_count[p] = 0 /\ p \notin Threads
            /\ cpu.gen = mine[p].gen /\ cpu.eax = mine[p].eax
            /\ cpu.esp = Stack(p, "user", d)
            /\ cpu.KERNEL_STACK[p] = Stack(p, "kernel", 0)
            /\ Interrupts(cpu.stack[p]["user"], 1, d, "user")
        BY <2>1 DEF UserContext
      <3>2. cpu.esp.of = p /\ cpu.esp.kind = "user"
        BY <3>1 DEF Stack
      <3>3. Top(cpu) = cpu.stack[p]["user"][d]
        BY <3>2 DEF Top
      <3>4. /\ d >= 1 /\ d <= Len(cpu.stack[p]["user"]) /\ Top(cpu).interrupts
            /\ \/ d = 1 /\ l = "user"
               \/ l = "iret" /\ Interrupts(cpu.stack[p]["user"], 1, d - 1, "user")
        <4> DEFINE lo == 1
                   U == cpu.stack[p]["user"]
        <4>1. /\ lo \in Nat \ {0} /\ d \in Nat /\ Interrupts(U, lo, d, "user")
              /\ Top(cpu) = U[d]
          BY <1>4, <3>1, <3>3
        <4> HIDE DEF lo, U, d
        <4>2. /\ d >= 1 /\ d <= Len(U) /\ U[d].interrupts
              /\ \/ d = lo /\ U[d].to = "user"
                 \/ U[d].to = "iret" /\ Interrupts(U, lo, d - 1, "user")
          BY <4>1, InterruptsShrink
        <4>3. QED
          BY <4>1, <4>2 DEF lo, U
      <3>5. /\ Stack(p, k, d - 1) = Stack(p, "user", Stack(p, k, d - 1).depth)
            /\ Stack(p, k, d - 1).depth = d - 1 /\ d - 1 \in Nat
        BY <1>4, <3>2, <3>4 DEF Stack
      <3> HIDE DEF d, p, l, k
      <3>6. /\ l = "user" /\ d = 1 => d - 1 = 0
        OBVIOUS
      <3>7. UserContext(cpu, mine, p, l, Stack(p, k, d - 1), cpu.gen, cpu.eax)
        BY <3>1, <3>4, <3>5, <3>6 DEF UserContext
      <3>8. QED
        BY <3>2, <3>4, <3>7 DEF Context
    <2>2. CASE KernelContext(cpu, mine, p, "iret", cpu.esp, cpu.gen)
      <3>1. /\ InKernel(cpu, mine, p)
            /\ cpu.gen = <<p, "kernel", mine[p].gen[3]>>
            /\ cpu.esp = Stack(p, "kernel", d)
            /\ Interrupts(cpu.stack[p]["kernel"], Base(p) + 1, d, "kernel")
        BY <2>2 DEF KernelContext
      <3>2. cpu.esp.of = p /\ cpu.esp.kind = "kernel"
        BY <3>1 DEF Stack
      <3>3. Top(cpu) = cpu.stack[p]["kernel"][d]
        BY <3>2 DEF Top
      <3>4. Base(p) + 1 \in Nat \ {0} /\ Base(p) \in Nat
        BY DEF Base
      <3>5. /\ d >= 1 /\ d <= Len(cpu.stack[p]["kernel"]) /\ Top(cpu).interrupts
            /\ \/ d = Base(p) + 1 /\ l = "kernel"
               \/ l = "iret" /\ Interrupts(cpu.stack[p]["kernel"], Base(p) + 1, d - 1, "kernel")
        <4> DEFINE b == Base(p) + 1
                   K == cpu.stack[p]["kernel"]
        <4>1. /\ b \in Nat \ {0} /\ d \in Nat /\ Interrupts(K, b, d, "kernel")
              /\ Top(cpu) = K[d]
          BY <1>4, <3>1, <3>3, <3>4
        <4> HIDE DEF b, K, d
        <4>2. /\ d >= 1 /\ d <= Len(K) /\ K[d].interrupts
              /\ \/ d = b /\ K[d].to = "kernel"
                 \/ K[d].to = "iret" /\ Interrupts(K, b, d - 1, "kernel")
          BY <4>1, InterruptsShrink
        <4>3. QED
          BY <4>1, <4>2 DEF b, K
      <3>6. /\ Stack(p, k, d - 1) = Stack(p, "kernel", Stack(p, k, d - 1).depth)
            /\ Stack(p, k, d - 1).depth = d - 1 /\ d - 1 \in Nat
        BY <1>4, <3>2, <3>5 DEF Stack
      <3> HIDE DEF d, p, l, k
      <3>7. d = Base(p) + 1 => d - 1 = Base(p)
        BY <1>4, <3>4
      <3>8. KernelContext(cpu, mine, p, l, Stack(p, k, d - 1), cpu.gen)
        BY <3>1, <3>5, <3>6, <3>7 DEF KernelContext
      <3>9. QED
        BY <3>2, <3>5, <3>8 DEF Context
    <2>3. QED
      BY <1>3, <2>1, <2>2 DEF Context
  <1>6. /\ cpu' \in CPU /\ cpu'.esp = Stack(p, k, d - 1) /\ cpu'.stack = cpu.stack
        /\ SameRest(cpu', cpu) /\ cpu'.disable_count = 0
        /\ cpu'.gen = cpu.gen /\ cpu'.eax = cpu.eax /\ cpu'.interrupts
    BY <1>1, <1>2, <1>3, <1>5, IretFields
  <1>7. \A q : SameSlice(cpu', cpu, q)
    BY <1>6, RestIsSlices
  <1>8. cpu'.current_running = p /\ cpu'.saved_count = cpu.saved_count
    BY <1>6 DEF SameRest
  <1>9. Context(cpu', mine, p, l, cpu'.esp, cpu'.gen, cpu'.eax)
    <2> HIDE DEF l, k, d, p
    <2>1. Context(cpu, mine, p, l, cpu'.esp, cpu'.gen, cpu'.eax)
      BY <1>5, <1>6, Zenon
    <2>2. QED
      BY <1>7, <2>1, ContextIsOwn
  <1> HIDE DEF l
  <1>10. Active(cpu', mine', l)
    BY <1>1, <1>5, <1>6, <1>8, <1>9 DEF Active, Sections
  <1>11. RunningInv' /\ pc' \in Labels
    BY <1>1, <1>5, <1>10 DEF RunningInv, Labels
  <1>12. QED
    BY <1>1, <1>2, <1>6, <1>7, <1>8, <1>11, OwnStep

-----------------------------------------------------------------------------
\* disable_count of every process, when the running one has put it into its PCB
SavedCounts(c) == [c.saved_count EXCEPT ![c.current_running] = c.disable_count]

\* What scheduler() and dispatch() change
LEMMA DispatchedFields ==
  ASSUME NEW c \in CPU, NEW q \in Procs
  PROVE  LET r == Dispatched(c, q)
         IN  /\ r \in CPU /\ r.current_running = q /\ r.esp = c.KERNEL_STACK[q]
             /\ r.saved_count = SavedCounts(c) /\ r.disable_count = SavedCounts(c)[q]
             /\ r.stack = c.stack /\ r.nested_count = c.nested_count
             /\ r.USER_STACK = c.USER_STACK /\ r.KERNEL_STACK = c.KERNEL_STACK
             /\ r.syscall_return_val = c.syscall_return_val
             /\ SavedCounts(c) \in [Procs -> Nat]
             /\ SavedCounts(c)[c.current_running] = c.disable_count
             /\ \A u \in Procs \ {c.current_running} : SavedCounts(c)[u] = c.saved_count[u]
  <1> DEFINE r == Dispatched(c, q)
             saved == SavedCounts(c)
             p == c.current_running
  <1>1. r = [c EXCEPT !.saved_count = saved, !.disable_count = saved[q],
                      !.current_running = q, !.esp = c.KERNEL_STACK[q]]
    BY DEF Dispatched, SavedCounts
  <1>2. /\ p \in Procs /\ c.disable_count \in Nat /\ c.saved_count \in [Procs -> Nat]
        /\ c.KERNEL_STACK[q] \in Pointers
    BY DEF CPU
  <1>3. saved = [c.saved_count EXCEPT ![p] = c.disable_count]
    BY DEF SavedCounts
  <1> HIDE DEF r, saved, p
  <1>4. /\ saved \in [Procs -> Nat] /\ saved[q] \in Nat /\ saved[p] = c.disable_count
        /\ \A u \in Procs \ {p} : saved[u] = c.saved_count[u]
    BY <1>2, <1>3
  <1>5. /\ r \in CPU /\ r.current_running = q /\ r.esp = c.KERNEL_STACK[q]
        /\ r.saved_count = saved /\ r.disable_count = saved[q]
        /\ r.stack = c.stack /\ r.nested_count = c.nested_count
        /\ r.USER_STACK = c.USER_STACK /\ r.KERNEL_STACK = c.KERNEL_STACK
        /\ r.syscall_return_val = c.syscall_return_val
    BY <1>1, <1>2, <1>4 DEF CPU
  <1>6. QED
    BY <1>4, <1>5 DEF r, saved, p

\* In scheduler() all processes that have run are suspended, the last one too.
LEMMA AllSuspended ==
  ASSUME IInv, pc = "sched"
  PROVE  /\ \A q \in started : Suspended(cpu, mine, q, SavedCounts(cpu)[q])
         /\ \A q \in Procs \ started : Fresh(cpu, q) /\ SavedCounts(cpu)[q] = 0
  <1> DEFINE p == cpu.current_running
  <1>1. /\ cpu \in CPU /\ p \in Procs /\ Switching(cpu, mine)
        /\ p \in started /\ started \subseteq Procs /\ OthersInv
    BY RunningFacts DEF IInv, TypeInv
  <1>2. /\ SavedCounts(cpu)[p] = cpu.disable_count
        /\ \A u \in Procs \ {p} : SavedCounts(cpu)[u] = cpu.saved_count[u]
    BY <1>1, DispatchedFields
  <1>3. Suspended(cpu, mine, p, SavedCounts(cpu)[p])
    BY <1>1, <1>2 DEF Switching
  <1>4. ASSUME NEW q \in started, q # p
        PROVE  Suspended(cpu, mine, q, SavedCounts(cpu)[q])
    <2>1. Suspended(cpu, mine, q, cpu.saved_count[q])
      BY <1>1, <1>4 DEF OthersInv
    <2>2. SavedCounts(cpu)[q] = cpu.saved_count[q]
      BY <1>1, <1>2, <1>4
    <2>3. QED
      BY <2>1, <2>2
  <1>5. ASSUME NEW q \in Procs \ started
        PROVE  Fresh(cpu, q) /\ SavedCounts(cpu)[q] = 0
    BY <1>1, <1>2 DEF OthersInv, Fresh
  <1>6. QED
    BY <1>3, <1>4, <1>5

\* A switch to a process that finds itself in order keeps the invariant.
LEMMA SwitchStep ==
  ASSUME IInv, pc = "sched", NEW q \in Procs,
         started' = started \cup {q}, mine' = mine, pc' \in Labels,
         cpu' \in CPU, cpu'.current_running = q,
         cpu'.saved_count = SavedCounts(cpu),
         \A u : SameSlice(cpu', cpu, u),
         Active(cpu', mine, pc')
  PROVE  IInv'
  <1>1. TypeInv'
    BY DEF IInv, TypeInv
  <1>2. RunningInv'
    BY DEF RunningInv, Labels
  <1>3. OthersInv'
    <2>1. ASSUME NEW u \in started' \ {q}
          PROVE  Suspended(cpu', mine, u, cpu'.saved_count[u])
      <3>1. Suspended(cpu, mine, u, SavedCounts(cpu)[u])
        BY <2>1, AllSuspended
      <3>2. SameSlice(cpu', cpu, u) /\ cpu'.saved_count[u] = SavedCounts(cpu)[u]
        OBVIOUS
      <3>3. Suspended(cpu', mine, u, SavedCounts(cpu)[u])
        BY <3>1, <3>2, ContextIsOwn
      <3>4. QED
        BY <3>2, <3>3
    <2>2. ASSUME NEW u \in Procs \ started'
          PROVE  Fresh(cpu', u)
      <3>1. Fresh(cpu, u) /\ SavedCounts(cpu)[u] = 0 /\ SameSlice(cpu', cpu, u)
        BY <2>2, AllSuspended
      <3>2. QED
        BY <3>1 DEF Fresh, SameSlice
    <2>3. QED
      BY <2>1, <2>2 DEF OthersInv
  <1>4. QED
    BY <1>1, <1>2, <1>3 DEF IInv

\* scheduler_entry() goes on in a process that has run before.
LEMMA ResumeIInv ==
  ASSUME IInv, NEW q \in Procs, Resume(q)
  PROVE  IInv'
  <1> DEFINE c == Dispatched(cpu, q)
             f == Top(c)
             b == Pop(c)
             n == SavedCounts(cpu)[q]
  <1>1. /\ pc = "sched" /\ q \in started /\ UNCHANGED <<started, mine>> /\ pc' = f.to
        /\ cpu' = [RestoreRegs(c) EXCEPT !.interrupts = f.interrupts]
    BY DEF Resume
  <1>2. cpu' = [b EXCEPT !.gen = f.gen, !.eax = f.eax, !.interrupts = f.interrupts]
    BY <1>1 DEF RestoreRegs
  <1>3. cpu \in CPU
    BY RunningFacts
  <1>4. /\ c \in CPU /\ c.current_running = q /\ c.esp = cpu.KERNEL_STACK[q]
        /\ c.saved_count = SavedCounts(cpu) /\ c.disable_count = n
        /\ c.stack = cpu.stack /\ c.nested_count = cpu.nested_count
        /\ c.USER_STACK = cpu.USER_STACK /\ c.KERNEL_STACK = cpu.KERNEL_STACK
    BY <1>3, DispatchedFields
  <1>5. Suspended(cpu, mine, q, n)
    BY <1>1, AllSuspended
  <1> HIDE DEF c, n
  <1>6. PICK d \in Nat :
          LET g == cpu.stack[q]["kernel"][d + 1]
          IN  /\ cpu.KERNEL_STACK[q] = Stack(q, "kernel", d + 1)
              /\ d + 1 <= Len(cpu.stack[q]["kernel"])
              /\ g.to \in {"irq0", "crit1", "crit2"} /\ ~g.interrupts
              /\ n = Sections(g.to)
              /\ Context(cpu, mine, q, g.to, Stack(q, "kernel", d), g.gen, g.eax)
    BY <1>5 DEF Suspended
  <1>7. c.esp.of = q /\ c.esp.kind = "kernel" /\ c.esp.depth = d + 1
    <2>1. c.esp = Stack(q, "kernel", d + 1)
      BY <1>4, <1>6
    <2>2. QED
      BY <2>1 DEF Stack
  <1>8. f = cpu.stack[q]["kernel"][d + 1]
    BY <1>4, <1>7 DEF Top
  <1>9. f \in FrameSet
    <2>1. cpu.stack[q]["kernel"] \in Seq(FrameSet) /\ d + 1 \in 1..Len(cpu.stack[q]["kernel"])
      BY <1>3, <1>6 DEF CPU, Kinds
    <2>2. QED
      BY <1>8, <2>1
  <1>10. /\ b \in CPU /\ b.esp = Stack(q, "kernel", d) /\ b.stack = c.stack
         /\ SameRest(b, c) /\ b.disable_count = c.disable_count
    <2>1. c.esp.depth >= 1 /\ c.esp.depth - 1 = d
      BY <1>7
    <2>2. QED
      BY <1>4, <1>7, <2>1, PopFields
  <1> HIDE DEF b, f
  <1>11. /\ f.gen \in Gens /\ f.eax \in Values /\ f.interrupts \in BOOLEAN
         /\ f.to \in {"irq0", "crit1", "crit2"} /\ ~f.interrupts /\ n = Sections(f.to)
         /\ Context(cpu, mine, q, f.to, Stack(q, "kernel", d), f.gen, f.eax)
    BY <1>6, <1>8, <1>9 DEF FrameSet
  <1>12. /\ cpu' \in CPU /\ cpu'.gen = f.gen /\ cpu'.eax = f.eax
         /\ (cpu'.interrupts <=> f.interrupts)
         /\ cpu'.esp = b.esp /\ cpu'.stack = b.stack /\ SameRest(cpu', b)
         /\ cpu'.disable_count = b.disable_count
    BY <1>2, <1>10, <1>11 DEF CPU, SameRest
  <1>13. /\ \A u : SameSlice(cpu', cpu, u)
         /\ cpu'.saved_count = SavedCounts(cpu) /\ cpu'.current_running = q
         /\ cpu'.disable_count = n
    BY <1>4, <1>10, <1>12 DEF SameRest, SameSlice
  <1>14. Context(cpu', mine, q, f.to, cpu'.esp, cpu'.gen, cpu'.eax)
    <2>1. Context(cpu, mine, q, f.to, cpu'.esp, cpu'.gen, cpu'.eax)
      BY <1>10, <1>11, <1>12, Zenon
    <2>2. QED
      BY <1>13, <2>1, ContextIsOwn
  <1>15. Sections(f.to) # 0 /\ f.to # "ret" /\ f.to \in Labels
    BY <1>11 DEF Sections, Labels
  <1>16. Active(cpu', mine, f.to)
    BY <1>11, <1>12, <1>13, <1>14, <1>15 DEF Active
  <1>17. QED
    BY <1>1, <1>12, <1>13, <1>15, <1>16, SwitchStep

\* A new process starts with nothing on its stacks.
LEMMA StartIInv ==
  ASSUME IInv, NEW q \in Procs, Start(q)
  PROVE  IInv'
  <1> DEFINE c == Dispatched(cpu, q)
             e == Stack(q, Mode(q), 0)
  <1>1. /\ pc = "sched" /\ q \notin started /\ pc' = Mode(q)
        /\ started' = started \cup {q} /\ UNCHANGED mine
        /\ cpu' = [c EXCEPT !.esp = e, !.interrupts = TRUE,
                            !.gen = mine[q].gen, !.eax = mine[q].eax]
    BY DEF Start
  <1>2. /\ cpu \in CPU /\ mine \in Histories
        /\ mine[q].gen = <<q, Mode(q), mine[q].gen[3]>>
    BY RunningFacts
  <1>3. /\ c \in CPU /\ c.current_running = q
        /\ c.saved_count = SavedCounts(cpu) /\ c.disable_count = SavedCounts(cpu)[q]
        /\ c.stack = cpu.stack /\ c.nested_count = cpu.nested_count
        /\ c.USER_STACK = cpu.USER_STACK /\ c.KERNEL_STACK = cpu.KERNEL_STACK
    BY <1>2, DispatchedFields
  <1>4. Fresh(cpu, q) /\ SavedCounts(cpu)[q] = 0
    BY <1>1, AllSuspended
  <1>5. e \in Pointers /\ mine[q].gen \in Gens /\ mine[q].eax \in Values
    BY <1>2 DEF Stack, Pointers, Mode, Kinds, Histories
  <1>6. Mode(q) \in {"user", "kernel"} /\ Sections(Mode(q)) = 0 /\ Mode(q) \in Labels
    BY DEF Mode, Sections, Labels
  <1> HIDE DEF c, e
  <1>7. /\ cpu' \in CPU /\ cpu'.esp = e /\ cpu'.interrupts
        /\ cpu'.gen = mine[q].gen /\ cpu'.eax = mine[q].eax
        /\ cpu'.current_running = c.current_running /\ cpu'.saved_count = c.saved_count
        /\ cpu'.disable_count = c.disable_count /\ cpu'.stack = c.stack
        /\ cpu'.nested_count = c.nested_count /\ cpu'.USER_STACK = c.USER_STACK
        /\ cpu'.KERNEL_STACK = c.KERNEL_STACK
    BY <1>1, <1>3, <1>5 DEF CPU
  <1>8. /\ \A u : SameSlice(cpu', cpu, u)
        /\ cpu'.saved_count = SavedCounts(cpu) /\ cpu'.current_running = q
        /\ cpu'.disable_count = 0
    BY <1>3, <1>4, <1>7 DEF SameSlice
  <1>9. Context(cpu, mine, q, Mode(q), e, mine[q].gen, mine[q].eax)
    <2>1. e.depth = 0 /\ e = Stack(q, Mode(q), 0)
      BY DEF e, Stack
    <2>2. CASE q \in Threads
      <3>1. Mode(q) = "kernel" /\ Base(q) = 0 /\ cpu.nested_count[q] = 1
        BY <1>4, <2>2 DEF Mode, Base, Fresh
      <3>2. KernelContext(cpu, mine, q, Mode(q), e, mine[q].gen)
        BY <1>2, <2>1, <2>2, <3>1 DEF KernelContext, InKernel
      <3>3. QED
        BY <3>2 DEF Context
    <2>3. CASE q \notin Threads
      <3>1. /\ Mode(q) = "user" /\ cpu.nested_count[q] = 0
            /\ cpu.KERNEL_STACK[q] = Stack(q, "kernel", 0)
        BY <1>4, <2>3 DEF Mode, Fresh
      <3>2. UserContext(cpu, mine, q, Mode(q), e, mine[q].gen, mine[q].eax)
        BY <2>1, <2>3, <3>1 DEF UserContext
      <3>3. QED
        BY <3>1, <3>2 DEF Context
    <2>4. QED
      BY <2>2, <2>3
  <1>10. Context(cpu', mine, q, Mode(q), cpu'.esp, cpu'.gen, cpu'.eax)
    <2>1. Context(cpu, mine, q, Mode(q), cpu'.esp, cpu'.gen, cpu'.eax)
      BY <1>7, <1>9, Zenon
    <2>2. QED
      BY <1>8, <2>1, ContextIsOwn
  <1>11. Active(cpu', mine, Mode(q))
    BY <1>6, <1>7, <1>8, <1>10 DEF Active
  <1>12. QED
    BY <1>1, <1>6, <1>7, <1>8, <1>11, SwitchStep

-----------------------------------------------------------------------------
\* An entry leaves its frame on the stack in use and is in a critical section.
LEMMA EntryFields ==
  ASSUME NEW c \in CPU, NEW l \in Labels,
         c.esp.depth <= Len(c.stack[c.esp.of][c.esp.kind])
  PROVE  LET r == enter_critical(Interrupted(c, l))
             o == c.esp.of
             k == c.esp.kind
             n == c.esp.depth
         IN  /\ r \in CPU
             /\ r.esp = Stack(o, k, n + 1)
             /\ \A q \in Procs : q # o => r.stack[q] = c.stack[q]
             /\ \A j \in Kinds : j # k => r.stack[o][j] = c.stack[o][j]
             /\ Len(r.stack[o][k]) = n + 1 /\ r.stack[o][k][n + 1] = Frame(c, l)
             /\ \A i \in 1..n : r.stack[o][k][i] = c.stack[o][k][i]
             /\ SameRest(r, c) /\ r.disable_count = c.disable_count + 1
             /\ ~r.interrupts /\ r.gen = c.gen /\ r.eax = c.eax
  <1> DEFINE r == enter_critical(Interrupted(c, l))
             i == Interrupted(c, l)
             b == Push(c, Frame(c, l))
  <1>1. Frame(c, l) \in FrameSet
    BY FrameType
  <1>2. LET o == c.esp.of
            k == c.esp.kind
            n == c.esp.depth
        IN  /\ b \in CPU
            /\ b.esp = Stack(o, k, n + 1)
            /\ \A q \in Procs : q # o => b.stack[q] = c.stack[q]
            /\ \A j \in Kinds : j # k => b.stack[o][j] = c.stack[o][j]
            /\ Len(b.stack[o][k]) = n + 1 /\ b.stack[o][k][n + 1] = Frame(c, l)
            /\ \A m \in 1..n : b.stack[o][k][m] = c.stack[o][k][m]
            /\ SameRest(b, c) /\ b.disable_count = c.disable_count
            /\ b.gen = c.gen /\ b.eax = c.eax
    BY <1>1, PushFields
  <1>3. i = [b EXCEPT !.interrupts = FALSE]
    BY DEF Interrupted
  <1> HIDE DEF b
  <1>4. /\ i \in CPU /\ i.stack = b.stack /\ i.esp = b.esp /\ SameRest(i, b)
        /\ i.disable_count = b.disable_count /\ i.gen = b.gen /\ i.eax = b.eax
    BY <1>2, <1>3 DEF CPU, SameRest
  <1>5. /\ r \in CPU /\ r.disable_count = i.disable_count + 1 /\ ~r.interrupts
        /\ r.stack = i.stack /\ r.esp = i.esp /\ r.gen = i.gen /\ r.eax = i.eax
        /\ SameRest(r, i)
    BY <1>4, CriticalFields
  <1> HIDE DEF i, r
  <1>6. /\ r.stack = b.stack /\ r.esp = b.esp /\ r.gen = c.gen /\ r.eax = c.eax
        /\ SameRest(r, c) /\ r.disable_count = c.disable_count + 1
    BY <1>2, <1>4, <1>5 DEF SameRest
  <1>7. LET o == c.esp.of
            k == c.esp.kind
            n == c.esp.depth
        IN  /\ r.esp = Stack(o, k, n + 1)
            /\ \A q \in Procs : q # o => r.stack[q] = c.stack[q]
            /\ \A j \in Kinds : j # k => r.stack[o][j] = c.stack[o][j]
            /\ Len(r.stack[o][k]) = n + 1 /\ r.stack[o][k][n + 1] = Frame(c, l)
            /\ \A m \in 1..n : r.stack[o][k][m] = c.stack[o][k][m]
    BY <1>2, <1>6
  <1>8. QED
    BY <1>5, <1>6, <1>7 DEF r

\* From user code an entry goes on on the kernel stack of the process.
LEMMA UserEntry ==
  ASSUME NEW c \in CPU, NEW l \in Labels,
         c.nested_count[c.current_running] = 0,
         c.esp = Stack(c.current_running, "user", c.esp.depth),
         c.esp.depth <= Len(c.stack[c.current_running]["user"])
  PROVE  LET r == switch_to_kernel_stack(enter_critical(Interrupted(c, l)))
             p == c.current_running
             n == c.esp.depth
         IN  /\ r \in CPU /\ r.current_running = p
             /\ r.esp = c.KERNEL_STACK[p] /\ r.USER_STACK[p] = Stack(p, "user", n + 1)
             /\ r.stack[p]["kernel"] = c.stack[p]["kernel"]
             /\ Len(r.stack[p]["user"]) = n + 1 /\ r.stack[p]["user"][n + 1] = Frame(c, l)
             /\ \A i \in 1..n : r.stack[p]["user"][i] = c.stack[p]["user"][i]
             /\ r.KERNEL_STACK = c.KERNEL_STACK /\ r.nested_count = c.nested_count
             /\ r.saved_count = c.saved_count
             /\ r.disable_count = c.disable_count + 1 /\ ~r.interrupts
             /\ r.gen = c.gen /\ r.eax = c.eax
             /\ \A u \in Procs \ {p} : SameSlice(r, c, u)
  <1> DEFINE p == c.current_running
             n == c.esp.depth
             i == enter_critical(Interrupted(c, l))
             r == switch_to_kernel_stack(i)
  <1>1. c.esp.of = p /\ c.esp.kind = "user" /\ "user" \in Kinds /\ "kernel" \in Kinds
    BY DEF Stack, Kinds
  <1>2. p \in Procs /\ n <= Len(c.stack[c.esp.of][c.esp.kind])
    BY <1>1 DEF CPU
  <1>3. LET o == c.esp.of
            k == c.esp.kind
        IN  /\ i \in CPU /\ i.esp = Stack(o, k, n + 1)
            /\ \A q \in Procs : q # o => i.stack[q] = c.stack[q]
            /\ \A j \in Kinds : j # k => i.stack[o][j] = c.stack[o][j]
            /\ Len(i.stack[o][k]) = n + 1 /\ i.stack[o][k][n + 1] = Frame(c, l)
            /\ \A m \in 1..n : i.stack[o][k][m] = c.stack[o][k][m]
            /\ SameRest(i, c) /\ i.disable_count = c.disable_count + 1
            /\ ~i.interrupts /\ i.gen = c.gen /\ i.eax = c.eax
    BY <1>2, EntryFields
  <1> HIDE DEF i
  <1>4. i.current_running = p /\ i.nested_count[p] = 0
    BY <1>3 DEF SameRest
  <1>5. /\ r \in CPU /\ SameCode(r, i) /\ r.esp = i.KERNEL_STACK[p]
        /\ r.KERNEL_STACK = i.KERNEL_STACK /\ r.USER_STACK[p] = i.esp
        /\ \A q \in Procs \ {p} : r.USER_STACK[q] = i.USER_STACK[q]
    <2> DEFINE o == i.current_running
    <2>1. o = p /\ i.nested_count[o] = 0
      BY <1>4
    <2>2. /\ r \in CPU /\ SameCode(r, i) /\ r.esp = i.KERNEL_STACK[o]
          /\ r.KERNEL_STACK = i.KERNEL_STACK /\ r.USER_STACK[o] = i.esp
          /\ \A q \in Procs \ {o} : r.USER_STACK[q] = i.USER_STACK[q]
      BY <1>3, <2>1, SwitchFields
    <2> HIDE DEF o, p, r
    <2>3. QED
      BY <2>1, <2>2
  <1> HIDE DEF r, p, n
  <1>6. /\ r.current_running = p /\ r.esp = c.KERNEL_STACK[p]
        /\ r.KERNEL_STACK = c.KERNEL_STACK /\ r.nested_count = c.nested_count
        /\ r.saved_count = c.saved_count
        /\ r.disable_count = c.disable_count + 1 /\ ~r.interrupts
        /\ r.gen = c.gen /\ r.eax = c.eax /\ r.stack = i.stack
        /\ \A q \in Procs \ {p} : r.USER_STACK[q] = c.USER_STACK[q]
    BY <1>3, <1>4, <1>5 DEF SameRest, SameCode
  <1>7. /\ r.USER_STACK[p] = Stack(p, "user", n + 1)
        /\ r.stack[p]["kernel"] = c.stack[p]["kernel"]
        /\ Len(r.stack[p]["user"]) = n + 1 /\ r.stack[p]["user"][n + 1] = Frame(c, l)
        /\ \A m \in 1..n : r.stack[p]["user"][m] = c.stack[p]["user"][m]
        /\ \A q \in Procs \ {p} : r.stack[q] = c.stack[q]
    BY <1>1, <1>3, <1>5, <1>6
  <1>8. \A u \in Procs \ {p} : SameSlice(r, c, u)
    BY <1>6, <1>7 DEF SameSlice
  <1>9. QED
    BY <1>5, <1>6, <1>7, <1>8 DEF r, p, n, i

\* A timer interrupt in any code with interrupts on leaves the process suspended.
LEMMA Irq0IInv ==
  ASSUME IInv, Irq0
  PROVE  IInv'
  <1> DEFINE p == cpu.current_running
             n == cpu.esp.depth
             i == enter_critical(Interrupted(cpu, pc))
             c == switch_to_kernel_stack(i)
  <1>1. /\ cpu.interrupts /\ cpu' = scheduler_entry(c, "irq0") /\ pc' = "sched"
        /\ UNCHANGED <<started, mine>>
    BY DEF Irq0
  <1>2. /\ cpu \in CPU /\ mine \in Histories /\ p \in Procs
        /\ mine[p].gen = <<p, Mode(p), mine[p].gen[3]>> /\ p = cpu.current_running
        /\ pc \in Labels /\ Active(cpu, mine, pc)
    BY <1>1, RunningFacts DEF Switching
  <1>3. /\ Sections(pc) = 0 /\ cpu.disable_count = 0
        /\ Context(cpu, mine, p, pc, cpu.esp, cpu.gen, cpu.eax)
    BY <1>1, <1>2 DEF Active
  <1>4. pc \in {"user", "kernel", "iret"}
    BY <1>3 DEF Sections
  <1>5. /\ n \in Nat /\ cpu.stack[p]["user"] \in Seq(FrameSet)
        /\ cpu.stack[p]["kernel"] \in Seq(FrameSet)
    BY <1>2 DEF CPU, Pointers, Kinds
  <1>6. /\ Frame(cpu, pc).interrupts /\ Frame(cpu, pc).to = pc
    BY <1>1, <1>2, FrameType
  <1>7. /\ c \in CPU /\ c.current_running = p /\ c.saved_count = cpu.saved_count
        /\ c.disable_count = 1 /\ ~c.interrupts
        /\ c.esp = Stack(p, "kernel", c.esp.depth)
        /\ c.esp.depth <= Len(c.stack[p]["kernel"])
        /\ Context(c, mine, p, "irq0", c.esp, c.gen, c.eax)
        /\ \A u \in Procs \ {p} : SameSlice(c, cpu, u)
    <2>1. CASE pc \in {"user", "iret"} /\ UserContext(cpu, mine, p, pc, cpu.esp, cpu.gen, cpu.eax)
      <3>1. /\ cpu.nested_count[p] = 0 /\ p \notin Threads
            /\ cpu.gen = mine[p].gen /\ cpu.eax = mine[p].eax
            /\ cpu.esp = Stack(p, "user", n)
            /\ cpu.KERNEL_STACK[p] = Stack(p, "kernel", 0)
            /\ \/ pc = "user" /\ n = 0
               \/ pc = "iret" /\ Interrupts(cpu.stack[p]["user"], 1, n, "user")
        BY <2>1 DEF UserContext
      <3>2. n <= Len(cpu.stack[p]["user"])
        BY <1>5, <3>1 DEF Interrupts
      <3>3. /\ c \in CPU /\ c.current_running = p
            /\ c.esp = cpu.KERNEL_STACK[p] /\ c.USER_STACK[p] = Stack(p, "user", n + 1)
            /\ c.stack[p]["kernel"] = cpu.stack[p]["kernel"]
            /\ Len(c.stack[p]["user"]) = n + 1
            /\ c.stack[p]["user"][n + 1] = Frame(cpu, pc)
            /\ \A m \in 1..n : c.stack[p]["user"][m] = cpu.stack[p]["user"][m]
            /\ c.nested_count = cpu.nested_count /\ c.saved_count = cpu.saved_count
            /\ c.disable_count = cpu.disable_count + 1 /\ ~c.interrupts
            /\ c.gen = cpu.gen /\ c.eax = cpu.eax
            /\ \A u \in Procs \ {p} : SameSlice(c, cpu, u)
        BY <1>2, <3>1, <3>2, UserEntry
      <3> HIDE DEF c, i, p, n
      <3>4. Interrupts(c.stack[p]["user"], 1, n + 1, "user")
        <4> DEFINE S == cpu.stack[p]["user"]
                   R == c.stack[p]["user"]
                   m == pc
                   lo == 1
        <4>1. /\ \/ n + 1 = lo /\ m = "user"
                 \/ Interrupts(S, lo, n, "user") /\ m = "iret"
              /\ Len(R) = n + 1 /\ \A j \in 1..n : R[j] = S[j]
              /\ R[n + 1].interrupts /\ R[n + 1].to = m
              /\ lo \in Nat \ {0}
          BY <1>5, <1>6, <3>1, <3>3
        <4> HIDE DEF S, R, m, lo
        <4>2. Interrupts(R, lo, n + 1, "user")
          BY <1>5, <4>1, InterruptsGrow
        <4>3. QED
          BY <4>2 DEF R, lo
      <3>5. c.USER_STACK[p].depth = n + 1
        BY <3>3 DEF Stack
      <3>6. UserContext(c, mine, p, "irq0", c.esp, c.gen, c.eax)
        BY <3>1, <3>3, <3>4, <3>5 DEF UserContext
      <3>7. c.esp = Stack(p, "kernel", 0) /\ c.esp.depth = 0
        BY <3>1, <3>3 DEF Stack
      <3>8. c.esp.depth <= Len(c.stack[p]["kernel"])
        BY <1>5, <3>3, <3>7
      <3>9. c.disable_count = 1
        BY <1>3, <3>3
      <3>10. QED
        BY <3>3, <3>6, <3>7, <3>8, <3>9 DEF Context
    <2>2. CASE KernelContext(cpu, mine, p, pc, cpu.esp, cpu.gen)
      <3>1. /\ InKernel(cpu, mine, p) /\ cpu.nested_count[p] = 1
            /\ cpu.gen = <<p, "kernel", mine[p].gen[3]>>
            /\ cpu.esp = Stack(p, "kernel", n)
            /\ \/ pc = "kernel" /\ n = Base(p)
               \/ pc = "iret" /\ Interrupts(cpu.stack[p]["kernel"], Base(p) + 1, n, "kernel")
        BY <1>4, <2>2 DEF KernelContext, InKernel
      <3>2. /\ cpu.esp.of = p /\ cpu.esp.kind = "kernel" /\ Base(p) \in {0, 1}
            /\ p \notin Threads => Base(p) = 1
        BY <3>1 DEF Stack, Base
      <3>3. /\ n >= Base(p) /\ n <= Len(cpu.stack[p]["kernel"])
        <4>1. CASE n = Base(p)
          BY <1>5, <3>1, <3>2, <4>1 DEF InKernel, Base
        <4>2. CASE Interrupts(cpu.stack[p]["kernel"], Base(p) + 1, n, "kernel")
          BY <1>5, <3>2, <4>2 DEF Interrupts
        <4>3. QED
          BY <3>1, <4>1, <4>2
      <3>4. LET o == cpu.esp.of
                k == cpu.esp.kind
            IN  /\ i \in CPU /\ i.esp = Stack(o, k, n + 1)
                /\ \A q \in Procs : q # o => i.stack[q] = cpu.stack[q]
                /\ \A j \in Kinds : j # k => i.stack[o][j] = cpu.stack[o][j]
                /\ Len(i.stack[o][k]) = n + 1 /\ i.stack[o][k][n + 1] = Frame(cpu, pc)
                /\ \A m \in 1..n : i.stack[o][k][m] = cpu.stack[o][k][m]
                /\ SameRest(i, cpu) /\ i.disable_count = cpu.disable_count + 1
                /\ ~i.interrupts /\ i.gen = cpu.gen /\ i.eax = cpu.eax
        <4>1. n <= Len(cpu.stack[cpu.esp.of][cpu.esp.kind])
          BY <3>2, <3>3
        <4>2. QED
          BY <1>2, <4>1, EntryFields
      <3>5. i.current_running = p /\ i.nested_count[p] # 0
        <4>1. SameRest(i, cpu)
          BY <3>4
        <4> HIDE DEF i
        <4>2. i.current_running = p /\ i.nested_count[p] = 1
          BY <3>1, <4>1 DEF SameRest
        <4>3. QED
          BY <4>2
      <3>6. c = i
        BY <3>4, <3>5, SwitchFields
      <3> HIDE DEF c, i, p, n
      <3>7. /\ c.esp = Stack(p, "kernel", n + 1)
            /\ c.stack[p]["user"] = cpu.stack[p]["user"]
            /\ Len(c.stack[p]["kernel"]) = n + 1
            /\ c.stack[p]["kernel"][n + 1] = Frame(cpu, pc)
            /\ \A m \in 1..n : c.stack[p]["kernel"][m] = cpu.stack[p]["kernel"][m]
            /\ \A q \in Procs \ {p} : c.stack[q] = cpu.stack[q]
        BY <3>2, <3>4, <3>6 DEF Kinds
      <3>8. /\ c.current_running = p /\ c.saved_count = cpu.saved_count
            /\ c.USER_STACK = cpu.USER_STACK /\ c.KERNEL_STACK = cpu.KERNEL_STACK
            /\ c.nested_count = cpu.nested_count
        BY <1>2, <3>4, <3>6 DEF SameRest
      <3>9. Interrupts(c.stack[p]["kernel"], Base(p) + 1, n + 1, "kernel")
        <4> DEFINE S == cpu.stack[p]["kernel"]
                   R == c.stack[p]["kernel"]
                   lo == Base(p) + 1
                   m == pc
        <4>1. /\ \/ n + 1 = lo /\ m = "kernel"
                 \/ Interrupts(S, lo, n, "kernel") /\ m = "iret"
              /\ Len(R) = n + 1 /\ \A j \in 1..n : R[j] = S[j]
              /\ R[n + 1].interrupts /\ R[n + 1].to = m
          BY <1>6, <3>1, <3>7
        <4>2. lo \in Nat \ {0}
          BY <3>2
        <4> HIDE DEF S, R, m, lo
        <4>3. Interrupts(R, lo, n + 1, "kernel")
          BY <1>5, <4>1, <4>2, InterruptsGrow
        <4>4. QED
          BY <4>3 DEF R, lo
      <3>10. InKernel(c, mine, p)
        <4>1. p \notin Threads => 1 \in 1..n /\ n + 1 >= 1
          BY <1>5, <3>2, <3>3
        <4>2. QED
          BY <3>1, <3>7, <3>8, <4>1 DEF InKernel
      <3>11. c.esp.depth = n + 1 /\ c.esp.depth \in Nat
        BY <1>5, <3>7 DEF Stack
      <3>12. KernelContext(c, mine, p, "irq0", c.esp, c.gen)
        BY <3>1, <3>4, <3>6, <3>7, <3>9, <3>10, <3>11 DEF KernelContext
      <3>13. \A u \in Procs \ {p} : SameSlice(c, cpu, u)
        BY <3>7, <3>8 DEF SameSlice
      <3>14. c.disable_count = 1 /\ ~c.interrupts /\ c \in CPU
        BY <1>3, <3>4, <3>6
      <3>15. c.esp.depth <= Len(c.stack[p]["kernel"])
        BY <1>5, <3>7, <3>11
      <3>16. QED
        BY <3>7, <3>8, <3>11, <3>12, <3>13, <3>14, <3>15 DEF Context
    <2>3. QED
      BY <1>3, <1>4, <2>1, <2>2 DEF Context
  <1> HIDE DEF c, i, n
  <1>8. c.disable_count = Sections("irq0")
    BY <1>7 DEF Sections
  <1>9. /\ cpu' \in CPU /\ Switching(cpu', mine)
        /\ cpu'.current_running = p /\ cpu'.saved_count = c.saved_count
        /\ \A u \in Procs \ {p} : SameSlice(cpu', c, u)
    BY <1>1, <1>7, <1>8, EntrySuspends
  <1>10. \A u \in Procs \ {p} : SameSlice(cpu', cpu, u)
    BY <1>7, <1>9 DEF SameSlice
  <1>11. RunningInv'
    BY <1>1, <1>9 DEF RunningInv
  <1>12. QED
    BY <1>1, <1>2, <1>7, <1>9, <1>10, <1>11, OwnStep

-----------------------------------------------------------------------------
\* What is known of a process in user code
LEMMA UserCode ==
  ASSUME NEW c \in CPU, NEW h, NEW q \in Procs, Context(c, h, q, "user", c.esp, c.gen, c.eax)
  PROVE  /\ q \notin Threads /\ c.nested_count[q] = 0
         /\ c.gen = h[q].gen /\ c.eax = h[q].eax /\ c.esp = Stack(q, "user", 0)
         /\ c.KERNEL_STACK[q] = Stack(q, "kernel", 0)
  <1>1. UserContext(c, h, q, "user", c.esp, c.gen, c.eax)
    BY DEF Context, KernelContext
  <1>2. QED
    BY <1>1 DEF UserContext

\* A system call leaves the way back on both stacks of the process.
LEMMA SyscallIInv ==
  ASSUME IInv, NEW x \in Arguments, Syscall(x)
  PROVE  IInv'
  <1> DEFINE p == cpu.current_running
             g == <<p, "user", x>>
             k == <<p, "kernel", x>>
             user == [cpu EXCEPT !.gen = g]
             c == switch_to_kernel_stack(enter_critical(Interrupted(user, "user")))
             f == Frame(c, "ret")
             b == Push(c, f)
             helper == [b EXCEPT !.nested_count[p] = @ + 1, !.gen = k]
  <1>1. /\ pc = "user" /\ cpu' = leave_critical(helper) /\ pc' = "kernel"
        /\ mine' = [mine EXCEPT ![p].gen = g] /\ UNCHANGED started
    BY DEF Syscall
  <1>2. /\ cpu \in CPU /\ mine \in Histories /\ p \in Procs /\ Active(cpu, mine, "user")
        /\ p = cpu.current_running
    BY <1>1, RunningFacts
  <1>3. /\ cpu.disable_count = 0 /\ cpu.interrupts
        /\ Context(cpu, mine, p, "user", cpu.esp, cpu.gen, cpu.eax)
    BY <1>2 DEF Active, Sections
  <1>4. /\ p \notin Threads /\ cpu.nested_count[p] = 0 /\ cpu.esp = Stack(p, "user", 0)
        /\ cpu.KERNEL_STACK[p] = Stack(p, "kernel", 0) /\ Mode(p) = "user"
    <2>1. /\ p \notin Threads /\ cpu.nested_count[p] = 0 /\ cpu.esp = Stack(p, "user", 0)
          /\ cpu.KERNEL_STACK[p] = Stack(p, "kernel", 0)
      <3> HIDE DEF p
      <3>1. QED
        BY <1>2, <1>3, UserCode
    <2>2. QED
      BY <2>1 DEF Mode
  <1>5. g \in Gens /\ k \in Gens /\ g[3] = x
    BY <1>2 DEF Gens, Kinds
  <1>6. /\ mine' \in Histories /\ mine'[p].gen = g /\ mine'[p].eax = mine[p].eax
        /\ \A q \in Procs \ {p} : mine'[q] = mine[q]
    <2> HIDE DEF g, p
    <2>1. QED
      BY <1>1, <1>2, <1>5 DEF Histories
  <1> HIDE DEF g, k
  <1>7. /\ user \in CPU /\ user.gen = g /\ user.esp = cpu.esp /\ user.stack = cpu.stack
        /\ SameRest(user, cpu) /\ user.disable_count = 0 /\ user.interrupts
    BY <1>2, <1>3, <1>5 DEF CPU, SameRest
  <1> HIDE DEF user
  <1>8. /\ user.current_running = p /\ user.nested_count[p] = 0
        /\ user.esp = Stack(p, "user", 0) /\ user.esp.depth = 0
        /\ user.KERNEL_STACK[p] = Stack(p, "kernel", 0) /\ user.saved_count = cpu.saved_count
        /\ \A q : SameSlice(user, cpu, q)
    BY <1>2, <1>4, <1>7 DEF SameRest, SameSlice, Stack
  <1>9. 0 <= Len(user.stack[p]["user"]) /\ 0 <= Len(user.stack[p]["kernel"]) /\ "user" \in Labels
    <2>1. user.stack[p]["user"] \in Seq(FrameSet) /\ user.stack[p]["kernel"] \in Seq(FrameSet)
      <3>1. user.stack \in [Procs -> [Kinds -> Seq(FrameSet)]]
        BY <1>7 DEF CPU
      <3> HIDE DEF p
      <3>2. QED
        BY <1>2, <3>1 DEF Kinds
    <2>2. Len(user.stack[p]["user"]) \in Nat /\ Len(user.stack[p]["kernel"]) \in Nat
      <3>1. \A s \in Seq(FrameSet) : Len(s) \in Nat
        OBVIOUS
      <3>2. QED
        BY <2>1, <3>1, Zenon
    <2>3. "user" \in Labels
      BY DEF Labels
    <2>4. QED
      BY <2>2, <2>3
  <1>10. /\ c \in CPU /\ c.current_running = p
         /\ c.esp = Stack(p, "kernel", 0) /\ c.USER_STACK[p] = Stack(p, "user", 0 + 1)
         /\ c.stack[p]["kernel"] = user.stack[p]["kernel"]
         /\ Len(c.stack[p]["user"]) = 0 + 1 /\ c.stack[p]["user"][0 + 1] = Frame(user, "user")
         /\ c.nested_count = user.nested_count /\ c.saved_count = user.saved_count
         /\ c.disable_count = 0 + 1 /\ ~c.interrupts /\ c.gen = g
         /\ \A u \in Procs \ {p} : SameSlice(c, user, u)
    <2> DEFINE n == user.esp.depth
    <2>1. n = 0 /\ user.esp = Stack(p, "user", n) /\ n <= Len(user.stack[p]["user"])
      BY <1>8, <1>9
    <2>2. /\ c \in CPU /\ c.current_running = p
          /\ c.esp = user.KERNEL_STACK[p] /\ c.USER_STACK[p] = Stack(p, "user", n + 1)
          /\ c.stack[p]["kernel"] = user.stack[p]["kernel"]
          /\ Len(c.stack[p]["user"]) = n + 1 /\ c.stack[p]["user"][n + 1] = Frame(user, "user")
          /\ c.nested_count = user.nested_count /\ c.saved_count = user.saved_count
          /\ c.disable_count = user.disable_count + 1 /\ ~c.interrupts /\ c.gen = user.gen
          /\ \A u \in Procs \ {p} : SameSlice(c, user, u)
      <3> DEFINE o == user.current_running
      <3>1. o = p
        BY <1>8
      <3>2. /\ user.nested_count[o] = 0 /\ user.esp = Stack(o, "user", n)
            /\ n <= Len(user.stack[o]["user"])
        BY <1>8, <2>1, <3>1
      <3>3. /\ c \in CPU /\ c.current_running = o
            /\ c.esp = user.KERNEL_STACK[o] /\ c.USER_STACK[o] = Stack(o, "user", n + 1)
            /\ c.stack[o]["kernel"] = user.stack[o]["kernel"]
            /\ Len(c.stack[o]["user"]) = n + 1
            /\ c.stack[o]["user"][n + 1] = Frame(user, "user")
            /\ c.nested_count = user.nested_count /\ c.saved_count = user.saved_count
            /\ c.disable_count = user.disable_count + 1 /\ ~c.interrupts /\ c.gen = user.gen
            /\ \A u \in Procs \ {o} : SameSlice(c, user, u)
        BY <1>7, <1>9, <3>2, UserEntry
      <3> HIDE DEF o, c, n, p
      <3>4. QED
        BY <3>1, <3>3
    <2> HIDE DEF c, n
    <2>3. QED
      BY <1>7, <1>8, <2>1, <2>2
  <1>11. Frame(user, "user").interrupts /\ Frame(user, "user").to = "user"
    BY <1>7, <1>9, FrameType
  <1> HIDE DEF c
  <1>12. Interrupts(c.stack[p]["user"], 1, 1, "user") /\ c.USER_STACK[p] = Stack(p, "user", 1)
    BY <1>10, <1>11 DEF Interrupts
  <1>13. f \in FrameSet /\ f.gen = g
    BY <1>10, FrameType DEF Labels
  <1>14. c.esp.of = p /\ c.esp.kind = "kernel" /\ c.esp.depth = 0
    BY <1>10 DEF Stack
  <1> HIDE DEF f
  <1>15. /\ b \in CPU /\ b.esp = Stack(p, "kernel", 0 + 1)
         /\ \A q \in Procs : q # p => b.stack[q] = c.stack[q]
         /\ \A j \in Kinds : j # "kernel" => b.stack[p][j] = c.stack[p][j]
         /\ Len(b.stack[p]["kernel"]) = 0 + 1 /\ b.stack[p]["kernel"][0 + 1] = f
         /\ SameRest(b, c) /\ b.disable_count = c.disable_count
         /\ b.interrupts = c.interrupts
    <2>1. c.esp.depth <= Len(c.stack[c.esp.of][c.esp.kind])
      BY <1>9, <1>10, <1>14
    <2>2. LET o == c.esp.of
              j == c.esp.kind
              n == c.esp.depth
          IN  /\ b \in CPU /\ b.esp = Stack(o, j, n + 1)
              /\ \A q \in Procs : q # o => b.stack[q] = c.stack[q]
              /\ \A m \in Kinds : m # j => b.stack[o][m] = c.stack[o][m]
              /\ Len(b.stack[o][j]) = n + 1 /\ b.stack[o][j][n + 1] = f
              /\ SameRest(b, c) /\ b.disable_count = c.disable_count
              /\ b.interrupts = c.interrupts
      BY <1>10, <1>13, <2>1, PushFields
    <2> HIDE DEF b
    <2>3. QED
      BY <1>14, <2>2
  <1>16. helper = [b EXCEPT !.nested_count = [b.nested_count EXCEPT ![p] = b.nested_count[p] + 1],
                            !.gen = k]
    OBVIOUS
  <1> HIDE DEF b, helper, p
  <1>17. /\ b.nested_count \in [Procs -> Nat] /\ b.nested_count[p] = 0
         /\ b.current_running = p /\ b.saved_count = cpu.saved_count
         /\ b.disable_count = 1 /\ ~b.interrupts
         /\ b.USER_STACK[p] = Stack(p, "user", 1)
         /\ b.stack[p]["user"] = c.stack[p]["user"]
    BY <1>8, <1>10, <1>12, <1>15 DEF CPU, SameRest, Kinds
  <1>18. \A q \in Procs \ {p} : SameSlice(b, cpu, q)
    BY <1>8, <1>10, <1>15 DEF SameSlice, SameRest
  <1>19. /\ helper \in CPU /\ helper.esp = b.esp /\ helper.stack = b.stack /\ helper.gen = k
         /\ helper.current_running = p /\ helper.saved_count = cpu.saved_count
         /\ helper.disable_count = 1 /\ ~helper.interrupts
         /\ helper.USER_STACK = b.USER_STACK /\ helper.KERNEL_STACK = b.KERNEL_STACK
         /\ helper.nested_count[p] = 1
         /\ \A q \in Procs \ {p} : helper.nested_count[q] = b.nested_count[q]
    <2> DEFINE nc == [b.nested_count EXCEPT ![p] = b.nested_count[p] + 1]
    <2>1. /\ nc \in [Procs -> Nat] /\ nc[p] = 1
          /\ \A q \in Procs \ {p} : nc[q] = b.nested_count[q]
      BY <1>2, <1>17
    <2> HIDE DEF nc
    <2>2. helper = [b EXCEPT !.nested_count = nc, !.gen = k]
      BY <1>16 DEF nc
    <2>3. /\ helper \in CPU /\ helper.esp = b.esp /\ helper.stack = b.stack /\ helper.gen = k
          /\ helper.current_running = b.current_running
          /\ helper.saved_count = b.saved_count
          /\ helper.disable_count = b.disable_count /\ helper.interrupts = b.interrupts
          /\ helper.USER_STACK = b.USER_STACK /\ helper.KERNEL_STACK = b.KERNEL_STACK
          /\ helper.nested_count = nc
      BY <1>5, <1>15, <2>1, <2>2 DEF CPU
    <2>4. QED
      BY <1>17, <2>1, <2>3
  <1>20. /\ cpu' \in CPU /\ cpu'.disable_count = 0 /\ cpu'.interrupts
         /\ cpu'.stack = helper.stack /\ cpu'.esp = helper.esp /\ cpu'.gen = helper.gen
         /\ SameRest(cpu', helper)
    BY <1>1, <1>19, CriticalFields
  <1>21. /\ cpu'.esp = Stack(p, "kernel", 1) /\ cpu'.gen = k
         /\ cpu'.current_running = p /\ cpu'.saved_count = cpu.saved_count
         /\ cpu'.nested_count[p] = 1 /\ cpu'.USER_STACK[p] = Stack(p, "user", 1)
         /\ cpu'.stack[p]["user"] = c.stack[p]["user"]
         /\ Len(cpu'.stack[p]["kernel"]) = 1 /\ cpu'.stack[p]["kernel"][1] = f
    BY <1>15, <1>17, <1>19, <1>20 DEF SameRest
  <1>22. \A q \in Procs \ {p} : SameSlice(cpu', cpu, q)
    BY <1>18, <1>19, <1>20 DEF SameSlice, SameRest
  <1>23. KernelContext(cpu', mine', p, "kernel", cpu'.esp, cpu'.gen)
    <2>1. InKernel(cpu', mine', p)
      BY <1>6, <1>12, <1>13, <1>21 DEF InKernel
    <2>2. cpu'.esp.depth = 1 /\ Base(p) = 1
      BY <1>4, <1>21 DEF Stack, Base
    <2>3. k = <<p, "kernel", mine'[p].gen[3]>>
      BY <1>5, <1>6 DEF k
    <2>4. QED
      BY <1>21, <2>1, <2>2, <2>3 DEF KernelContext
  <1>24. Active(cpu', mine', "kernel")
    BY <1>20, <1>21, <1>23 DEF Active, Context, Sections
  <1>25. RunningInv' /\ pc' \in Labels
    BY <1>1, <1>24 DEF RunningInv, Labels
  <1>26. mine'[p].gen = <<p, Mode(p), mine'[p].gen[3]>>
    BY <1>4, <1>5, <1>6 DEF g
  <1>27. QED
    BY <1>1, <1>2, <1>6, <1>20, <1>21, <1>22, <1>25, <1>26, OwnStep

\* The end of a system call takes the registers of the user code from the kernel
\* stack and keeps the result in syscall_return_val.
LEMMA SyscallReturnsIInv ==
  ASSUME IInv, SyscallReturns
  PROVE  IInv'
  <1> DEFINE p == cpu.current_running
             v == <<p, cpu.gen[3]>>
             a == enter_critical(cpu)
             done == [a EXCEPT !.nested_count[p] = @ - 1, !.syscall_return_val = v]
             f == Top(done)
             b == Pop(done)
  <1>1. /\ pc = "kernel" /\ p \notin Threads /\ cpu' = RestoreRegs(done) /\ pc' = "ret"
        /\ mine' = [mine EXCEPT ![p].eax = <<p, mine[p].gen[3]>>] /\ UNCHANGED started
    BY DEF SyscallReturns
  <1>2. /\ cpu \in CPU /\ mine \in Histories /\ p \in Procs /\ Active(cpu, mine, "kernel")
        /\ mine[p].gen = <<p, Mode(p), mine[p].gen[3]>> /\ p = cpu.current_running
    BY <1>1, RunningFacts
  <1>3. /\ cpu.disable_count = 0
        /\ Context(cpu, mine, p, "kernel", cpu.esp, cpu.gen, cpu.eax)
    BY <1>2 DEF Active, Sections
  <1>4. /\ KernelContext(cpu, mine, p, "kernel", cpu.esp, cpu.gen)
        /\ cpu.esp = Stack(p, "kernel", 1)
    BY <1>1, <1>2, <1>3, KernelCode DEF Base
  <1>5. /\ cpu.nested_count[p] = 1 /\ cpu.USER_STACK[p] = Stack(p, "user", 1)
        /\ Interrupts(cpu.stack[p]["user"], 1, 1, "user")
        /\ Len(cpu.stack[p]["kernel"]) >= 1
        /\ cpu.stack[p]["kernel"][1].gen = mine[p].gen
        /\ cpu.gen = <<p, "kernel", mine[p].gen[3]>>
    BY <1>1, <1>4 DEF KernelContext, InKernel
  <1>6. v \in Values /\ v = <<p, mine[p].gen[3]>>
    <2>1. mine[p].gen \in Gens
      BY <1>2 DEF Histories
    <2>2. mine[p].gen[3] \in Arguments
      BY <2>1 DEF Gens
    <2>3. QED
      BY <1>2, <1>5, <2>2 DEF Values
  <1> HIDE DEF v
  <1>7. /\ mine' \in Histories /\ mine'[p].gen = mine[p].gen /\ mine'[p].eax = v
        /\ \A q \in Procs \ {p} : mine'[q] = mine[q]
    <2>1. mine' = [mine EXCEPT ![p].eax = v]
      BY <1>1, <1>6
    <2> HIDE DEF p
    <2>2. QED
      BY <1>2, <1>6, <2>1 DEF Histories
  <1>8. /\ a \in CPU /\ a.disable_count = 1 /\ ~a.interrupts
        /\ a.stack = cpu.stack /\ a.esp = cpu.esp /\ a.gen = cpu.gen /\ a.eax = cpu.eax
        /\ SameRest(a, cpu)
    BY <1>2, <1>3, CriticalFields
  <1>9. done = [a EXCEPT !.nested_count = [a.nested_count EXCEPT ![p] = a.nested_count[p] - 1],
                         !.syscall_return_val = v]
    OBVIOUS
  <1> HIDE DEF a, done, p
  <1>10. a.nested_count[p] = 1 /\ a.nested_count \in [Procs -> Nat]
    BY <1>5, <1>8 DEF CPU, SameRest
  <1>11. /\ done \in CPU /\ done.stack = cpu.stack /\ done.esp = cpu.esp
         /\ done.disable_count = 1 /\ ~done.interrupts
         /\ done.current_running = p /\ done.saved_count = cpu.saved_count
         /\ done.USER_STACK = cpu.USER_STACK /\ done.KERNEL_STACK = cpu.KERNEL_STACK
         /\ done.nested_count[p] = 0 /\ done.syscall_return_val = v
         /\ \A q \in Procs \ {p} : done.nested_count[q] = cpu.nested_count[q]
    <2> DEFINE nc == [a.nested_count EXCEPT ![p] = a.nested_count[p] - 1]
    <2>1. /\ nc \in [Procs -> Nat] /\ nc[p] = 0
          /\ \A q \in Procs \ {p} : nc[q] = a.nested_count[q]
      BY <1>2, <1>10
    <2> HIDE DEF nc
    <2>2. done = [a EXCEPT !.nested_count = nc, !.syscall_return_val = v]
      BY <1>9 DEF nc
    <2>3. /\ done \in CPU /\ done.stack = a.stack /\ done.esp = a.esp
          /\ done.disable_count = a.disable_count /\ done.interrupts = a.interrupts
          /\ done.current_running = a.current_running /\ done.saved_count = a.saved_count
          /\ done.USER_STACK = a.USER_STACK /\ done.KERNEL_STACK = a.KERNEL_STACK
          /\ done.nested_count = nc /\ done.syscall_return_val = v
      BY <1>6, <1>8, <2>1, <2>2 DEF CPU
    <2>4. QED
      BY <1>2, <1>8, <2>1, <2>3 DEF SameRest
  <1>12. /\ done.esp.of = p /\ done.esp.kind = "kernel" /\ done.esp.depth = 1
         /\ f = cpu.stack[p]["kernel"][1]
    BY <1>4, <1>11 DEF Stack, Top
  <1>13. f \in FrameSet /\ f.gen = mine[p].gen
    <2>1. cpu.stack[p]["kernel"] \in Seq(FrameSet)
      BY <1>2 DEF CPU, Kinds
    <2>2. cpu.stack[p]["kernel"][1] \in FrameSet
      BY <1>5, <2>1
    <2>3. QED
      BY <1>5, <1>12, <2>2
  <1>14. /\ b \in CPU /\ b.esp = Stack(p, "kernel", 0) /\ b.stack = done.stack
         /\ SameRest(b, done) /\ b.disable_count = done.disable_count
         /\ b.interrupts = done.interrupts
    <2>1. done.esp.depth >= 1 /\ done.esp.depth - 1 = 0
      BY <1>12
    <2>2. QED
      BY <1>11, <1>12, <2>1, PopFields
  <1>15. cpu' = [b EXCEPT !.gen = f.gen, !.eax = f.eax]
    BY <1>1 DEF RestoreRegs
  <1> HIDE DEF b, f
  <1>16. f.gen \in Gens /\ f.eax \in Values
    BY <1>13 DEF FrameSet
  <1>17. /\ cpu' \in CPU /\ cpu'.gen = f.gen /\ cpu'.esp = b.esp /\ cpu'.stack = b.stack
         /\ SameRest(cpu', b) /\ cpu'.disable_count = b.disable_count
         /\ cpu'.interrupts = b.interrupts
    BY <1>14, <1>15, <1>16 DEF CPU, SameRest
  <1>18. /\ cpu'.gen = mine'[p].gen /\ cpu'.esp = Stack(p, "kernel", 0)
         /\ cpu'.disable_count = 1 /\ ~cpu'.interrupts
         /\ cpu'.current_running = p /\ cpu'.saved_count = cpu.saved_count
         /\ cpu'.nested_count[p] = 0 /\ cpu'.USER_STACK[p] = Stack(p, "user", 1)
         /\ cpu'.stack[p]["user"] = cpu.stack[p]["user"]
         /\ cpu'.syscall_return_val = mine'[p].eax
    BY <1>5, <1>7, <1>11, <1>13, <1>14, <1>17 DEF SameRest
  <1>19. \A q \in Procs \ {p} : SameSlice(cpu', cpu, q)
    BY <1>11, <1>14, <1>17 DEF SameSlice, SameRest
  <1>20. UserContext(cpu', mine', p, "ret", cpu'.esp, cpu'.gen, cpu'.eax)
    <2>1. cpu'.USER_STACK[p].depth = 1
      BY <1>18 DEF Stack
    <2>2. QED
      BY <1>1, <1>5, <1>18, <2>1 DEF UserContext
  <1>21. Active(cpu', mine', "ret")
    BY <1>18, <1>20 DEF Active, Context, Sections
  <1>22. RunningInv' /\ pc' \in Labels
    BY <1>1, <1>21 DEF RunningInv, Labels
  <1>23. QED
    BY <1>1, <1>2, <1>7, <1>17, <1>18, <1>19, <1>22, OwnStep

\* The rest of syscall_entry takes the result and goes back to the user code; it is
\* in one critical section, so leave_critical_delayed() raises no exception.
LEMMA SyscallIretIInv ==
  ASSUME IInv, SyscallIret
  PROVE  IInv'
  <1> DEFINE p == cpu.current_running
             a == [cpu EXCEPT !.eax = cpu.syscall_return_val]
             s == switch_to_user_stack(a)
             c == leave_critical_delayed(s)
  <1>1. /\ pc = "ret" /\ UNCHANGED <<started, mine>>
        /\ cpu' = IF c.disable_count = 0 THEN Iret(c) ELSE c
        /\ pc' = IF c.disable_count = 0 THEN Top(c).to ELSE "exception_1"
    BY DEF SyscallIret
  <1>2. /\ cpu \in CPU /\ mine \in Histories /\ p \in Procs /\ Active(cpu, mine, "ret")
        /\ mine[p].gen = <<p, Mode(p), mine[p].gen[3]>> /\ p = cpu.current_running
    BY <1>1, RunningFacts
  <1>3. /\ cpu.disable_count = 1 /\ ~cpu.interrupts
        /\ cpu.syscall_return_val = mine[p].eax
        /\ Context(cpu, mine, p, "ret", cpu.esp, cpu.gen, cpu.eax)
    BY <1>2 DEF Active, Sections
  <1>4. /\ p \notin Threads /\ cpu.nested_count[p] = 0 /\ cpu.gen = mine[p].gen
        /\ cpu.esp = Stack(p, "kernel", 0) /\ cpu.USER_STACK[p] = Stack(p, "user", 1)
        /\ Interrupts(cpu.stack[p]["user"], 1, 1, "user")
    <2>1. UserContext(cpu, mine, p, "ret", cpu.esp, cpu.gen, cpu.eax)
      BY <1>3 DEF Context, KernelContext
    <2>2. QED
      BY <2>1 DEF UserContext
  <1>5. /\ a \in CPU /\ a.eax = mine[p].eax /\ a.gen = cpu.gen /\ a.esp = cpu.esp
        /\ a.stack = cpu.stack /\ SameRest(a, cpu)
        /\ a.disable_count = cpu.disable_count /\ a.interrupts = cpu.interrupts
    BY <1>2, <1>3 DEF CPU, SameRest
  <1> HIDE DEF a
  <1>6. a.current_running = p /\ a.nested_count[p] = 0
    BY <1>4, <1>5 DEF SameRest
  <1>7. /\ s \in CPU /\ SameCode(s, a) /\ s.esp = a.USER_STACK[p]
        /\ s.USER_STACK = a.USER_STACK /\ s.KERNEL_STACK[p] = a.esp
        /\ \A q \in Procs \ {p} : s.KERNEL_STACK[q] = a.KERNEL_STACK[q]
    BY <1>5, <1>6, SwitchFields
  <1> HIDE DEF s
  <1>8. c = [s EXCEPT !.disable_count = 0] /\ s.disable_count = 1
    <2>1. s.disable_count = 1
      BY <1>3, <1>5, <1>7 DEF SameCode
    <2>2. QED
      BY <2>1 DEF leave_critical_delayed
  <1> HIDE DEF c, p
  <1>9. /\ c \in CPU /\ c.disable_count = 0 /\ c.esp = s.esp /\ SameSlice(c, s, p)
        /\ c.current_running = s.current_running /\ c.saved_count = s.saved_count
        /\ c.gen = s.gen /\ c.eax = s.eax /\ c.stack = s.stack
        /\ c.USER_STACK = s.USER_STACK /\ c.KERNEL_STACK = s.KERNEL_STACK
        /\ c.nested_count = s.nested_count
    BY <1>7, <1>8 DEF CPU, SameSlice
  <1>10. /\ c.esp = Stack(p, "user", 1) /\ c.KERNEL_STACK[p] = Stack(p, "kernel", 0)
         /\ c.current_running = p /\ c.saved_count = cpu.saved_count
         /\ c.gen = mine[p].gen /\ c.eax = mine[p].eax /\ c.stack = cpu.stack
         /\ c.nested_count[p] = 0
    BY <1>4, <1>5, <1>6, <1>7, <1>9 DEF SameRest, SameCode
  <1>11. \A q \in Procs \ {p} : SameSlice(c, cpu, q)
    BY <1>5, <1>7, <1>9 DEF SameSlice, SameRest, SameCode
  <1>12. /\ c.esp.of = p /\ c.esp.kind = "user" /\ c.esp.depth = 1
         /\ Top(c) = cpu.stack[p]["user"][1]
    BY <1>10 DEF Stack, Top
  <1>13. Top(c).interrupts /\ Top(c).to = "user" /\ 1 <= Len(cpu.stack[p]["user"])
    BY <1>4, <1>12 DEF Interrupts
  <1>14. /\ cpu' = Iret(c) /\ pc' = "user"
    BY <1>1, <1>9, <1>13
  <1>15. /\ cpu' \in CPU /\ cpu'.esp = Stack(p, "user", 0) /\ cpu'.stack = c.stack
         /\ SameRest(cpu', c) /\ cpu'.disable_count = c.disable_count
         /\ cpu'.gen = c.gen /\ cpu'.eax = c.eax /\ cpu'.interrupts
    <2>1. /\ c.esp.depth >= 1 /\ c.esp.depth - 1 = 0
          /\ c.esp.depth <= Len(c.stack[c.esp.of][c.esp.kind])
      BY <1>10, <1>12, <1>13
    <2>2. QED
      BY <1>9, <1>12, <1>13, <1>14, <2>1, IretFields
  <1>16. /\ cpu'.current_running = p /\ cpu'.saved_count = cpu.saved_count
         /\ cpu'.disable_count = 0
         /\ \A q \in Procs \ {p} : SameSlice(cpu', cpu, q)
    BY <1>9, <1>10, <1>11, <1>15 DEF SameRest, SameSlice
  <1>17. UserContext(cpu', mine, p, "user", cpu'.esp, cpu'.gen, cpu'.eax)
    <2>1. cpu'.esp.depth = 0
      BY <1>15 DEF Stack
    <2>2. QED
      BY <1>4, <1>10, <1>15, <2>1 DEF UserContext, SameRest
  <1>18. Active(cpu', mine', "user")
    BY <1>1, <1>15, <1>16, <1>17 DEF Active, Context, Sections
  <1>19. RunningInv' /\ pc' \in Labels
    BY <1>14, <1>18 DEF RunningInv, Labels
  <1>20. QED
    BY <1>1, <1>2, <1>15, <1>16, <1>19, OwnStep

-----------------------------------------------------------------------------
LEMMA InitIInv == Init => IInv
  <1> SUFFICES ASSUME Init PROVE IInv
    OBVIOUS
  <1>1. PICK p \in Procs :
          /\ cpu = [current_running |-> p,
                    disable_count |-> 0, interrupts |-> TRUE,
                    gen |-> <<p, Mode(p), 0>>, eax |-> <<p, 0>>,
                    esp |-> Stack(p, Mode(p), 0),
                    stack |-> [q \in Procs |-> [kind \in {"user", "kernel"} |-> <<>>]],
                    USER_STACK |-> [q \in Procs |-> Stack(q, "user", 0)],
                    KERNEL_STACK |-> [q \in Procs |-> Stack(q, "kernel", 0)],
                    nested_count |-> [q \in Procs |-> IF q \in Threads THEN 1 ELSE 0],
                    syscall_return_val |-> <<p, 0>>,
                    saved_count |-> [q \in Procs |-> 0]]
          /\ pc = Mode(p) /\ started = {p}
          /\ mine = [q \in Procs |-> [gen |-> <<q, Mode(q), 0>>, eax |-> <<q, 0>>]]
    BY DEF Init
  <1>2. \A q \in Procs : /\ Mode(q) \in Kinds /\ <<q, Mode(q), 0>> \in Gens
                         /\ <<q, 0>> \in Values /\ <<q, Mode(q), 0>>[3] = 0
    BY ContextSwitchAssumption DEF Mode, Kinds, Gens, Values
  <1>3. \A q \in Procs, k \in Kinds : Stack(q, k, 0) \in Pointers
    BY DEF Stack, Pointers
  <1>4. Stack(p, Mode(p), 0) \in Pointers
    BY <1>2, <1>3
  <1>5. /\ [q \in Procs |-> [kind \in {"user", "kernel"} |-> <<>>]]
             \in [Procs -> [Kinds -> Seq(FrameSet)]]
        /\ [q \in Procs |-> Stack(q, "user", 0)] \in [Procs -> Pointers]
        /\ [q \in Procs |-> Stack(q, "kernel", 0)] \in [Procs -> Pointers]
        /\ [q \in Procs |-> IF q \in Threads THEN 1 ELSE 0] \in [Procs -> Nat]
        /\ [q \in Procs |-> 0] \in [Procs -> Nat]
    BY <1>3 DEF Kinds
  <1>6. cpu \in CPU
    BY <1>1, <1>2, <1>4, <1>5 DEF CPU
  <1>7. /\ mine \in Histories
        /\ \A q \in Procs : mine[q].gen = <<q, Mode(q), 0>> /\ mine[q].eax = <<q, 0>>
    BY <1>1, <1>2 DEF Histories
  <1>8. \A q \in Procs : mine[q].gen[3] = 0
    BY <1>2, <1>7
  <1>9. pc \in Labels /\ pc # "sched" /\ pc # "ret" /\ Sections(pc) = 0
    BY <1>1 DEF Mode, Labels, Sections
  <1>10. /\ cpu.current_running = p /\ cpu.disable_count = 0 /\ cpu.interrupts
         /\ cpu.gen = <<p, Mode(p), 0>> /\ cpu.eax = <<p, 0>>
         /\ cpu.esp = Stack(p, Mode(p), 0)
         /\ \A q \in Procs : /\ cpu.KERNEL_STACK[q] = Stack(q, "kernel", 0)
                             /\ cpu.nested_count[q] = IF q \in Threads THEN 1 ELSE 0
                             /\ cpu.saved_count[q] = 0
    BY <1>1
  <1>11. TypeInv
    BY <1>1, <1>6, <1>7, <1>8, <1>9, <1>10 DEF TypeInv
  <1>12. OthersInv
    BY <1>1, <1>10 DEF OthersInv, Fresh
  <1>13. Context(cpu, mine, p, pc, cpu.esp, cpu.gen, cpu.eax)
    <2>1. cpu.esp.depth = 0
      BY <1>10 DEF Stack
    <2>2. CASE p \in Threads
      <3>1. Mode(p) = "kernel" /\ Base(p) = 0
        BY <2>2 DEF Mode, Base
      <3>2. KernelContext(cpu, mine, p, "kernel", cpu.esp, cpu.gen)
        BY <1>8, <1>10, <2>1, <2>2, <3>1 DEF KernelContext, InKernel
      <3>3. QED
        BY <1>1, <3>1, <3>2 DEF Context
    <2>3. CASE p \notin Threads
      <3>1. Mode(p) = "user"
        BY <2>3 DEF Mode
      <3>2. UserContext(cpu, mine, p, "user", cpu.esp, cpu.gen, cpu.eax)
        BY <1>7, <1>10, <2>1, <2>3, <3>1 DEF UserContext
      <3>3. QED
        BY <1>1, <3>1, <3>2 DEF Context
    <2>4. QED
      BY <2>2, <2>3
  <1>14. RunningInv
    BY <1>9, <1>10, <1>13 DEF RunningInv, Active
  <1>15. QED
    BY <1>11, <1>12, <1>14 DEF IInv

LEMMA NextIInv == IInv /\ [Next]_vars => IInv'
  <1> SUFFICES ASSUME IInv, [Next]_vars PROVE IInv'
    OBVIOUS
  <1>1. ASSUME UNCHANGED vars PROVE IInv'
    BY <1>1 DEF vars, IInv, TypeInv, RunningInv, OthersInv
  <1>2. ASSUME Next PROVE IInv'
    <2>1. CASE Irq0 \/ Irq0Returns \/ Irq0Iret
      BY <2>1, Irq0IInv, Irq0ReturnsIInv, Irq0IretIInv
    <2>2. ASSUME NEW q \in Procs, Resume(q) \/ Start(q) PROVE IInv'
      BY <2>2, ResumeIInv, StartIInv
    <2>3. ASSUME NEW d \in {1, 2}, GiveUp(d) PROVE IInv'
      BY <2>3, GiveUpIInv
    <2>4. CASE GoOn
      BY <2>4, GoOnIInv
    <2>5. ASSUME NEW x \in Arguments, Syscall(x) PROVE IInv'
      BY <2>5, SyscallIInv
    <2>6. CASE SyscallReturns \/ SyscallIret
      BY <2>6, SyscallReturnsIInv, SyscallIretIInv
    <2>7. QED
      BY <1>2, <2>1, <2>2, <2>3, <2>4, <2>5, <2>6 DEF Next
  <1>3. QED
    BY <1>1, <1>2

\* At each place of the entries the stacks, the registers and the critical sections
\* of every process are as expected.
LEMMA Invariance == Spec => []IInv
  BY InitIInv, NextIInv, PTL DEF Spec

\* A process goes on with its own registers, the result of its own system call and
\* its own stacks, for any number of processes and threads and any nesting of
\* system calls, timer interrupts and switches in entry.S.
THEOREM ContextIsKept == Spec => []OwnContext
  <1>1. IInv => OwnContext
    <2> SUFFICES ASSUME IInv PROVE OwnContext
      OBVIOUS
    <2> DEFINE p == cpu.current_running
    <2>1. /\ cpu \in CPU /\ p \in Procs
          /\ pc # "sched" => Context(cpu, mine, p, pc, cpu.esp, cpu.gen, cpu.eax)
      BY RunningFacts DEF Active
    <2>2. ASSUME pc = "user"
          PROVE  /\ cpu.gen = mine[p].gen /\ cpu.eax = mine[p].eax
                 /\ cpu.esp = Stack(p, "user", 0)
                 /\ cpu.KERNEL_STACK[p] = Stack(p, "kernel", 0) /\ cpu.nested_count[p] = 0
      BY <2>1, <2>2, UserCode
    <2>3. ASSUME pc = "kernel"
          PROVE  /\ cpu.gen = <<p, "kernel", mine[p].gen[3]>>
                 /\ cpu.esp = Stack(p, "kernel", IF p \in Threads THEN 0 ELSE 1)
      <3>1. Context(cpu, mine, p, "kernel", cpu.esp, cpu.gen, cpu.eax)
        BY <2>1, <2>3
      <3>2. /\ KernelContext(cpu, mine, p, "kernel", cpu.esp, cpu.gen)
            /\ cpu.esp = Stack(p, "kernel", Base(p))
        BY <2>1, <3>1, KernelCode
      <3>3. QED
        BY <3>2 DEF KernelContext, Base
    <2>4. QED
      BY <2>2, <2>3 DEF OwnContext
  <1>2. QED
    BY <1>1, Invariance, PTL

\* The critical sections are balanced on every path through entry.S and the
\* scheduler: leave_critical_delayed() never finds another count than one.
THEOREM SectionsBalance == Spec => []InterruptsBalanced
  <1>1. IInv => InterruptsBalanced
    <2> SUFFICES ASSUME IInv PROVE InterruptsBalanced
      OBVIOUS
    <2>1. CASE pc = "sched"
      <3>1. /\ ~cpu.interrupts
            /\ Suspended(cpu, mine, cpu.current_running, cpu.disable_count)
        BY <2>1, RunningFacts DEF Switching
      <3>2. PICK l \in {"irq0", "crit1", "crit2"} : cpu.disable_count = Sections(l)
        BY <3>1 DEF Suspended
      <3>3. cpu.disable_count > 0
        BY <3>2 DEF Sections
      <3>4. QED
        BY <2>1, <3>1, <3>3 DEF InterruptsBalanced
    <2>2. CASE pc # "sched"
      <3>1. /\ pc \in Labels /\ cpu.disable_count = Sections(pc)
            /\ (cpu.interrupts <=> Sections(pc) = 0)
        BY <2>2, RunningFacts DEF Active
      <3>2. QED
        BY <2>2, <3>1 DEF InterruptsBalanced, Sections, Labels
    <2>3. QED
      BY <2>1, <2>2
  <1>2. QED
    BY <1>1, Invariance, PTL
=============================================================================
