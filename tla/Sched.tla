------------------------------- MODULE Sched -------------------------------
(***************************************************************************)
(* Tasks, interrupts and the round-robin scheduler: kernel/task.c,         *)
(* kernel/isr.c, drivers/timer.c, asm/process.asm and the interrupt stubs  *)
(* of boot/kernel_entry.asm.                                               *)
(*                                                                         *)
(* There is one CPU.  Every gate of the IDT is a trap gate (type_attr 0x8F *)
(* and 0xEF), which leaves interrupts enabled, and every stub starts with  *)
(* cli: between the two an interrupt can still nest.  From cli to iret the *)
(* kernel runs with interrupts off, so the body of a handler is one step.  *)
(* Task 0 is the boot code; it calls spawn_ram up to SPAWNS times          *)
(* (init_task0 calls it once) and then enables interrupts.  The other      *)
(* tasks run user programs, which may make system calls, fault, or be      *)
(* interrupted at any time.  A task's frames survive while it is switched  *)
(* out: so they do with one user task.  The code maps the kernel stacks of *)
(* all tasks to one page, which it would have to change for a second one.  *)
(***************************************************************************)
EXTENDS Integers, Sequences

CONSTANTS MAX_TASK_NUM, \* slots of task_arr
          TTL,          \* ticks of a turn, 10 in the code
          SPAWNS,       \* task 0 calls spawn_ram at most so often, once in the code
          Faulty        \* tasks whose program may fault

Tid == 0 .. MAX_TASK_NUM - 1

ASSUME SchedAssumption ==
  /\ MAX_TASK_NUM \in Nat /\ SPAWNS \in Nat \ {0} /\ SPAWNS < MAX_TASK_NUM
  /\ TTL \in Nat \ {0}
  /\ Faulty \subseteq Tid

TASK_PRESENT == "TASK_PRESENT"
TASK_NEED_SCHED == "TASK_NEED_SCHED"

VARIABLES state, ttl, \* fields of task_arr; state is a set of flags
          current,    \* the running task
          esp0,       \* tss_entry.esp0: "boot" (0xFFFFFF00) or "kstack"
          intr,       \* the interrupt flag of the CPU
          saved,      \* the interrupt flag each task pushed when switched out
          base,       \* what each task does outside interrupts
          frames,     \* the interrupt frames on each task's kernel stack
          irr, isr,   \* the PIC's requests and interrupts in service
          spawns,     \* spawn_ram calls still to come
          waits       \* history: switches by schedule since each task ran, or since
                      \* the last program was spawned

vars == <<state, ttl, current, esp0, intr, saved, base, frames, irr, isr, spawns, waits>>

Present(t) == state[t] # {}

\* The frame at the top of a task's kernel stack, and its replacement.
Top(t) == frames[t][Len(frames[t])]
SetPc(t, pc) == [frames EXCEPT ![t][Len(frames[t])].pc = pc]

InUser == base[current] = "user" /\ frames[current] = <<>>
At(pc) == frames[current] # <<>> /\ Top(current).pc = pc

-----------------------------------------------------------------------------
(* Switching tasks. *)

\* __context_switch, with the flags on the stacks: the interrupt flag is pushed on
\* the old stack and popped from the new one.
__context_switch(new, flags) ==
  /\ current' = new
  /\ saved' = [flags EXCEPT ![current] = intr]
  /\ intr' = flags[new]

\* context_switch: nothing to do for the running task.
context_switch(new) ==
  \/ /\ new = current
     /\ UNCHANGED <<current, saved, intr, esp0>>
  \/ /\ new # current
     /\ esp0' = "kstack"
     /\ __context_switch(new, saved)

\* A mutant of Slot: the search starts at the first slot, not after the running task.
Slot_fixed(i) == i % MAX_TASK_NUM

\* The history counts no further than MAX_TASK_NUM.
Counted(n) == IF n < MAX_TASK_NUM THEN n + 1 ELSE n

\* The slot schedule looks at in round i of its loop.
Slot(i) == (current + i) % MAX_TASK_NUM

\* schedule, with the given fields of task_arr: the first used slot after the
\* running task is next.
schedule(st, tl) ==
  \E i \in 1 .. MAX_TASK_NUM :
    /\ st[Slot(i)] # {}
    /\ \A k \in 1 .. i - 1 : st[Slot(k)] = {}
    /\ state' = [st EXCEPT ![current] = @ \ {TASK_NEED_SCHED}]
    /\ ttl' = IF st[current] # {} THEN [tl EXCEPT ![current] = TTL] ELSE tl
    /\ context_switch(Slot(i))
    /\ waits' = [t \in Tid |-> IF t \in {current, Slot(i)} \/ st[t] = {} THEN 0
                                                          ELSE Counted(waits[t])]

\* A mutant of cond_schedule: the request is never honoured.
cond_schedule_never(st, tl) ==
  /\ state' = st
  /\ ttl' = tl
  /\ UNCHANGED <<current, saved, intr, esp0, waits>>

cond_schedule(st, tl) ==
  IF TASK_NEED_SCHED \in st[current]
    THEN schedule(st, tl)
    ELSE /\ state' = st
         /\ ttl' = tl
         /\ UNCHANGED <<current, saved, intr, esp0, waits>>

\* get_next_tid: the first free slot.
IsNextTid(t) == ~Present(t) /\ \A u \in Tid : u < t => Present(u)

\* load_task leaves the new task a frame that iret takes to user mode, on the
\* kernel stack it has been given, below a context with the interrupt flag off.
LoadFrame(t) == [irq |-> "load", pc |-> "iret", eflags |-> TRUE, page |-> "kstack"]

-----------------------------------------------------------------------------
(* Task 0: init_task0. *)

Init ==
  /\ state = [t \in Tid |-> IF t = 0 THEN {TASK_PRESENT} ELSE {}]
  /\ ttl = [t \in Tid |-> IF t = 0 THEN TTL ELSE 0]
  /\ current = 0
  /\ esp0 = "boot"
  /\ intr = FALSE
  /\ saved = [t \in Tid |-> FALSE]
  /\ base = [t \in Tid |-> IF t = 0 THEN "boot" ELSE "none"]
  /\ frames = [t \in Tid |-> <<>>]
  /\ irr = {} /\ isr = {}
  /\ spawns \in 1 .. SPAWNS
  /\ waits = [t \in Tid |-> 0]

\* spawn_ram switches to the task it loads, past context_switch.
spawn_ram(t) ==
  /\ current = 0 /\ base[0] = "boot" /\ spawns > 0
  /\ IsNextTid(t)
  /\ state' = [state EXCEPT ![t] = {TASK_PRESENT}]
  /\ ttl' = [ttl EXCEPT ![t] = TTL]
  /\ base' = [base EXCEPT ![t] = "user"]
  /\ frames' = [frames EXCEPT ![t] = <<LoadFrame(t)>>]
  /\ __context_switch(t, [saved EXCEPT ![t] = FALSE])
  /\ spawns' = spawns - 1
  /\ waits' = [u \in Tid |-> 0]
  /\ UNCHANGED <<esp0, irr, isr>>

\* Task 0 has returned from its last spawn_ram: sti, and its loop starts.
sti ==
  /\ current = 0 /\ base[0] = "boot" /\ spawns = 0
  /\ base' = [base EXCEPT ![0] = "loop"]
  /\ intr' = TRUE
  /\ UNCHANGED <<state, ttl, current, esp0, saved, frames, irr, isr, spawns, waits>>

-----------------------------------------------------------------------------
(* Interrupts, system calls and faults. *)

\* The timer ticks, a key is pressed.
Request(irq) ==
  /\ irq \notin irr
  /\ irr' = irr \cup {irq}
  /\ UNCHANGED <<state, ttl, current, esp0, intr, saved, base, frames, isr, spawns, waits>>

\* The page a gate pushes to: from user mode the one TSS.ESP0 points into, which
\* for the boot value is the table of reverse mappings of the address space.
EntryPage ==
  IF InUser THEN IF esp0 = "boot" THEN "rev_tb" ELSE "kstack"
  ELSE IF frames[current] = <<>> THEN "boot" ELSE Top(current).page

\* A trap gate pushes a frame and leaves the interrupt flag alone.
Enter(irq) ==
  frames' = [frames EXCEPT ![current] =
    Append(@, [irq |-> irq, pc |-> "entry", eflags |-> intr, page |-> EntryPage])]

\* The PIC passes on the request of the highest priority, if no interrupt of its
\* own or a higher priority is in service.
Deliver(irq) ==
  /\ intr /\ irq \in irr
  /\ "timer" \notin isr
  /\ irq = "kb" => "kb" \notin isr /\ "timer" \notin irr
  /\ irr' = irr \ {irq}
  /\ isr' = isr \cup {irq}
  /\ Enter(irq)
  /\ UNCHANGED <<state, ttl, current, esp0, intr, saved, base, spawns, waits>>

\* int 0x3f, or an instruction that faults, in a user program.
Trap(irq) ==
  /\ InUser
  /\ irq = "fault" => current \in Faulty
  /\ Enter(irq)
  /\ UNCHANGED <<state, ttl, current, esp0, intr, saved, base, irr, isr, spawns, waits>>

\* A mutant of cli: a stub without it.
cli_missing ==
  /\ At("entry")
  /\ frames' = SetPc(current, "handler")
  /\ UNCHANGED <<state, ttl, current, esp0, intr, saved, base, irr, isr, spawns, waits>>

\* The first instruction of every stub.
cli ==
  /\ At("entry")
  /\ intr' = FALSE
  /\ frames' = SetPc(current, "handler")
  /\ UNCHANGED <<state, ttl, current, esp0, saved, base, irr, isr, spawns, waits>>

\* timer_handler
ticked == [ttl EXCEPT ![current] = @ - 1]
flagged == IF ticked[current] = 0 THEN [state EXCEPT ![current] = @ \cup {TASK_NEED_SCHED}]
                                  ELSE state

\* A mutant of EOI: the command is not sent.
EOI_missing == isr' = isr

\* The end-of-interrupt command names no interrupt: the PIC ends the one of the
\* highest priority.
EOI == isr' = IF "timer" \in isr THEN isr \ {"timer"} ELSE isr \ {"kb"}

\* irq_handler_entry for the timer and for the keyboard; kb_handler does not
\* touch the tasks.
irq_handler_entry ==
  /\ At("handler")
  /\ \/ Top(current).irq = "timer" /\ cond_schedule(flagged, ticked)
     \/ Top(current).irq = "kb" /\ cond_schedule(state, ttl)
  /\ EOI
  /\ frames' = SetPc(current, "iret")
  /\ UNCHANGED <<base, irr, spawns>>

\* irq_handler_entry for faults 13 and 14: a message and "while(1){}".
fault_handler ==
  /\ At("handler") /\ Top(current).irq = "fault"
  /\ frames' = SetPc(current, "halted")
  /\ UNCHANGED <<state, ttl, current, esp0, intr, saved, base, irr, isr, spawns, waits>>

\* isr63 calls through syscall_table, and no cond_schedule follows; SYS_EXIT is
\* terminate_process, the other calls leave the tasks alone.
syscall ==
  /\ At("handler") /\ Top(current).irq = "sys"
  /\ frames' = SetPc(current, "iret")
  /\ UNCHANGED <<state, ttl, current, esp0, intr, saved, base, irr, isr, spawns, waits>>

\* A mutant of terminate_process: the task keeps its state.
terminate_process_kept ==
  /\ At("handler") /\ Top(current).irq = "sys"
  /\ schedule(state, ttl)
  /\ base' = [base EXCEPT ![current] = "none"]
  /\ frames' = [frames EXCEPT ![current] = <<>>]
  /\ UNCHANGED <<irr, isr, spawns>>

terminate_process ==
  /\ At("handler") /\ Top(current).irq = "sys"
  /\ schedule([state EXCEPT ![current] = {}], ttl)
  /\ base' = [base EXCEPT ![current] = "none"]
  /\ frames' = [frames EXCEPT ![current] = <<>>]
  /\ UNCHANGED <<irr, isr, spawns>>

iret ==
  /\ At("iret")
  /\ intr' = Top(current).eflags
  /\ frames' = [frames EXCEPT ![current] = SubSeq(@, 1, Len(@) - 1)]
  /\ UNCHANGED <<state, ttl, current, esp0, saved, base, irr, isr, spawns, waits>>

-----------------------------------------------------------------------------

Irq == {"timer", "kb"}

Next ==
  \/ \E t \in Tid : spawn_ram(t)
  \/ sti
  \/ \E irq \in Irq : Request(irq) \/ Deliver(irq)
  \/ \E irq \in {"sys", "fault"} : Trap(irq)
  \/ cli \/ irq_handler_entry \/ fault_handler \/ syscall \/ terminate_process \/ iret

Spec == Init /\ [][Next]_vars

\* What the CPU executes next once an interrupt has been entered, or in task 0.
Cpu == (\E t \in Tid : spawn_ram(t)) \/ sti \/ cli \/ irq_handler_entry
       \/ fault_handler \/ syscall \/ terminate_process \/ iret

\* The CPU does not stop, the timer keeps ticking, and the PIC does not withhold
\* the timer's interrupt for ever.
FairSpec == /\ Spec
            /\ WF_vars(Cpu)
            /\ WF_vars(Request("timer"))
            /\ SF_vars(Deliver("timer"))

-----------------------------------------------------------------------------
(* Properties. *)

Frame == [irq : {"timer", "kb", "sys", "fault", "load"},
          pc : {"entry", "handler", "iret", "halted"}, eflags : BOOLEAN,
          page : {"boot", "rev_tb", "kstack"}]

\* Every variable has its type, and task_arr holds a flag only in a used slot.
TypeOK ==
  /\ state \in [Tid -> {{}, {TASK_PRESENT}, {TASK_PRESENT, TASK_NEED_SCHED}}]
  /\ ttl \in [Tid -> 0 .. TTL]
  /\ current \in Tid
  /\ esp0 \in {"boot", "kstack"}
  /\ intr \in BOOLEAN
  /\ saved \in [Tid -> BOOLEAN]
  /\ base \in [Tid -> {"none", "boot", "loop", "user"}]
  /\ frames \in [Tid -> Seq(Frame)]
  /\ irr \subseteq Irq /\ isr \subseteq Irq
  /\ spawns \in 0 .. SPAWNS
  /\ waits \in [Tid -> 0 .. MAX_TASK_NUM]

\* task_arr stays sound, as timer_handler, schedule, cond_schedule, spawn_ram and
\* terminate_process change it: the CPU is never left to a terminated task and task 0
\* never goes; timer_handler never decrements a ttl of 0, which would wrap to
\* 2^32 - 1 ticks; and no request to schedule outlives the interrupt that made it.
TaskTableSound ==
  /\ TypeOK
  /\ Present(current) /\ Present(0)
  /\ \A t \in Tid : Present(t) => ttl[t] \in 1 .. TTL /\ TASK_NEED_SCHED \notin state[t]

\* From the cli of a stub to its iret interrupts are off, also when the handler
\* switches tasks and the iret comes many turns later: a frame whose handler has
\* started is on top of its stack, of the running task with the flag off, or of
\* one that will get the flag back off.
HandlerUninterrupted ==
  \A t \in Tid : \A i \in 1 .. Len(frames[t]) :
    frames[t][i].pc # "entry" =>
      /\ i = Len(frames[t])
      /\ IF t = current THEN ~intr ELSE ~saved[t]

\* A task that is not running is suspended in the kernel, in its own schedule or
\* spawn_ram: it never resumes in the middle of user code without its iret.
SuspendedInKernel ==
  \A t \in Tid : Present(t) /\ t # current =>
    IF frames[t] = <<>> THEN t = 0 /\ base[0] = "boot" ELSE frames[t][Len(frames[t])].pc = "iret"

\* The PIC and the stacks agree: an interrupt is in service exactly while one
\* frame, of whatever task, has yet to send its EOI.  As an EOI names no
\* interrupt, this is what makes each one end the interrupt it is meant for.
Unacknowledged(irq) ==
  {f \in Tid \X (1 .. 3) :
    /\ f[2] <= Len(frames[f[1]])
    /\ frames[f[1]][f[2]].irq = irq /\ frames[f[1]][f[2]].pc \in {"entry", "handler"}}
InServiceExact ==
  \A irq \in Irq : IF irq \in isr THEN \E f \in Tid \X (1 .. 3) : Unacknowledged(irq) = {f}
                                 ELSE Unacknowledged(irq) = {}

\* The window before cli lets interrupts nest, but at most a timer interrupt in a
\* keyboard interrupt in a system call: a one-page kernel stack need not hold more.
NestingBounded == \A t \in Tid : Len(frames[t]) <= 3

\* Between two turns of a task schedule switches at most MAX_TASK_NUM - 2 times
\* past it, whichever tasks end meanwhile; a program spawned in between starts the
\* count anew (init_task0 spawns one, before any of the switches counted).
BoundedWaiting ==
  \A t \in Tid : Present(t) /\ t # current => waits[t] <= MAX_TASK_NUM - 2

\* Every task that does not end gets the CPU again and again, unless a fault has
\* stopped the machine.
Halted == \E t \in Tid : frames[t] # <<>> /\ Top(t).pc = "halted"
RoundRobin == \A t \in Tid : []<>(current = t \/ ~Present(t) \/ Halted)

\* "remember to restore TSS.ESP0 field" (asm/process.asm:54): an interrupt of a
\* user program is taken on the kernel stack.
EntryOnOwnStack ==
  \A t \in Tid : base[t] = "user" =>
    \A i \in 1 .. Len(frames[t]) : frames[t][i].page = "kstack"

=============================================================================
