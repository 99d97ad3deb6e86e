----------------------------- MODULE SchedProofs -----------------------------
(***************************************************************************)
(* Proofs about Sched, for any number of slots, ticks to a turn, programs  *)
(* and faulty tasks.  All of its invariants follow from one inductive      *)
(* invariant, IInv.                                                        *)
(***************************************************************************)
EXTENDS Sched, TLAPS

Pc == {"entry", "handler", "iret", "halted"}

\* What each task is: task 0 the boot code, the others user programs; an unused slot
\* has no frames.
Bases ==
  /\ base[0] \in {"boot", "loop"}
  /\ \A t \in Tid : t # 0 => base[t] \in {"none", "user"}
  /\ \A t \in Tid : Present(t) <=> base[t] # "none"
  /\ \A t \in Tid : base[t] = "none" => frames[t] = <<>>

\* Until its sti task 0 has not been interrupted, and cannot be.
Booting ==
  base[0] = "boot" => frames[0] = <<>> /\ IF current = 0 THEN ~intr ELSE ~saved[0]

\* What lies on a kernel stack: below the top only frames that have not reached their
\* cli; a system call, a fault or the frame of load_task at the bottom only; nothing
\* above a timer interrupt, and only that one above a keyboard interrupt.
Stack(s) ==
  /\ \A i \in 1 .. Len(s) : i > 1 => s[i].irq \in Irq
  /\ \A i \in 1 .. Len(s) : i < Len(s) =>
       /\ s[i].pc = "entry" /\ s[i].irq # "timer"
       /\ s[i].irq = "kb" => s[i + 1].irq = "timer"

Stacks ==
  \A t \in Tid : /\ Stack(frames[t])
                 /\ frames[t] # <<>> /\ frames[t][1].irq \notin Irq => base[t] = "user"

\* The interrupt flag is off, or will be restored as off, behind the cli of the top
\* frame.
Flags ==
  \A t \in Tid : frames[t] # <<>> /\ Top(t).pc # "entry" =>
    IF t = current THEN ~intr ELSE ~saved[t]

\* The frame at i of t has yet to send its EOI.
Owes(t, i, irq) ==
  i <= Len(frames[t]) /\ frames[t][i].irq = irq /\ frames[t][i].pc \in {"entry", "handler"}

\* InServiceExact, in terms of single frames.
InService ==
  \A irq \in Irq :
    /\ irq \in isr <=> \E t \in Tid, i \in 1 .. 3 : Owes(t, i, irq)
    /\ \A t, u \in Tid, i, j \in 1 .. 3 : Owes(t, i, irq) /\ Owes(u, j, irq) => t = u /\ i = j

\* How many slots schedule goes through from the running task to t.
Distance(c, t) == IF c < t THEN t - c ELSE t - c + MAX_TASK_NUM

\* Every switch past a waiting task takes the running task closer to it.
Approaching ==
  \A t \in Tid : Present(t) /\ t # current => waits[t] + Distance(current, t) < MAX_TASK_NUM

IInv ==
  /\ TaskTableSound /\ Bases /\ Booting /\ Stacks /\ Flags /\ SuspendedInKernel
  /\ InService /\ Approaching

-----------------------------------------------------------------------------
(* What the steps do to the stacks. *)

\* The slot schedule looks at, without the division.
LEMMA SlotIs ==
  ASSUME current \in Tid, NEW i \in 1 .. MAX_TASK_NUM
  PROVE  /\ Slot(i) = IF current + i < MAX_TASK_NUM THEN current + i ELSE current + i - MAX_TASK_NUM
         /\ Slot(i) \in Tid
<1> DEFINE n == MAX_TASK_NUM
           x == current + i
<1>1. n \in Nat /\ n > 0 /\ x \in 0 .. 2 * n - 1 /\ current \in 0 .. n - 1
  BY SchedAssumption DEF Tid
<1>2. x % n = IF x < n THEN x ELSE x - n
  <2> HIDE DEF n, x
  <2>1. x % n \in 0 .. n - 1 /\ x = n * (x \div n) + (x % n) /\ x \div n \in Int
    BY <1>1
  <2> DEFINE q == x \div n
             m == x % n
  <2>2. m \in 0 .. n - 1 /\ x = n * q + m /\ q \in Int
    BY <2>1
  <2> HIDE DEF q, m
  <2>3. q >= 2 => n * q >= n * 2
    BY <1>1, <2>2
  <2>4. q <= -1 => n * q <= n * (-1)
    BY <1>1, <2>2
  <2>5. q \in {0, 1}
    BY <1>1, <2>2, <2>3, <2>4
  <2>6. q = 0 => n * q = 0
    BY <1>1
  <2>7. q = 1 => n * q = n
    BY <1>1
  <2>8. m = IF x < n THEN x ELSE x - n
    BY <1>1, <2>2, <2>5, <2>6, <2>7
  <2> QED
    BY <2>8 DEF m
<1> QED
  BY <1>1, <1>2 DEF Slot, Tid

\* A gate pushes a frame on the stack of the running task.
LEMMA Pushed ==
  ASSUME TypeOK, NEW f \in Frame, frames' = [frames EXCEPT ![current] = Append(@, f)]
  PROVE  /\ frames' \in [Tid -> Seq(Frame)]
         /\ \A t \in Tid : t # current => frames'[t] = frames[t]
         /\ Len(frames'[current]) = Len(frames[current]) + 1
         /\ frames'[current] # <<>>
         /\ frames'[current][Len(frames[current]) + 1] = f
         /\ \A i \in 1 .. Len(frames[current]) : frames'[current][i] = frames[current][i]
<1>1. frames \in [Tid -> Seq(Frame)] /\ current \in Tid
  BY DEF TypeOK
<1> DEFINE s == frames[current]
           s1 == Append(s, f)
<1>2. s \in Seq(Frame)
  BY <1>1
<1>3. s1 \in Seq(Frame) /\ Len(s1) = Len(s) + 1 /\ s1 # <<>>
      /\ s1[Len(s) + 1] = f /\ \A i \in 1 .. Len(s) : s1[i] = s[i]
  BY <1>2
<1>4. frames'[current] = s1 /\ frames' \in [Tid -> Seq(Frame)]
      /\ \A t \in Tid : t # current => frames'[t] = frames[t]
  BY <1>1, <1>3
<1> QED
  BY <1>3, <1>4

\* Only the pc of the top frame of the running task changes.
LEMMA PcSet ==
  ASSUME TypeOK, frames[current] # <<>>, NEW p \in Pc, frames' = SetPc(current, p)
  PROVE  /\ frames' \in [Tid -> Seq(Frame)]
         /\ \A t \in Tid : t # current => frames'[t] = frames[t]
         /\ Len(frames[current]) \in Nat \ {0}
         /\ Len(frames'[current]) = Len(frames[current])
         /\ frames'[current] # <<>>
         /\ frames'[current][Len(frames[current])] = [Top(current) EXCEPT !.pc = p]
         /\ \A i \in 1 .. Len(frames[current]) :
              i < Len(frames[current]) => frames'[current][i] = frames[current][i]
<1>1. frames \in [Tid -> Seq(Frame)] /\ current \in Tid
  BY DEF TypeOK
<1> DEFINE s == frames[current]
           n == Len(s)
           g == [s[n] EXCEPT !.pc = p]
           s1 == [s EXCEPT ![n] = g]
<1>2. s \in Seq(Frame) /\ n \in Nat \ {0} /\ s[n] \in Frame
  BY <1>1
<1>3. g \in Frame
  BY <1>2 DEF Frame, Pc
<1>4. frames' = [frames EXCEPT ![current] = s1]
  BY DEF SetPc
<1> HIDE DEF g
<1>5. s1 \in Seq(Frame) /\ Len(s1) = n /\ s1[n] = g
      /\ \A i \in 1 .. n : i < n => s1[i] = s[i]
  BY <1>2, <1>3
<1>6. frames'[current] = s1 /\ frames' \in [Tid -> Seq(Frame)]
      /\ \A t \in Tid : t # current => frames'[t] = frames[t]
  BY <1>1, <1>4, <1>5
<1> QED
  BY <1>2, <1>5, <1>6 DEF g, Top

\* iret drops the top frame of the running task.
LEMMA Popped ==
  ASSUME TypeOK, frames[current] # <<>>,
         frames' = [frames EXCEPT ![current] = SubSeq(@, 1, Len(@) - 1)]
  PROVE  /\ frames' \in [Tid -> Seq(Frame)]
         /\ \A t \in Tid : t # current => frames'[t] = frames[t]
         /\ Len(frames[current]) \in Nat \ {0}
         /\ Len(frames'[current]) = Len(frames[current]) - 1
         /\ \A i \in 1 .. Len(frames[current]) - 1 : frames'[current][i] = frames[current][i]
<1>1. frames \in [Tid -> Seq(Frame)] /\ current \in Tid
  BY DEF TypeOK
<1> DEFINE s == frames[current]
           n == Len(s)
           s1 == SubSeq(s, 1, n - 1)
<1>2. s \in Seq(Frame) /\ n \in Nat \ {0}
  BY <1>1
<1>3. s1 \in Seq(Frame) /\ Len(s1) = n - 1 /\ \A i \in 1 .. n - 1 : s1[i] = s[i]
  BY <1>2
<1>4. frames'[current] = s1 /\ frames' \in [Tid -> Seq(Frame)]
      /\ \A t \in Tid : t # current => frames'[t] = frames[t]
  BY <1>1, <1>3
<1> QED
  BY <1>2, <1>3, <1>4

-----------------------------------------------------------------------------
(* Consequences of the invariant. *)

\* A stack holds at most a trap, a keyboard and a timer interrupt.
LEMMA AtMostThree ==
  ASSUME NEW s \in Seq(Frame), Stack(s)
  PROVE  Len(s) <= 3
<1>1. Len(s) \in Nat
  OBVIOUS
<1> SUFFICES ASSUME Len(s) >= 4 PROVE FALSE
  BY <1>1
<1>2. s[2].irq \in Irq /\ s[2].irq # "timer" /\ (s[2].irq = "kb" => s[3].irq = "timer")
  BY <1>1 DEF Stack
<1>3. s[3].irq # "timer"
  BY <1>1 DEF Stack
<1> QED
  BY <1>2, <1>3 DEF Irq

\* InService says the same as InServiceExact.
LEMMA ServiceExact ==
  ASSUME TypeOK
  PROVE  InService <=> InServiceExact
<1> SUFFICES ASSUME NEW irq \in Irq
             PROVE  (/\ irq \in isr <=> \E t \in Tid, i \in 1 .. 3 : Owes(t, i, irq)
                     /\ \A t, u \in Tid, i, j \in 1 .. 3 :
                          Owes(t, i, irq) /\ Owes(u, j, irq) => t = u /\ i = j)
                    <=> (IF irq \in isr THEN \E f \in Tid \X (1 .. 3) : Unacknowledged(irq) = {f}
                                        ELSE Unacknowledged(irq) = {})
  BY Zenon DEF InService, InServiceExact
<1> DEFINE U == Unacknowledged(irq)
<1>1. \A t \in Tid, i \in 1 .. 3 : <<t, i>> \in U <=> Owes(t, i, irq)
  BY DEF Unacknowledged, Owes
<1>2. U \subseteq Tid \X (1 .. 3)
  BY DEF Unacknowledged
<1>p. \A f \in U : f[1] \in Tid /\ f[2] \in 1 .. 3 /\ f = <<f[1], f[2]>> /\ Owes(f[1], f[2], irq)
  <2> SUFFICES ASSUME NEW f \in U
               PROVE  f[1] \in Tid /\ f[2] \in 1 .. 3 /\ f = <<f[1], f[2]>> /\ Owes(f[1], f[2], irq)
    OBVIOUS
  <2>1. f[1] \in Tid /\ f[2] \in 1 .. 3 /\ f = <<f[1], f[2]>>
    BY <1>2
  <2> QED
    BY <2>1 DEF Unacknowledged, Owes
<1> HIDE DEF U
<1>3. (\E t \in Tid, i \in 1 .. 3 : Owes(t, i, irq)) <=> U # {}
  <2>1. ASSUME NEW t \in Tid, NEW i \in 1 .. 3, Owes(t, i, irq) PROVE U # {}
    BY <1>1, <2>1
  <2>2. ASSUME NEW f \in U PROVE \E t \in Tid, i \in 1 .. 3 : Owes(t, i, irq)
    BY <1>p, Zenon
  <2> QED
    BY <2>1, <2>2
<1>4. (\A t, u \in Tid, i, j \in 1 .. 3 : Owes(t, i, irq) /\ Owes(u, j, irq) => t = u /\ i = j)
      <=> \A f, g \in U : f = g
  <2>1. ASSUME \A f, g \in U : f = g, NEW t \in Tid, NEW u \in Tid, NEW i \in 1 .. 3, NEW j \in 1 .. 3,
               Owes(t, i, irq), Owes(u, j, irq)
        PROVE  t = u /\ i = j
    <3>1. <<t, i>> = <<u, j>>
      BY <1>1, <2>1, Zenon
    <3> QED
      BY <3>1
  <2>2. ASSUME NEW f \in U, NEW g \in U,
               \A t, u \in Tid, i, j \in 1 .. 3 : Owes(t, i, irq) /\ Owes(u, j, irq) => t = u /\ i = j
        PROVE  f = g
    <3>0. /\ f[1] \in Tid /\ f[2] \in 1 .. 3 /\ Owes(f[1], f[2], irq)
          /\ g[1] \in Tid /\ g[2] \in 1 .. 3 /\ Owes(g[1], g[2], irq)
      BY ONLY <1>p, f \in U, g \in U, Zenon
    <3>1. f[1] = g[1] /\ f[2] = g[2]
      <4> DEFINE a == f[1]
                 b == f[2]
                 c == g[1]
                 d == g[2]
      <4>1. a \in Tid /\ b \in 1 .. 3 /\ Owes(a, b, irq) /\ c \in Tid /\ d \in 1 .. 3 /\ Owes(c, d, irq)
        BY ONLY <3>0
      <4> HIDE DEF a, b, c, d
      <4>2. a = c /\ b = d
        BY ONLY <2>2, <4>1
      <4> QED
        BY ONLY <4>2 DEF a, b, c, d
    <3>2. f = <<f[1], f[2]>> /\ g = <<g[1], g[2]>>
      BY ONLY <1>p, f \in U, g \in U, Zenon
    <3> QED
      BY ONLY <3>1, <3>2, Zenon
  <2> QED
    BY <2>1, <2>2
<1>5. U # {} /\ (\A f, g \in U : f = g) <=> \E f \in Tid \X (1 .. 3) : U = {f}
  BY <1>2
<1> QED
  BY <1>3, <1>4, <1>5 DEF U

\* A step that leaves the frames that owe an EOI, and the PIC, alone.
LEMMA ServiceKept ==
  ASSUME InService, isr' = isr,
         \A t \in Tid, i \in 1 .. 3, irq \in Irq : Owes(t, i, irq)' <=> Owes(t, i, irq)
  PROVE  InService'
  BY DEF InService

\* An interrupt that has not yet sent its EOI while the running task handles another:
\* a suspended task is behind its own, and has no timer interrupt below it.
LEMMA TimerOnTop ==
  ASSUME IInv, NEW t \in Tid, NEW i \in 1 .. 3, Owes(t, i, "timer")
  PROVE  t = current /\ i = Len(frames[t])
<1>1. frames[t] \in Seq(Frame) /\ Len(frames[t]) \in Nat /\ i \in 1 .. Len(frames[t])
  BY DEF IInv, TaskTableSound, TypeOK, Owes
<1>2. i = Len(frames[t])
  BY <1>1 DEF IInv, Stacks, Stack, Owes
<1>3. Present(t)
  BY <1>1 DEF IInv, Bases
<1>4. t = current
  BY <1>1, <1>2, <1>3 DEF IInv, SuspendedInKernel, Owes
<1> QED
  BY <1>2, <1>4

-----------------------------------------------------------------------------
(* Each action preserves the invariant. *)

LEMMA InitIInv == Init => IInv
<1> SUFFICES ASSUME Init PROVE IInv
  OBVIOUS
<1> USE SchedAssumption
<1>1. 0 \in Tid
  BY DEF Tid
<1>2. TypeOK
  BY SMTT(30), <1>1 DEF Init, TypeOK, TASK_PRESENT, TASK_NEED_SCHED
<1>3. TaskTableSound
  BY <1>1, <1>2 DEF Init, TaskTableSound, Present, TASK_PRESENT, TASK_NEED_SCHED
<1>4. Bases /\ Booting /\ Stacks /\ Flags /\ SuspendedInKernel
  BY <1>1 DEF Init, Bases, Booting, Stacks, Stack, Flags, SuspendedInKernel, Present
<1>5. InService
  BY DEF Init, InService, Owes, Irq
<1>6. Approaching
  BY DEF Init, Approaching, Present
<1> QED
  BY <1>3, <1>4, <1>5, <1>6 DEF IInv

\* The devices.
LEMMA RequestIInv ==
  ASSUME IInv, NEW irq \in Irq, Request(irq)
  PROVE  IInv'
<1>1. TypeOK'
  BY DEF IInv, TaskTableSound, TypeOK, Request, Irq
<1>2. TaskTableSound' /\ Bases' /\ Booting'
  BY <1>1 DEF IInv, Request, TaskTableSound, Bases, Booting, Present
<1>3. Stacks' /\ Flags' /\ SuspendedInKernel'
  BY DEF IInv, Request, Stacks, Flags, Top, SuspendedInKernel, Present
<1>4. InService'
  BY ServiceKept DEF IInv, Request, Owes
<1>5. Approaching'
  BY DEF IInv, Request, Approaching, Present
<1> QED
  BY <1>2, <1>3, <1>4, <1>5 DEF IInv

\* sti
LEMMA StiIInv ==
  ASSUME IInv, sti
  PROVE  IInv'
<1>0. 0 \in Tid /\ current = 0 /\ frames[0] = <<>>
  BY SchedAssumption DEF Tid, sti, IInv, Booting
<1>1. TypeOK'
  BY <1>0 DEF IInv, TaskTableSound, TypeOK, sti
<1>2. TaskTableSound'
  BY <1>1 DEF IInv, TaskTableSound, Present, sti
<1>3. Bases' /\ Booting'
  BY <1>0, <1>1 DEF IInv, TaskTableSound, TypeOK, Bases, Booting, Present, sti
<1>4. Stacks' /\ Flags'
  BY <1>0, <1>1 DEF IInv, TaskTableSound, TypeOK, Stacks, Stack, Flags, Top, sti
<1>5. SuspendedInKernel'
  BY <1>0 DEF IInv, SuspendedInKernel, Present, sti
<1>6. InService'
  BY ServiceKept DEF IInv, Owes, sti
<1>7. Approaching'
  BY DEF IInv, Approaching, Present, sti
<1> QED
  BY <1>2, <1>3, <1>4, <1>5, <1>6, <1>7 DEF IInv

\* A step inside the running task leaves the table and the other tasks alone.
LEMMA InsideTask ==
  ASSUME IInv, TypeOK', UNCHANGED <<state, ttl, current, saved, base, waits>>,
         \A t \in Tid : t # current => frames'[t] = frames[t],
         base[current] # "boot"
  PROVE  TaskTableSound' /\ Bases' /\ Booting' /\ SuspendedInKernel' /\ Approaching'
<1>0. current \in Tid /\ Present(current)
  BY DEF IInv, TaskTableSound, TypeOK
<1>1. TaskTableSound'
  BY DEF IInv, TaskTableSound, Present
<1>2. Bases'
  BY <1>0 DEF IInv, Bases, Present
<1>3. Booting' /\ SuspendedInKernel'
  BY <1>0, SchedAssumption DEF IInv, Booting, SuspendedInKernel, Present, Tid
<1>4. Approaching'
  BY DEF IInv, Approaching, Present
<1> QED
  BY <1>1, <1>2, <1>3, <1>4

\* Task 0 has no frame before its sti.
LEMMA FramesNotBooting ==
  ASSUME IInv, frames[current] # <<>>
  PROVE  base[current] # "boot"
  BY SMTT(30), SchedAssumption DEF IInv, TaskTableSound, TypeOK, Bases, Booting, Tid

\* A stack remains one when only the pc of its top frame changes.
LEMMA StackPc ==
  ASSUME NEW s, NEW s1, Len(s) \in Nat, Len(s1) = Len(s), Stack(s),
         \A i \in 1 .. Len(s) : s1[i].irq = s[i].irq,
         \A i \in 1 .. Len(s) : i < Len(s) => s1[i] = s[i]
  PROVE  Stack(s1)
<1>1. \A i \in 1 .. Len(s1) : i > 1 => s1[i].irq \in Irq
  BY DEF Stack
<1>2. ASSUME NEW i \in 1 .. Len(s1), i < Len(s1)
      PROVE  /\ s1[i].pc = "entry" /\ s1[i].irq # "timer"
             /\ s1[i].irq = "kb" => s1[i + 1].irq = "timer"
  <2>1. i + 1 \in 1 .. Len(s) /\ i \in 1 .. Len(s) /\ i < Len(s)
    BY <1>2
  <2>2. s1[i] = s[i] /\ s1[i + 1].irq = s[i + 1].irq
    BY <2>1
  <2> QED
    BY <2>1, <2>2 DEF Stack
<1> QED
  BY <1>1, <1>2 DEF Stack

\* The stacks after the top frame has gone on behind its cli.
LEMMA PcSetStacks ==
  ASSUME IInv, frames[current] # <<>>, NEW p \in Pc, frames' = SetPc(current, p), base' = base
  PROVE  Stacks'
<1> DEFINE n == Len(frames[current])
<1>1. TypeOK /\ current \in Tid
  BY DEF IInv, TaskTableSound, TypeOK
<1>2. /\ \A t \in Tid : t # current => frames'[t] = frames[t]
      /\ n \in Nat \ {0} /\ Len(frames'[current]) = n
      /\ frames'[current][n] = [Top(current) EXCEPT !.pc = p]
      /\ \A i \in 1 .. n : i < n => frames'[current][i] = frames[current][i]
  BY <1>1, PcSet
<1>3. Top(current) \in Frame /\ Top(current) = frames[current][n]
  BY <1>1, <1>2 DEF TypeOK, Top
<1>4. \A i \in 1 .. n : frames'[current][i].irq = frames[current][i].irq
  BY <1>2, <1>3 DEF Frame
<1>5. Stack(frames'[current])
  <2>1. Stack(frames[current])
    BY <1>1 DEF IInv, Stacks
  <2> QED
    BY <1>2, <1>4, <2>1, StackPc
<1>6. frames'[current][1].irq = frames[current][1].irq
  BY <1>2, <1>4
<1> QED
  BY <1>1, <1>2, <1>5, <1>6 DEF IInv, Stacks

\* cli
LEMMA CliIInv ==
  ASSUME IInv, cli
  PROVE  IInv'
<1> DEFINE n == Len(frames[current])
<1>1. TypeOK /\ current \in Tid /\ frames[current] # <<>> /\ Top(current).pc = "entry"
  BY DEF IInv, TaskTableSound, TypeOK, cli, At
<1>2. frames' = SetPc(current, "handler") /\ "handler" \in Pc
  BY DEF cli, Pc
<1>3. /\ frames' \in [Tid -> Seq(Frame)]
      /\ \A t \in Tid : t # current => frames'[t] = frames[t]
      /\ n \in Nat \ {0} /\ Len(frames'[current]) = n
      /\ frames'[current][n] = [Top(current) EXCEPT !.pc = "handler"]
      /\ \A i \in 1 .. n : i < n => frames'[current][i] = frames[current][i]
  BY <1>1, <1>2, PcSet
<1>4. Top(current) \in Frame /\ Top(current) = frames[current][n]
  BY <1>1, <1>3 DEF TypeOK, Top
<1>5. TypeOK'
  BY <1>1, <1>3 DEF TypeOK, cli
<1>6. TaskTableSound' /\ Bases' /\ Booting' /\ SuspendedInKernel' /\ Approaching'
  BY <1>1, <1>3, <1>5, InsideTask, FramesNotBooting DEF cli
<1>7. Stacks'
  BY <1>1, <1>2, PcSetStacks DEF cli
<1>8. Flags'
  BY <1>1, <1>3 DEF IInv, Flags, Top, cli
<1>9. InService'
  <2>1. ASSUME NEW t \in Tid, NEW i \in 1 .. 3, NEW irq \in Irq
        PROVE  Owes(t, i, irq)' <=> Owes(t, i, irq)
    <3>1. CASE t # current
      BY <1>3, <3>1 DEF Owes
    <3>2. CASE t = current /\ i # n
      BY SMTT(30), <1>3, <3>2 DEF Owes
    <3>3. CASE t = current /\ i = n
      BY <1>1, <1>3, <1>4, <3>3 DEF Owes, Frame
    <3> QED
      BY <3>1, <3>2, <3>3
  <2> QED
    BY <2>1, ServiceKept DEF IInv, cli
<1> QED
  BY <1>6, <1>7, <1>8, <1>9 DEF IInv

\* The body of a handler that neither schedules nor owes an EOI.
LEMMA TrapHandled ==
  ASSUME IInv, At("handler"), Top(current).irq \notin Irq, NEW p \in Pc, p # "entry",
         frames' = SetPc(current, p),
         UNCHANGED <<state, ttl, current, esp0, intr, saved, base, irr, isr, spawns, waits>>
  PROVE  IInv'
<1> DEFINE n == Len(frames[current])
<1>1. TypeOK /\ current \in Tid /\ frames[current] # <<>> /\ Top(current).pc = "handler"
  BY DEF IInv, TaskTableSound, TypeOK, At
<1>3. /\ frames' \in [Tid -> Seq(Frame)]
      /\ \A t \in Tid : t # current => frames'[t] = frames[t]
      /\ n \in Nat \ {0} /\ Len(frames'[current]) = n
      /\ frames'[current][n] = [Top(current) EXCEPT !.pc = p]
      /\ \A i \in 1 .. n : i < n => frames'[current][i] = frames[current][i]
  BY <1>1, PcSet
<1>4. Top(current) \in Frame /\ Top(current) = frames[current][n]
  BY <1>1, <1>3 DEF TypeOK, Top
<1>5. TypeOK'
  BY <1>1, <1>3 DEF TypeOK
<1>6. TaskTableSound' /\ Bases' /\ Booting' /\ SuspendedInKernel' /\ Approaching'
  BY <1>1, <1>3, <1>5, InsideTask, FramesNotBooting
<1>7. Stacks'
  BY <1>1, PcSetStacks
<1>8. Flags'
  BY <1>1, <1>3 DEF IInv, Flags, Top
<1>9. InService'
  <2>1. ASSUME NEW t \in Tid, NEW i \in 1 .. 3, NEW irq \in Irq
        PROVE  Owes(t, i, irq)' <=> Owes(t, i, irq)
    <3>1. CASE t # current
      BY <1>3, <3>1 DEF Owes
    <3>2. CASE t = current /\ i # n
      <4>1. i <= n => i \in 1 .. n /\ i < n
        BY <1>3, <3>2
      <4>2. i <= n => frames'[current][i] = frames[current][i]
        BY <1>3, <4>1
      <4> QED
        BY <1>3, <3>2, <4>1, <4>2 DEF Owes
    <3>3. CASE t = current /\ i = n
      <4>1. frames'[current][n].irq = Top(current).irq
        BY <1>3, <1>4 DEF Frame
      <4> QED
        BY <1>4, <3>3, <4>1 DEF Owes
    <3> QED
      BY <3>1, <3>2, <3>3
  <2> QED
    BY <2>1, ServiceKept DEF IInv
<1> QED
  BY <1>6, <1>7, <1>8, <1>9 DEF IInv

LEMMA FaultIInv ==
  ASSUME IInv, fault_handler
  PROVE  IInv'
  BY TrapHandled DEF fault_handler, Pc, Irq

LEMMA SyscallIInv ==
  ASSUME IInv, syscall
  PROVE  IInv'
  BY TrapHandled DEF syscall, Pc, Irq

\* A stack without its top frame.
LEMMA StackPop ==
  ASSUME NEW s, NEW s1, Len(s) \in Nat \ {0}, Len(s1) = Len(s) - 1, Stack(s),
         \A i \in 1 .. Len(s) - 1 : s1[i] = s[i]
  PROVE  Stack(s1) /\ \A i \in 1 .. Len(s1) : s1[i].pc = "entry"
<1>1. ASSUME NEW i \in 1 .. Len(s1)
      PROVE  i \in 1 .. Len(s) /\ i < Len(s) /\ s1[i] = s[i]
  BY <1>1
<1>2. ASSUME NEW i \in 1 .. Len(s1), i < Len(s1)
      PROVE  s1[i + 1] = s[i + 1]
  BY SMTT(30), <1>2
<1> QED
  BY SMTT(30), <1>1, <1>2 DEF Stack

\* iret
LEMMA IretIInv ==
  ASSUME IInv, iret
  PROVE  IInv'
<1> DEFINE n == Len(frames[current])
<1>1. TypeOK /\ current \in Tid /\ frames[current] # <<>> /\ Top(current).pc = "iret"
  BY DEF IInv, TaskTableSound, TypeOK, iret, At
<1>3. /\ frames' \in [Tid -> Seq(Frame)]
      /\ \A t \in Tid : t # current => frames'[t] = frames[t]
      /\ n \in Nat \ {0} /\ Len(frames'[current]) = n - 1
      /\ \A i \in 1 .. n - 1 : frames'[current][i] = frames[current][i]
  BY <1>1, Popped DEF iret
<1>4. Top(current) \in Frame /\ Top(current) = frames[current][n]
  BY <1>1, <1>3 DEF TypeOK, Top
<1>5. TypeOK'
  BY <1>1, <1>3, <1>4 DEF TypeOK, iret, Frame
<1>6. TaskTableSound' /\ Bases' /\ Booting' /\ SuspendedInKernel' /\ Approaching'
  BY <1>1, <1>3, <1>5, InsideTask, FramesNotBooting DEF iret
<1>s. Stack(frames'[current]) /\ \A i \in 1 .. n - 1 : frames'[current][i].pc = "entry"
  <2>1. Stack(frames[current])
    BY <1>1 DEF IInv, Stacks
  <2> DEFINE s == frames[current]
             s1 == frames'[current]
  <2>2. /\ Len(s) \in Nat \ {0} /\ Len(s1) = Len(s) - 1 /\ Stack(s)
        /\ \A i \in 1 .. Len(s) - 1 : s1[i] = s[i]
    BY <1>3, <2>1
  <2> HIDE DEF s, s1
  <2>3. Stack(s1) /\ \A i \in 1 .. Len(s1) : s1[i].pc = "entry"
    BY ONLY <2>2, StackPop
  <2> QED
    BY <1>3, <2>3 DEF s, s1
<1>7. Stacks'
  <2>1. frames'[current] # <<>> => frames'[current][1] = frames[current][1]
    BY SMTT(30), <1>1, <1>3
  <2> QED
    BY <1>1, <1>3, <1>s, <2>1 DEF IInv, Stacks, iret
<1>8. Flags'
  <2>1. frames'[current] # <<>> => frames'[current][n - 1].pc = "entry"
    BY <1>1, <1>3, <1>s
  <2> QED
    BY <1>1, <1>3, <2>1 DEF IInv, Flags, Top, iret
<1>9. InService'
  <2>1. ASSUME NEW t \in Tid, NEW i \in 1 .. 3, NEW irq \in Irq
        PROVE  Owes(t, i, irq)' <=> Owes(t, i, irq)
    <3>1. CASE t # current
      BY <1>3, <3>1 DEF Owes
    <3>2. CASE t = current /\ i # n
      <4>1. i <= n => i \in 1 .. n - 1
        BY <1>3, <3>2
      <4>2. i <= n => frames'[current][i] = frames[current][i]
        BY <1>3, <4>1
      <4>3. i <= n - 1 <=> i <= n
        BY <1>3, <3>2
      <4> QED
        BY <1>3, <3>2, <4>2, <4>3 DEF Owes
    <3>3. CASE t = current /\ i = n
      BY SMTT(30), <1>1, <1>3, <1>4, <3>3 DEF Owes
    <3> QED
      BY <3>1, <3>2, <3>3
  <2> QED
    BY <2>1, ServiceKept DEF IInv, iret
<1> QED
  BY <1>6, <1>7, <1>8, <1>9 DEF IInv


\* A stack with one more frame.
LEMMA StackPush ==
  ASSUME NEW s, NEW s1, Len(s) \in Nat, Len(s1) = Len(s) + 1, Stack(s),
         \A i \in 1 .. Len(s) : s1[i] = s[i],
         Len(s) > 0 => /\ s1[Len(s) + 1].irq \in Irq
                       /\ s[Len(s)].pc = "entry" /\ s[Len(s)].irq # "timer"
                       /\ s[Len(s)].irq = "kb" => s1[Len(s) + 1].irq = "timer"
  PROVE  Stack(s1)
<1>1. ASSUME NEW i \in 1 .. Len(s1), i > 1
      PROVE  s1[i].irq \in Irq
  <2>1. CASE i = Len(s) + 1
    BY <1>1, <2>1
  <2>2. CASE i # Len(s) + 1
    <3>1. i \in 1 .. Len(s) /\ s1[i] = s[i]
      BY <2>2
    <3> QED
      BY <1>1, <3>1 DEF Stack
  <2> QED
    BY <2>1, <2>2
<1>2. ASSUME NEW i \in 1 .. Len(s1), i < Len(s1)
      PROVE  /\ s1[i].pc = "entry" /\ s1[i].irq # "timer"
             /\ s1[i].irq = "kb" => s1[i + 1].irq = "timer"
  <2>1. CASE i = Len(s)
    BY <1>2, <2>1
  <2>2. CASE i # Len(s)
    <3>1. i \in 1 .. Len(s) /\ i < Len(s) /\ i + 1 \in 1 .. Len(s)
      BY <1>2, <2>2
    <3>2. s1[i] = s[i] /\ s1[i + 1] = s[i + 1]
      BY <3>1
    <3> QED
      BY <3>1, <3>2 DEF Stack
  <2> QED
    BY <2>1, <2>2
<1> QED
  BY <1>1, <1>2 DEF Stack

\* The frame a gate pushes is a frame.
LEMMA EntryFrame ==
  ASSUME TypeOK, NEW irq \in {"timer", "kb", "sys", "fault"}
  PROVE  [irq |-> irq, pc |-> "entry", eflags |-> intr, page |-> EntryPage] \in Frame
<1>1. frames[current] # <<>> => Top(current) \in Frame
  BY DEF TypeOK, Top
<1>2. EntryPage \in {"boot", "rev_tb", "kstack"}
  BY <1>1 DEF EntryPage, Frame
<1> QED
  BY <1>2 DEF Frame, TypeOK

\* What a gate leaves of the invariant, whatever interrupt comes through it.
LEMMA Entered ==
  ASSUME IInv, NEW irq \in {"timer", "kb", "sys", "fault"}, Enter(irq),
         base[current] # "boot",
         irr' \subseteq Irq, isr' \subseteq Irq,
         UNCHANGED <<state, ttl, current, esp0, intr, saved, base, spawns, waits>>,
         Len(frames[current]) > 0 =>
           /\ irq \in Irq /\ Top(current).pc = "entry" /\ Top(current).irq # "timer"
           /\ Top(current).irq = "kb" => irq = "timer",
         irq \notin Irq => base[current] = "user"
  PROVE  /\ TaskTableSound' /\ Bases' /\ Booting' /\ Stacks' /\ Flags'
         /\ SuspendedInKernel' /\ Approaching'
<1> DEFINE n == Len(frames[current])
           f == [irq |-> irq, pc |-> "entry", eflags |-> intr, page |-> EntryPage]
<1>1. TypeOK /\ current \in Tid
  BY DEF IInv, TaskTableSound, TypeOK
<1>2. f \in Frame
  BY <1>1, EntryFrame
<1>3. /\ frames' \in [Tid -> Seq(Frame)]
      /\ \A t \in Tid : t # current => frames'[t] = frames[t]
      /\ Len(frames'[current]) = n + 1
      /\ frames'[current] # <<>>
      /\ frames'[current][n + 1] = f
      /\ \A i \in 1 .. n : frames'[current][i] = frames[current][i]
  <2> HIDE DEF f
  <2>1. frames' = [frames EXCEPT ![current] = Append(@, f)]
    BY DEF Enter, f
  <2> QED
    BY <1>1, <1>2, <2>1, Pushed
<1>4. TypeOK'
  BY <1>1, <1>3 DEF TypeOK
<1>5. TaskTableSound' /\ Bases' /\ Booting' /\ SuspendedInKernel' /\ Approaching'
  BY <1>1, <1>3, <1>4, InsideTask
<1>6. n \in Nat /\ (n = 0 <=> frames[current] = <<>>)
  BY <1>1 DEF TypeOK
<1>7. Stack(frames'[current])
  <2> DEFINE s == frames[current]
             s1 == frames'[current]
  <2>1. /\ Len(s) \in Nat /\ Len(s1) = Len(s) + 1 /\ Stack(s)
        /\ \A i \in 1 .. Len(s) : s1[i] = s[i]
        /\ s1[Len(s) + 1].irq = irq
    BY <1>1, <1>3, <1>6 DEF IInv, Stacks
  <2>2. Len(s) > 0 => /\ irq \in Irq /\ s[Len(s)].pc = "entry" /\ s[Len(s)].irq # "timer"
                      /\ s[Len(s)].irq = "kb" => irq = "timer"
    BY DEF Top
  <2> HIDE DEF s, s1
  <2>3. Stack(s1)
    BY ONLY SMTT(30), <2>1, <2>2, StackPush
  <2> QED
    BY <2>3 DEF s1
<1>8. Stacks'
  <2>1. ASSUME frames'[current][1].irq \notin Irq
        PROVE  base[current] = "user"
    <3>1. CASE n = 0
      BY SMTT(30), <1>3, <2>1, <3>1
    <3>2. CASE n # 0
      <4>1. frames'[current][1] = frames[current][1] /\ frames[current] # <<>>
        BY <1>3, <1>6, <3>2
      <4> QED
        BY SMTT(30), <1>1, <2>1, <4>1 DEF IInv, Stacks
    <3> QED
      BY SMTT(30), <3>1, <3>2
  <2> QED
    BY <1>3, <1>7, <2>1 DEF IInv, Stacks
<1>9. Flags'
  <2>1. Top(current)'.pc = "entry"
    BY SMTT(30), <1>3 DEF Top
  <2>2. \A t \in Tid : t # current => Top(t)' = Top(t) /\ frames'[t] = frames[t]
    BY <1>3 DEF Top
  <2> QED
    BY SMTT(30), <2>1, <2>2 DEF IInv, Flags
<1> QED
  BY SMTT(30), <1>5, <1>8, <1>9


\* The frames a gate leaves: as they were, and one that owes an EOI if it is an
\* interrupt's.
LEMMA EnterOwes ==
  ASSUME TypeOK, NEW irq \in {"timer", "kb", "sys", "fault"}, Enter(irq), current' = current,
         NEW t \in Tid, NEW i \in 1 .. 3, NEW q \in Irq
  PROVE  Owes(t, i, q)' <=> Owes(t, i, q) \/ (t = current /\ i = Len(frames[current]) + 1 /\ q = irq)
<1> DEFINE n == Len(frames[current])
           f == [irq |-> irq, pc |-> "entry", eflags |-> intr, page |-> EntryPage]
<1>1. f \in Frame
  BY EntryFrame
<1>2. /\ \A u \in Tid : u # current => frames'[u] = frames[u]
      /\ Len(frames'[current]) = n + 1
      /\ frames'[current][n + 1] = f
      /\ \A k \in 1 .. n : frames'[current][k] = frames[current][k]
  <2> HIDE DEF f
  <2>1. frames' = [frames EXCEPT ![current] = Append(@, f)]
    BY DEF Enter, f
  <2> QED
    BY <1>1, <2>1, Pushed
<1>3. n \in Nat
  BY DEF TypeOK
<1>4. CASE t # current
  BY SMTT(30), <1>2, <1>4 DEF Owes
<1>5. CASE t = current /\ i <= n
  <2>1. i \in 1 .. n /\ i # n + 1 /\ i <= n + 1
    BY <1>3, <1>5
  <2> QED
    BY SMTT(30), <1>2, <1>5, <2>1 DEF Owes
<1>6. CASE t = current /\ i = n + 1
  <2>1. frames'[current][i].irq = irq /\ frames'[current][i].pc = "entry" /\ i <= n + 1 /\ ~(i <= n)
    BY <1>2, <1>3, <1>6
  <2> QED
    BY SMTT(30), <1>2, <1>6, <2>1 DEF Owes
<1>7. CASE t = current /\ i > n + 1
  <2>1. ~(i <= n) /\ ~(i <= n + 1) /\ i # n + 1
    BY <1>3, <1>7
  <2> QED
    BY <1>2, <1>7, <2>1 DEF Owes
<1> QED
  BY <1>3, <1>4, <1>5, <1>6, <1>7

LEMMA TrapIInv ==
  ASSUME IInv, NEW irq \in {"sys", "fault"}, Trap(irq)
  PROVE  IInv'
<1>1. TypeOK /\ current \in Tid
  BY DEF IInv, TaskTableSound, TypeOK
<1>2. base[current] = "user" /\ Len(frames[current]) = 0
  BY DEF Trap, InUser
<1>3. irr' \subseteq Irq /\ isr' \subseteq Irq
  BY <1>1 DEF TypeOK, Trap
<1>4. /\ TaskTableSound' /\ Bases' /\ Booting' /\ Stacks' /\ Flags'
      /\ SuspendedInKernel' /\ Approaching'
  BY <1>2, <1>3, Entered DEF Trap
<1>5. InService'
  <2>1. irq \in {"timer", "kb", "sys", "fault"} /\ irq \notin Irq /\ Enter(irq) /\ current' = current
    BY DEF Trap, Irq
  <2>2. \A t \in Tid, i \in 1 .. 3, q \in Irq : Owes(t, i, q)' <=> Owes(t, i, q)
    BY <1>1, <2>1, EnterOwes
  <2> QED
    BY <2>2, ServiceKept DEF IInv, Trap
<1> QED
  BY <1>4, <1>5 DEF IInv

LEMMA DeliverIInv ==
  ASSUME IInv, NEW irq \in Irq, Deliver(irq)
  PROVE  IInv'
<1> DEFINE n == Len(frames[current])
<1>0. frames[current] \in Seq(Frame) /\ current \in Tid /\ TypeOK
  BY DEF IInv, TaskTableSound, TypeOK
<1>1. TypeOK /\ current \in Tid /\ n \in Nat /\ Stack(frames[current])
  BY <1>0 DEF IInv, Stacks
<1>2. base[current] # "boot"
  BY SchedAssumption, <1>1 DEF IInv, Bases, Booting, Deliver, Tid
<1>3. irr' \subseteq Irq /\ isr' \subseteq Irq
  BY <1>1 DEF TypeOK, Deliver
<1>4. n <= 3
  BY <1>1, AtMostThree DEF TypeOK
<1>5. ASSUME n > 0
      PROVE  /\ Top(current).pc = "entry" /\ Top(current).irq # "timer"
             /\ Top(current).irq = "kb" => irq = "timer"
  <2>0. n \in Nat /\ n <= 3 /\ n > 0
    BY <1>1, <1>4, <1>5
  <2>1. n \in 1 .. 3 /\ frames[current] # <<>>
    <3>1. frames[current] # <<>>
      BY SMTT(30), <1>0, <2>0
    <3> HIDE DEF n
    <3> QED
      BY <2>0, <3>1
  <2>2. Top(current).pc = "entry"
    BY SMTT(30), <1>1, <2>1 DEF IInv, Flags, Deliver
  <2>3. \A q \in Irq : Top(current).irq = q => Owes(current, n, q)
    BY SMTT(30), <1>1, <2>2 DEF Owes, Top
  <2>4. \A q \in Irq : Top(current).irq = q => q \in isr
    BY <1>1, <2>1, <2>3 DEF IInv, InService
  <2> QED
    BY <2>2, <2>4 DEF Deliver, Irq
<1>6. irq \in {"timer", "kb", "sys", "fault"} /\ Enter(irq) /\ irq \notin isr
  BY DEF Irq, Deliver
<1>7. /\ TaskTableSound' /\ Bases' /\ Booting' /\ Stacks' /\ Flags'
      /\ SuspendedInKernel' /\ Approaching'
  BY <1>2, <1>3, <1>5, <1>6, Entered DEF Deliver
<1>8. n + 1 \in 1 .. 3
  <2>1. /\ frames'[current] \in Seq(Frame)
        /\ Stack(frames'[current])
        /\ current' = current
    BY <1>1, <1>7 DEF TaskTableSound, TypeOK, Stacks, Deliver
  <2>2. Len(frames'[current]) = n + 1
    BY <1>1, <1>6 DEF Enter, TypeOK
  <2>3. Len(frames'[current]) <= 3
    BY ONLY <2>1, AtMostThree
  <2> QED
    BY <1>1, <2>2, <2>3
<1>9. InService'
  <2>1. \A t \in Tid, i \in 1 .. 3, q \in Irq :
          Owes(t, i, q)' <=> Owes(t, i, q) \/ (t = current /\ i = n + 1 /\ q = irq)
    BY <1>1, <1>6, EnterOwes DEF Deliver
  <2>2. isr' = isr \cup {irq}
    BY DEF Deliver
  <2>3. \A t \in Tid, i \in 1 .. 3 : ~Owes(t, i, irq)
    BY <1>6 DEF IInv, InService
  <2>4. InService
    BY DEF IInv
  <2> HIDE DEF n
  <2>5. ASSUME NEW q \in Irq
        PROVE  q \in isr' <=> \E t \in Tid, i \in 1 .. 3 : Owes(t, i, q)'
    <3>1. CASE q = irq
      BY <1>1, <1>8, <2>1, <2>2, <3>1
    <3>2. CASE q # irq
      BY <2>1, <2>2, <2>4, <3>2 DEF InService
    <3> QED
      BY <3>1, <3>2
  <2>6. ASSUME NEW q \in Irq, NEW t \in Tid, NEW u \in Tid, NEW i \in 1 .. 3, NEW j \in 1 .. 3,
               Owes(t, i, q)', Owes(u, j, q)'
        PROVE  t = u /\ i = j
    <3>1. CASE q = irq
      BY <2>1, <2>3, <2>6, <3>1
    <3>2. CASE q # irq
      BY <2>1, <2>4, <2>6, <3>2 DEF InService
    <3> QED
      BY <3>1, <3>2
  <2> QED
    BY <2>5, <2>6 DEF InService
<1> QED
  BY <1>7, <1>9 DEF IInv


-----------------------------------------------------------------------------
(* schedule. *)

States == {{}, {TASK_PRESENT}, {TASK_PRESENT, TASK_NEED_SCHED}}

\* schedule reaches a task it does not pass over, and is closer to those behind it.
LEMMA Nearer ==
  ASSUME current \in Tid, NEW i \in 1 .. MAX_TASK_NUM, NEW t \in Tid, t # Slot(i),
         \A k \in 1 .. i - 1 : Slot(k) # t
  PROVE  /\ t # current => Distance(Slot(i), t) < Distance(current, t)
         /\ Distance(Slot(i), t) \in 1 .. MAX_TASK_NUM - 1
<1> DEFINE n == MAX_TASK_NUM
           d == Distance(current, t)
<1>1. n \in Nat /\ n > 0 /\ current \in 0 .. n - 1 /\ t \in 0 .. n - 1
  BY SchedAssumption DEF Tid
<1>2. d \in 1 .. n /\ (t # current => d < n)
  BY <1>1 DEF Distance
<1>3. Slot(d) = t
  <2>1. Slot(d) = IF current + d < n THEN current + d ELSE current + d - n
    BY <1>2, SlotIs
  <2> QED
    BY <1>1, <1>2, <2>1 DEF Distance
<1>4. d > i
  <2>1. ~(d \in 1 .. i - 1) /\ d # i
    BY <1>3
  <2> QED
    BY <1>1, <1>2, <2>1
<1>5. Slot(i) = IF current + i < n THEN current + i ELSE current + i - n
  BY SlotIs
<1> QED
  BY <1>1, <1>2, <1>4, <1>5 DEF Distance

LEMMA ScheduleEffect ==
  ASSUME IInv, NEW st \in [Tid -> States], NEW tl \in [Tid -> 0 .. TTL], schedule(st, tl),
         \A t \in Tid : t # current => st[t] = state[t] /\ tl[t] = ttl[t]
  PROVE  /\ current' \in Tid /\ st[current'] # {}
         /\ state' \in [Tid -> States] /\ ttl' \in [Tid -> 0 .. TTL]
         /\ \A t \in Tid : t # current => state'[t] = state[t] /\ ttl'[t] = ttl[t]
         /\ state'[current] = st[current] \ {TASK_NEED_SCHED}
         /\ st[current] # {} => ttl'[current] = TTL
         /\ current' = current => saved' = saved /\ intr' = intr
         /\ current' # current => /\ saved' = [saved EXCEPT ![current] = intr]
                                  /\ intr' = saved[current']
         /\ esp0' \in {"boot", "kstack"}
         /\ waits' \in [Tid -> 0 .. MAX_TASK_NUM]
         /\ Approaching'
<1>1. TypeOK /\ current \in Tid
  BY DEF IInv, TaskTableSound, TypeOK
<1>2. PICK i \in 1 .. MAX_TASK_NUM :
    /\ st[Slot(i)] # {}
    /\ \A k \in 1 .. i - 1 : st[Slot(k)] = {}
    /\ state' = [st EXCEPT ![current] = @ \ {TASK_NEED_SCHED}]
    /\ ttl' = IF st[current] # {} THEN [tl EXCEPT ![current] = TTL] ELSE tl
    /\ context_switch(Slot(i))
    /\ waits' = [t \in Tid |-> IF t \in {current, Slot(i)} \/ st[t] = {} THEN 0
                                                          ELSE Counted(waits[t])]
  BY DEF schedule
<1> DEFINE new == Slot(i)
<1>3. new \in Tid
  BY <1>1, SlotIs
<1>4. /\ current' = new
      /\ new = current => saved' = saved /\ intr' = intr
      /\ new # current => saved' = [saved EXCEPT ![current] = intr] /\ intr' = saved[new]
      /\ esp0' \in {"boot", "kstack"}
  BY <1>1, <1>2 DEF context_switch, __context_switch, TypeOK
<1>5. st[current] \ {TASK_NEED_SCHED} \in States
  <2>1. st[current] \in States
    BY <1>1
  <2> QED
    BY <2>1 DEF States, TASK_PRESENT, TASK_NEED_SCHED
<1>6. /\ state' \in [Tid -> States] /\ state'[current] = st[current] \ {TASK_NEED_SCHED}
      /\ \A t \in Tid : t # current => state'[t] = st[t]
  BY <1>1, <1>2, <1>5
<1>7. /\ ttl' \in [Tid -> 0 .. TTL]
      /\ st[current] # {} => ttl'[current] = TTL
      /\ \A t \in Tid : t # current => ttl'[t] = tl[t]
  <2>1. TTL \in 0 .. TTL
    BY SchedAssumption
  <2> QED
    BY <1>1, <1>2, <2>1
<1>8. \A t \in Tid : Counted(waits[t]) \in 0 .. MAX_TASK_NUM
  BY <1>1, SchedAssumption DEF TypeOK, Counted
<1>9. waits' \in [Tid -> 0 .. MAX_TASK_NUM]
  BY <1>2, <1>8, SchedAssumption
<1>10. Approaching'
  <2> SUFFICES ASSUME NEW t \in Tid, state'[t] # {}, t # new
               PROVE  waits'[t] + Distance(new, t) < MAX_TASK_NUM
    BY <1>4 DEF Approaching, Present, Distance
  <2>1. st[t] # {}
    BY <1>6
  <2>2. \A k \in 1 .. i - 1 : Slot(k) # t
    BY SMTT(30), <1>2, <2>1
  <2>3. /\ t # current => Distance(new, t) < Distance(current, t)
        /\ Distance(new, t) \in 1 .. MAX_TASK_NUM - 1
    BY <1>1, <2>2, Nearer
  <2>4. CASE t = current
    <3>1. waits'[t] = 0
      BY SMTT(30), <1>2, <2>4
    <3> QED
      BY <2>3, <3>1, SchedAssumption
  <2>5. CASE t # current
    <3>1. waits'[t] = Counted(waits[t])
      BY <1>2, <2>1, <2>5
    <3>2. state[t] # {}
      BY <2>1, <2>5
    <3>3. waits[t] + Distance(current, t) < MAX_TASK_NUM
      BY <2>5, <3>2 DEF IInv, Approaching, Present
    <3>4. Distance(current, t) \in Int
      BY <1>1, SchedAssumption DEF Distance, Tid
    <3>5. waits[t] \in Nat
      BY SMTT(30), <1>1 DEF TypeOK
    <3> QED
      BY SMTT(30), <2>3, <2>5, <3>1, <3>3, <3>4, <3>5, SchedAssumption DEF Counted
  <2> QED
    BY <2>4, <2>5
<1>11. st[new] # {}
  BY <1>2
<1> HIDE DEF new
<1>12. /\ current' \in Tid /\ st[current'] # {}
       /\ current' = current => saved' = saved /\ intr' = intr
       /\ current' # current => /\ saved' = [saved EXCEPT ![current] = intr]
                                /\ intr' = saved[current']
       /\ esp0' \in {"boot", "kstack"}
  BY ONLY SMTT(30), <1>3, <1>4, <1>11
<1>13. \A t \in Tid : t # current => state'[t] = state[t] /\ ttl'[t] = ttl[t]
  BY <1>6, <1>7
<1> QED
  BY ONLY <1>6, <1>7, <1>9, <1>10, <1>12, <1>13


\* What the handler of the timer or the keyboard does to the task table: the tasks
\* stay, with ticks left and no request to schedule.
LEMMA TurnEffect ==
  ASSUME IInv, irq_handler_entry
  PROVE  /\ current' \in Tid /\ Present(current')
         /\ state' \in [Tid -> States] /\ ttl' \in [Tid -> 0 .. TTL]
         /\ \A t \in Tid : Present(t)' <=> Present(t)
         /\ \A t \in Tid : Present(t) => ttl'[t] \in 1 .. TTL /\ TASK_NEED_SCHED \notin state'[t]
         /\ current' = current => saved' = saved /\ intr' = intr
         /\ current' # current => /\ saved' = [saved EXCEPT ![current] = intr]
                                  /\ intr' = saved[current']
         /\ esp0' \in {"boot", "kstack"}
         /\ waits' \in [Tid -> 0 .. MAX_TASK_NUM]
         /\ Approaching'
<1>1. /\ TypeOK /\ current \in Tid /\ Present(current)
      /\ ttl[current] \in 1 .. TTL /\ TASK_NEED_SCHED \notin state[current]
      /\ state \in [Tid -> States] /\ ttl \in [Tid -> 0 .. TTL]
  BY DEF IInv, TaskTableSound, TypeOK, States
<1>2. \A t \in Tid : Present(t) => ttl[t] \in 1 .. TTL /\ TASK_NEED_SCHED \notin state[t]
  BY DEF IInv, TaskTableSound
<1>3. /\ ticked \in [Tid -> 0 .. TTL] /\ ticked[current] = ttl[current] - 1
      /\ \A t \in Tid : t # current => ticked[t] = ttl[t]
  BY <1>1, SchedAssumption DEF ticked
<1>4. CASE Top(current).irq = "timer" /\ ticked[current] = 0
  <2>1. /\ flagged \in [Tid -> States]
        /\ flagged[current] = {TASK_PRESENT, TASK_NEED_SCHED}
        /\ \A t \in Tid : t # current => flagged[t] = state[t]
    <3>1. state[current] = {TASK_PRESENT}
      BY <1>1 DEF States, Present, TASK_PRESENT, TASK_NEED_SCHED
    <3>2. state[current] \cup {TASK_NEED_SCHED} = {TASK_PRESENT, TASK_NEED_SCHED}
      BY <3>1
    <3>3. flagged = [state EXCEPT ![current] = {TASK_PRESENT, TASK_NEED_SCHED}]
      BY <1>4, <3>2 DEF flagged
    <3> QED
      BY <1>1, <3>3 DEF States
  <2>2. cond_schedule(flagged, ticked)
    BY <1>4 DEF irq_handler_entry
  <2>3. schedule(flagged, ticked)
    BY <2>1, <2>2 DEF cond_schedule
  <2>h. \A t \in Tid : t # current => flagged[t] = state[t] /\ ticked[t] = ttl[t]
    BY <1>3, <2>1
  <2>i. flagged \in [Tid -> States] /\ ticked \in [Tid -> 0 .. TTL]
    BY SMTT(30), <1>3, <2>1
  <2>4. /\ current' \in Tid /\ flagged[current'] # {}
        /\ state' \in [Tid -> States] /\ ttl' \in [Tid -> 0 .. TTL]
        /\ \A t \in Tid : t # current => state'[t] = state[t] /\ ttl'[t] = ttl[t]
        /\ state'[current] = flagged[current] \ {TASK_NEED_SCHED}
        /\ flagged[current] # {} => ttl'[current] = TTL
    BY ONLY SMTT(30), IInv, <2>3, <2>h, <2>i, ScheduleEffect
  <2>5. /\ current' = current => saved' = saved /\ intr' = intr
        /\ current' # current => /\ saved' = [saved EXCEPT ![current] = intr]
                                 /\ intr' = saved[current']
        /\ esp0' \in {"boot", "kstack"}
        /\ waits' \in [Tid -> 0 .. MAX_TASK_NUM]
        /\ Approaching'
    BY ONLY IInv, <2>3, <2>h, <2>i, ScheduleEffect
  <2>6. state'[current] = {TASK_PRESENT} /\ ttl'[current] = TTL
    BY <2>1, <2>4 DEF TASK_PRESENT, TASK_NEED_SCHED
  <2>7. \A t \in Tid : Present(t)' <=> Present(t)
    BY <1>1, <2>4, <2>6 DEF Present
  <2>8. Present(current')
    BY <1>1, <2>1, <2>4 DEF Present
  <2>9. \A t \in Tid : Present(t) => ttl'[t] \in 1 .. TTL /\ TASK_NEED_SCHED \notin state'[t]
    BY <1>2, <2>4, <2>6, SchedAssumption DEF TASK_PRESENT, TASK_NEED_SCHED
  <2> QED
    BY ONLY <2>4, <2>5, <2>7, <2>8, <2>9
<1>5. CASE ~(Top(current).irq = "timer" /\ ticked[current] = 0)
  <2>1. /\ state' = state /\ (ttl' = ttl \/ (ttl' = ticked /\ ticked[current] # 0))
        /\ UNCHANGED <<current, saved, intr, esp0, waits>>
    <3>1. CASE Top(current).irq = "timer"
      BY SMTT(30), <1>1, <1>5, <3>1 DEF irq_handler_entry, cond_schedule, flagged
    <3>2. CASE Top(current).irq = "kb"
      BY <1>1, <3>2 DEF irq_handler_entry, cond_schedule
    <3> QED
      BY SMTT(30), <3>1, <3>2 DEF irq_handler_entry
  <2>2. \A t \in Tid : Present(t)' <=> Present(t)
    BY <2>1 DEF Present
  <2>3. /\ ttl' \in [Tid -> 0 .. TTL]
        /\ \A t \in Tid : Present(t) => ttl'[t] \in 1 .. TTL /\ TASK_NEED_SCHED \notin state'[t]
    <3>1. CASE ttl' = ttl
      BY <1>1, <1>2, <2>1, <3>1
    <3>2. CASE ttl' = ticked /\ ticked[current] # 0
      BY SMTT(30), <1>1, <1>2, <1>3, <2>1, <3>2, SchedAssumption
    <3> QED
      BY <2>1, <3>1, <3>2
  <2>4. Approaching'
    BY <2>1 DEF IInv, Approaching, Present, Distance
  <2>5. esp0' \in {"boot", "kstack"} /\ waits' \in [Tid -> 0 .. MAX_TASK_NUM]
    BY <1>1, <2>1 DEF TypeOK
  <2> QED
    BY <1>1, <2>1, <2>2, <2>3, <2>4, <2>5
<1> QED
  BY <1>4, <1>5

LEMMA TopIndex ==
  ASSUME NEW s \in Seq(Frame), s # <<>>, Stack(s)
  PROVE  Len(s) \in 1 .. 3
<1> DEFINE k == Len(s)
<1>1. k \in Nat /\ k # 0 /\ k <= 3
  BY AtMostThree
<1> HIDE DEF k
<1>2. k \in 1 .. 3
  BY <1>1
<1> QED
  BY <1>2 DEF k

\* EOI ends the interrupt it is sent for: the timer interrupt is never below another.
LEMMA EoiExact ==
  ASSUME IInv, irq_handler_entry
  PROVE  isr' = isr \ {Top(current).irq} /\ Top(current).irq \in Irq
<1>1. TypeOK /\ current \in Tid
  BY DEF IInv, TaskTableSound, TypeOK
<1>2. Top(current).irq \in Irq
  BY DEF irq_handler_entry, Irq
<1>3. CASE Top(current).irq = "timer"
  <2>1. frames[current] \in Seq(Frame) /\ frames[current] # <<>> /\ Stack(frames[current])
    BY <1>1 DEF IInv, Stacks, TypeOK, irq_handler_entry, At
  <2>2. Len(frames[current]) \in 1 .. 3
    BY <2>1, TopIndex
  <2>3. Owes(current, Len(frames[current]), "timer")
    <3>1. Top(current).pc = "handler"
      BY DEF irq_handler_entry, At
    <3>2. Len(frames[current]) <= Len(frames[current])
      BY <2>2
    <3> QED
      BY ONLY <1>3, <3>1, <3>2 DEF Owes, Top
  <2>4. "timer" \in isr
    BY <1>1, <2>2, <2>3 DEF IInv, InService, Irq
  <2> QED
    BY <1>2, <1>3, <2>4 DEF irq_handler_entry, EOI
<1>4. CASE Top(current).irq = "kb"
  <2>1. "timer" \notin isr
    <3> SUFFICES ASSUME "timer" \in isr PROVE FALSE
      OBVIOUS
    <3>1. PICK t \in Tid, i \in 1 .. 3 : Owes(t, i, "timer")
      BY DEF IInv, InService, Irq
    <3>2. t = current /\ i = Len(frames[t])
      BY <3>1, TimerOnTop
    <3> QED
      BY <1>4, <3>1, <3>2 DEF Owes, Top
  <2> QED
    BY <1>2, <1>4, <2>1 DEF irq_handler_entry, EOI
<1> QED
  BY <1>2, <1>3, <1>4 DEF Irq


LEMMA IrqIInv ==
  ASSUME IInv, irq_handler_entry
  PROVE  IInv'
<1> DEFINE n == Len(frames[current])
<1>1. /\ TypeOK /\ current \in Tid /\ frames[current] # <<>> /\ Top(current).pc = "handler"
      /\ "iret" \in Pc /\ frames' = SetPc(current, "iret") /\ base' = base
  BY DEF IInv, TaskTableSound, TypeOK, irq_handler_entry, At, Pc
<1>2. ~intr
  BY <1>1 DEF IInv, Flags
<1>3. /\ frames' \in [Tid -> Seq(Frame)]
      /\ \A t \in Tid : t # current => frames'[t] = frames[t]
      /\ n \in Nat \ {0} /\ Len(frames'[current]) = n
      /\ frames'[current][n] = [Top(current) EXCEPT !.pc = "iret"]
      /\ \A i \in 1 .. n : i < n => frames'[current][i] = frames[current][i]
  BY <1>1, PcSet
<1>4. Top(current) \in Frame /\ Top(current) = frames[current][n]
  BY <1>1, <1>3 DEF TypeOK, Top
<1>5. frames'[current] # <<>> /\ frames'[current][n].pc = "iret" /\ base[current] # "boot"
  BY <1>1, <1>3, <1>4, FramesNotBooting DEF Frame
<1>6. /\ current' \in Tid /\ Present(current')
      /\ \A t \in Tid : Present(t)' <=> Present(t)
      /\ current' = current => saved' = saved /\ intr' = intr
      /\ current' # current => /\ saved' = [saved EXCEPT ![current] = intr]
                               /\ intr' = saved[current']
      /\ Approaching'
  BY TurnEffect
<1>7. TaskTableSound'
  <2>1. /\ state' \in [Tid -> States] /\ ttl' \in [Tid -> 0 .. TTL]
        /\ \A t \in Tid : Present(t) => ttl'[t] \in 1 .. TTL /\ TASK_NEED_SCHED \notin state'[t]
        /\ esp0' \in {"boot", "kstack"}
        /\ waits' \in [Tid -> 0 .. MAX_TASK_NUM]
    BY TurnEffect
  <2>2. intr' \in BOOLEAN /\ saved' \in [Tid -> BOOLEAN]
    <3>1. intr \in BOOLEAN /\ saved \in [Tid -> BOOLEAN]
      BY <1>1 DEF TypeOK
    <3> QED
      BY <1>1, <1>6, <3>1
  <2>3. isr' \subseteq Irq
    BY <1>1, EoiExact DEF TypeOK
  <2>4. TypeOK'
    BY <1>1, <1>3, <1>6, <2>1, <2>2, <2>3 DEF TypeOK, States, irq_handler_entry
  <2>5. Present(current)' /\ Present(0)'
    BY <1>6, SchedAssumption DEF IInv, TaskTableSound, Tid, Present
  <2> QED
    BY <1>6, <2>1, <2>4, <2>5 DEF TaskTableSound
<1>8. Bases'
  <2>1. ASSUME NEW t \in Tid, base[t] = "none"
        PROVE  frames'[t] = <<>>
    BY <1>3, <2>1 DEF IInv, Bases, TaskTableSound
  <2>2. \A t \in Tid : Present(t)' <=> base[t] # "none"
    BY <1>6 DEF IInv, Bases
  <2> QED
    BY <1>1, <2>1, <2>2 DEF IInv, Bases
<1>9. Stacks'
  BY <1>1, PcSetStacks
<1>10. \A t \in Tid : t # current => saved'[t] = saved[t]
  BY <1>1, <1>6 DEF TypeOK
<1>11. current' # current => ~saved'[current]
  BY <1>1, <1>2, <1>6 DEF TypeOK
<1>12. Booting'
  <2> SUFFICES ASSUME base[0] = "boot"
               PROVE  frames'[0] = <<>> /\ IF current' = 0 THEN ~intr' ELSE ~saved'[0]
    BY <1>1 DEF Booting
  <2>1. 0 \in Tid /\ current # 0 /\ frames[0] = <<>> /\ ~saved[0]
    BY <1>5, SchedAssumption DEF IInv, Booting, Tid
  <2> QED
    BY <1>3, <1>6, <1>10, <2>1
<1>13. Flags'
  <2> SUFFICES ASSUME NEW t \in Tid, frames'[t] # <<>>, Top(t)'.pc # "entry"
               PROVE  IF t = current' THEN ~intr' ELSE ~saved'[t]
    BY DEF Flags
  <2>1. CASE t = current
    BY SMTT(30), <1>2, <1>6, <1>11, <2>1
  <2>2. CASE t # current
    <3>1. frames[t] # <<>> /\ Top(t).pc # "entry"
      BY <1>3, <2>2 DEF Top
    <3>2. ~saved[t]
      BY <2>2, <3>1 DEF IInv, Flags
    <3> QED
      BY <1>6, <1>10, <2>2, <3>2
  <2> QED
    BY <2>1, <2>2
<1>14. SuspendedInKernel'
  <2> SUFFICES ASSUME NEW t \in Tid, Present(t), t # current'
               PROVE  IF frames'[t] = <<>> THEN t = 0 /\ base[0] = "boot"
                                           ELSE frames'[t][Len(frames'[t])].pc = "iret"
    BY <1>1, <1>6 DEF SuspendedInKernel
  <2>1. CASE t = current
    BY <1>3, <1>5, <2>1
  <2>2. CASE t # current
    BY <1>3, <2>2 DEF IInv, SuspendedInKernel
  <2> QED
    BY SMTT(30), <2>1, <2>2
<1>15. InService'
  <2>1. ASSUME NEW t \in Tid, NEW i \in 1 .. 3, NEW q \in Irq
        PROVE  Owes(t, i, q)' <=> Owes(t, i, q) /\ ~(t = current /\ i = n)
    <3>1. CASE t # current
      BY <1>3, <3>1 DEF Owes
    <3>2. CASE t = current /\ i # n
      <4>1. i <= n => i \in 1 .. n /\ i < n
        BY <1>3, <3>2
      <4>2. i <= n => frames'[current][i] = frames[current][i]
        BY <1>3, <4>1
      <4> QED
        BY <1>3, <3>2, <4>1, <4>2 DEF Owes
    <3>3. CASE t = current /\ i = n
      BY <1>5, <3>3 DEF Owes
    <3> QED
      BY <3>1, <3>2, <3>3
  <2>2. isr' = isr \ {Top(current).irq} /\ Top(current).irq \in Irq
    BY EoiExact
  <2>3. n \in 1 .. 3
    BY <1>1, TopIndex DEF IInv, Stacks, TypeOK
  <2>4. \A q \in Irq : Owes(current, n, q) <=> Top(current).irq = q
    BY <1>1, <1>3, <1>4 DEF Owes
  <2>5. InService
    BY DEF IInv
  <2> HIDE DEF n
  <2>6. ASSUME NEW q \in Irq
        PROVE  q \in isr' <=> \E t \in Tid, i \in 1 .. 3 : Owes(t, i, q)'
    <3>1. CASE q = Top(current).irq
      <4>1. Owes(current, n, q) /\ q \notin isr'
        BY SMTT(30), <2>2, <2>4, <3>1
      <4>2. \A t \in Tid, i \in 1 .. 3 : Owes(t, i, q) => t = current /\ i = n
        BY <1>1, <2>3, <2>5, <4>1 DEF InService
      <4> QED
        BY <2>1, <4>1, <4>2
    <3>2. CASE q # Top(current).irq
      <4>1. ~Owes(current, n, q)
        BY <2>4, <3>2
      <4>2. \A t \in Tid, i \in 1 .. 3 : Owes(t, i, q)' <=> Owes(t, i, q)
        BY <2>1, <4>1
      <4> QED
        BY <2>2, <2>5, <3>2, <4>2 DEF InService
    <3> QED
      BY <3>1, <3>2
  <2>7. ASSUME NEW q \in Irq, NEW t \in Tid, NEW u \in Tid, NEW i \in 1 .. 3, NEW j \in 1 .. 3,
               Owes(t, i, q)', Owes(u, j, q)'
        PROVE  t = u /\ i = j
    BY <2>1, <2>5, <2>7 DEF InService
  <2> QED
    BY <2>6, <2>7 DEF InService
<1> QED
  BY <1>6, <1>7, <1>8, <1>9, <1>12, <1>13, <1>14, <1>15 DEF IInv


-----------------------------------------------------------------------------
(* The end and the start of a task. *)

LEMMA TerminateIInv ==
  ASSUME IInv, terminate_process
  PROVE  IInv'
<1> DEFINE st == [state EXCEPT ![current] = {}]
<1>1. /\ TypeOK /\ current \in Tid /\ frames[current] # <<>>
      /\ Top(current).pc = "handler" /\ Top(current).irq = "sys"
  BY DEF IInv, TaskTableSound, TypeOK, terminate_process, At
<1>2. ~intr
  BY <1>1 DEF IInv, Flags
<1>3. Len(frames[current]) = 1
  <2>1. Len(frames[current]) \in 1 .. 3
    BY <1>1, TopIndex DEF IInv, Stacks, TypeOK
  <2> DEFINE s == frames[current]
             k == Len(s)
  <2>2. s[k].irq = "sys" /\ k \in 1 .. 3
    BY <1>1, <2>1 DEF Top
  <2>3. \A i \in 1 .. k : i > 1 => s[i].irq \in Irq
    BY <1>1 DEF IInv, Stacks, Stack
  <2> HIDE DEF s, k
  <2>4. k = 1
    BY <2>2, <2>3 DEF Irq
  <2> QED
    BY <2>4 DEF s, k
<1>4. base[current] = "user" /\ current # 0
  BY <1>1, <1>3 DEF IInv, Stacks, Bases, Top, Irq
<1>5. /\ frames' \in [Tid -> Seq(Frame)] /\ frames'[current] = <<>>
      /\ \A t \in Tid : t # current => frames'[t] = frames[t]
      /\ base' \in [Tid -> {"none", "boot", "loop", "user"}] /\ base'[current] = "none"
      /\ \A t \in Tid : t # current => base'[t] = base[t]
  <2>1. <<>> \in Seq(Frame)
    OBVIOUS
  <2> QED
    BY <1>1, <2>1 DEF TypeOK, terminate_process
<1>6. /\ st \in [Tid -> States] /\ st[current] = {}
      /\ \A t \in Tid : t # current => st[t] = state[t]
      /\ ttl \in [Tid -> 0 .. TTL] /\ schedule(st, ttl)
  BY <1>1 DEF TypeOK, States, terminate_process
<1> HIDE DEF st
<1>7. /\ current' \in Tid /\ st[current'] # {}
      /\ state' \in [Tid -> States] /\ ttl' \in [Tid -> 0 .. TTL]
      /\ \A t \in Tid : t # current => state'[t] = state[t] /\ ttl'[t] = ttl[t]
      /\ state'[current] = st[current] \ {TASK_NEED_SCHED}
  BY <1>6, ScheduleEffect
<1>8. /\ current' # current => /\ saved' = [saved EXCEPT ![current] = intr]
                               /\ intr' = saved[current']
      /\ esp0' \in {"boot", "kstack"}
      /\ waits' \in [Tid -> 0 .. MAX_TASK_NUM]
      /\ Approaching'
  BY <1>6, ScheduleEffect
<1>9. current' # current /\ state'[current] = {} /\ state[current'] # {}
  BY SMTT(30), <1>6, <1>7
<1>10. /\ intr' = saved[current'] /\ saved' \in [Tid -> BOOLEAN] /\ intr' \in BOOLEAN
       /\ \A t \in Tid : t # current => saved'[t] = saved[t]
  <2>1. intr \in BOOLEAN /\ saved \in [Tid -> BOOLEAN]
    BY <1>1 DEF TypeOK
  <2> QED
    BY SMTT(30), <1>1, <1>7, <1>8, <1>9, <2>1
<1>11. TaskTableSound'
  <2>1. TypeOK'
    BY <1>1, <1>5, <1>7, <1>8, <1>10 DEF TypeOK, States, terminate_process
  <2>2. Present(current)'
    BY SMTT(30), <1>7, <1>9 DEF Present
  <2>3. Present(0)'
    BY SMTT(30), <1>4, <1>7, SchedAssumption DEF IInv, TaskTableSound, Present, Tid
  <2> QED
    BY SMTT(30), <1>7, <1>9, <2>1, <2>2, <2>3 DEF IInv, TaskTableSound, Present
<1>12. Bases'
  <2>1. base'[0] \in {"boot", "loop"}
    BY <1>4, <1>5, SchedAssumption DEF IInv, Bases, Tid
  <2>2. ASSUME NEW t \in Tid
        PROVE  /\ t # 0 => base'[t] \in {"none", "user"}
               /\ Present(t)' <=> base'[t] # "none"
               /\ base'[t] = "none" => frames'[t] = <<>>
    <3>1. CASE t = current
      BY SMTT(30), <1>5, <1>9, <3>1 DEF Present
    <3>2. CASE t # current
      BY ZenonT(30), <1>5, <1>7, <3>2 DEF IInv, Bases, Present
    <3> QED
      BY <3>1, <3>2
  <2> QED
    BY SMTT(30), <2>1, <2>2 DEF Bases
<1>13. Booting'
  <2>1. 0 \in Tid
    BY SchedAssumption DEF Tid
  <2> QED
    BY <1>4, <1>5, <1>10, <2>1 DEF IInv, Booting
<1>14. Stacks'
  <2>1. Stack(<<>>)
    BY SMTT(30) DEF Stack
  <2>2. ASSUME NEW t \in Tid
        PROVE  /\ Stack(frames'[t])
               /\ frames'[t] # <<>> /\ frames'[t][1].irq \notin Irq => base'[t] = "user"
    <3>1. CASE t = current
      BY SMTT(30), <1>5, <2>1, <3>1
    <3>2. CASE t # current
      BY SMTT(30), <1>5, <3>2 DEF IInv, Stacks
    <3> QED
      BY SMTT(30), <3>1, <3>2
  <2> QED
    BY <2>2 DEF Stacks
<1>15. Flags'
  <2> SUFFICES ASSUME NEW t \in Tid, frames'[t] # <<>>, Top(t)'.pc # "entry"
               PROVE  IF t = current' THEN ~intr' ELSE ~saved'[t]
    BY DEF Flags
  <2>1. t # current
    BY <1>5
  <2>2. frames[t] # <<>> /\ Top(t).pc # "entry"
    BY SMTT(30), <1>5, <2>1 DEF Top
  <2>3. ~saved[t]
    BY <2>1, <2>2 DEF IInv, Flags
  <2> QED
    BY <1>10, <2>1, <2>3
<1>16. SuspendedInKernel'
  <2> SUFFICES ASSUME NEW t \in Tid, state'[t] # {}
               PROVE  t # current /\ state[t] # {} /\ frames'[t] = frames[t] /\ base'[0] = base[0]
    BY DEF IInv, SuspendedInKernel, Present
  <2>1. 0 \in Tid
    BY SchedAssumption DEF Tid
  <2> QED
    BY <1>4, <1>5, <1>7, <1>9, <2>1
<1>17. InService'
  <2>1. ASSUME NEW t \in Tid, NEW i \in 1 .. 3, NEW irq \in Irq
        PROVE  Owes(t, i, irq)' <=> Owes(t, i, irq)
    <3>1. CASE t # current
      BY <1>5, <3>1 DEF Owes
    <3>2. CASE t = current
      <4>1. ~Owes(t, i, irq)
        BY <1>1, <1>3, <3>2 DEF Owes, Top, Irq
      <4>2. Len(frames'[t]) = 0
        BY <1>5, <3>2
      <4>3. ~Owes(t, i, irq)'
        BY <4>2 DEF Owes
      <4> QED
        BY <4>1, <4>3
    <3> QED
      BY <3>1, <3>2
  <2> QED
    BY <2>1, ServiceKept DEF IInv, terminate_process
<1> QED
  BY <1>8, <1>11, <1>12, <1>13, <1>14, <1>15, <1>16, <1>17 DEF IInv


LEMMA SpawnIInv ==
  ASSUME IInv, NEW t \in Tid, spawn_ram(t)
  PROVE  IInv'
<1>1. TypeOK /\ 0 \in Tid /\ current = 0 /\ base[0] = "boot" /\ frames[0] = <<>> /\ ~intr
  BY SMTT(30), SchedAssumption DEF IInv, TaskTableSound, Booting, spawn_ram, Tid
<1>2. ~Present(t) /\ Present(0) /\ t # 0 /\ base[t] = "none" /\ frames[t] = <<>>
  BY <1>1 DEF IInv, TaskTableSound, Bases, spawn_ram, IsNextTid
<1>3. /\ current' = t /\ ~intr'
      /\ saved' \in [Tid -> BOOLEAN] /\ ~saved'[0]
      /\ \A u \in Tid : u \notin {0, t} => saved'[u] = saved[u]
  <2>1. intr = FALSE /\ saved \in [Tid -> BOOLEAN]
    BY <1>1 DEF TypeOK
  <2> QED
    BY SMTT(30), <1>1, <1>2, <2>1 DEF spawn_ram, __context_switch
<1>4. LoadFrame(t) \in Frame /\ LoadFrame(t).pc = "iret" /\ LoadFrame(t).irq = "load"
  BY DEF LoadFrame, Frame
<1>5. /\ frames' \in [Tid -> Seq(Frame)] /\ frames'[t] = <<LoadFrame(t)>>
      /\ \A u \in Tid : u # t => frames'[u] = frames[u]
  <2> DEFINE f == LoadFrame(t)
  <2>1. f \in Frame
    BY <1>4
  <2>2. frames' = [frames EXCEPT ![t] = <<f>>]
    BY DEF spawn_ram
  <2> HIDE DEF f
  <2>3. <<f>> \in Seq(Frame)
    BY <2>1
  <2>4. frames' \in [Tid -> Seq(Frame)] /\ frames'[t] = <<f>>
    BY <1>1, <2>2, <2>3 DEF TypeOK
  <2>5. \A u \in Tid : u # t => frames'[u] = frames[u]
    BY <1>1, <2>2 DEF TypeOK
  <2> QED
    BY <2>4, <2>5 DEF f
<1>6. /\ Len(frames'[t]) = 1 /\ frames'[t] # <<>>
      /\ frames'[t][1].pc = "iret" /\ frames'[t][1].irq = "load"
  BY SMTT(30), <1>4, <1>5
<1>7. /\ base' \in [Tid -> {"none", "boot", "loop", "user"}] /\ base'[t] = "user"
      /\ \A u \in Tid : u # t => base'[u] = base[u]
  BY SMTT(30), <1>1 DEF TypeOK, spawn_ram
<1>8. /\ state' \in [Tid -> States] /\ state'[t] = {TASK_PRESENT}
      /\ \A u \in Tid : u # t => state'[u] = state[u]
  BY <1>1 DEF TypeOK, States, spawn_ram
<1>9. /\ ttl' \in [Tid -> 0 .. TTL] /\ ttl'[t] = TTL
      /\ \A u \in Tid : u # t => ttl'[u] = ttl[u]
  BY <1>1, SchedAssumption DEF TypeOK, spawn_ram
<1>10. waits' \in [Tid -> 0 .. MAX_TASK_NUM] /\ \A u \in Tid : waits'[u] = 0
  BY SchedAssumption DEF spawn_ram
<1>11. TaskTableSound'
  <2>1. spawns' \in 0 .. SPAWNS
    BY <1>1, SchedAssumption DEF TypeOK, spawn_ram
  <2>2. intr' \in BOOLEAN
    <3>1. intr' = FALSE
      BY <1>1, <1>2 DEF spawn_ram, __context_switch, TypeOK
    <3> QED
      BY <3>1
  <2>3. TypeOK'
    BY <1>1, <1>3, <1>5, <1>7, <1>8, <1>9, <1>10, <2>1, <2>2 DEF TypeOK, States, spawn_ram
  <2>4. Present(current)' /\ Present(0)'
    BY <1>1, <1>2, <1>3, <1>8 DEF Present
  <2>5. ASSUME NEW u \in Tid, state'[u] # {}
        PROVE  ttl'[u] \in 1 .. TTL /\ TASK_NEED_SCHED \notin state'[u]
    <3>1. CASE u = t
      BY SMTT(30), <1>8, <1>9, <3>1, SchedAssumption DEF TASK_PRESENT, TASK_NEED_SCHED
    <3>2. CASE u # t
      BY SMTT(30), <1>8, <1>9, <2>5, <3>2 DEF IInv, TaskTableSound, Present
    <3> QED
      BY <3>1, <3>2
  <2> QED
    BY <2>3, <2>4, <2>5 DEF TaskTableSound, Present
<1>12. Bases'
  <2>1. ASSUME NEW u \in Tid
        PROVE  /\ u # 0 => base'[u] \in {"none", "user"}
               /\ Present(u)' <=> base'[u] # "none"
               /\ base'[u] = "none" => frames'[u] = <<>>
    <3>1. CASE u = t
      BY SMTT(30), <1>7, <1>8, <3>1 DEF Present
    <3>2. CASE u # t
      BY SMTT(30), <1>5, <1>7, <1>8, <3>2 DEF IInv, Bases, Present
    <3> QED
      BY <3>1, <3>2
  <2> QED
    BY SMTT(30), <1>1, <1>2, <1>7, <2>1 DEF Bases
<1>13. Booting'
  BY SMTT(30), <1>1, <1>2, <1>3, <1>5 DEF Booting
<1>14. Stacks'
  <2>1. Stack(frames'[t])
    <3>1. \A i \in 1 .. 1 : ~(i > 1) /\ ~(i < 1)
      OBVIOUS
    <3> QED
      BY <1>6, <3>1 DEF Stack
  <2> QED
    BY <1>5, <1>7, <2>1 DEF IInv, Stacks
<1>15. Flags'
  <2> SUFFICES ASSUME NEW u \in Tid, frames'[u] # <<>>, Top(u)'.pc # "entry"
               PROVE  IF u = t THEN ~intr' ELSE ~saved'[u]
    BY SMTT(30), <1>3 DEF Flags
  <2>1. CASE u = t
    BY <1>3, <2>1
  <2>2. CASE u # t
    <3>1. u # 0 /\ frames[u] # <<>> /\ Top(u).pc # "entry"
      BY SMTT(30), <1>1, <1>5, <2>2 DEF Top
    <3>2. ~saved[u]
      BY SMTT(30), <1>1, <3>1 DEF IInv, Flags
    <3> QED
      BY SMTT(30), <1>3, <2>2, <3>1, <3>2
  <2> QED
    BY SMTT(30), <2>1, <2>2
<1>16. SuspendedInKernel'
  <2> SUFFICES ASSUME NEW u \in Tid, state'[u] # {}, u # t
               PROVE  IF frames'[u] = <<>> THEN u = 0 /\ base'[0] = "boot"
                                           ELSE frames'[u][Len(frames'[u])].pc = "iret"
    BY <1>3 DEF SuspendedInKernel, Present
  <2>1. CASE u = 0
    BY <1>1, <1>2, <1>5, <1>7, <2>1
  <2>2. CASE u # 0
    <3>1. Present(u) /\ u # current /\ frames'[u] = frames[u]
      BY <1>1, <1>5, <1>8, <2>2 DEF Present
    <3> QED
      BY SMTT(30), <1>1, <1>2, <1>7, <2>2, <3>1 DEF IInv, SuspendedInKernel
  <2> QED
    BY <2>1, <2>2
<1>17. InService'
  <2>1. ASSUME NEW u \in Tid, NEW i \in 1 .. 3, NEW irq \in Irq
        PROVE  Owes(u, i, irq)' <=> Owes(u, i, irq)
    <3>1. CASE u # t
      BY <1>5, <3>1 DEF Owes
    <3>2. CASE u = t
      <4>1. Len(frames[t]) = 0
        BY <1>2
      <4>2. ~Owes(u, i, irq)
        BY SMTT(30), <3>2, <4>1 DEF Owes
      <4>3. ~Owes(u, i, irq)'
        BY <1>6, <3>2 DEF Owes, Irq
      <4> QED
        BY <4>2, <4>3
    <3> QED
      BY <3>1, <3>2
  <2> QED
    BY <2>1, ServiceKept DEF IInv, spawn_ram
<1>18. Approaching'
  <2>1. \A u \in Tid : u # t => Distance(t, u) < MAX_TASK_NUM /\ Distance(t, u) \in Int
    BY SchedAssumption DEF Distance, Tid
  <2> QED
    BY <1>3, <1>10, <2>1 DEF Approaching, Distance
<1> QED
  BY SMTT(30), <1>11, <1>12, <1>13, <1>14, <1>15, <1>16, <1>17, <1>18 DEF IInv


-----------------------------------------------------------------------------
(* The invariants. *)

LEMMA StutterIInv ==
  ASSUME IInv, UNCHANGED vars
  PROVE  IInv'
<1>1. TaskTableSound' /\ Bases' /\ Booting'
  BY DEF IInv, vars, TaskTableSound, TypeOK, Present, Bases, Booting
<1>2. Stacks' /\ Flags' /\ SuspendedInKernel'
  BY DEF IInv, vars, Stacks, Flags, Top, SuspendedInKernel, Present
<1>3. InService'
  BY ServiceKept DEF IInv, vars, Owes
<1>4. Approaching'
  BY DEF IInv, vars, Approaching, Present, Distance
<1> QED
  BY SMTT(30), <1>1, <1>2, <1>3, <1>4 DEF IInv

LEMMA NextIInv ==
  ASSUME IInv, [Next]_vars
  PROVE  IInv'
<1>1. CASE \E t \in Tid : spawn_ram(t)
  BY <1>1, SpawnIInv
<1>2. CASE sti
  BY <1>2, StiIInv
<1>3. CASE \E irq \in Irq : Request(irq) \/ Deliver(irq)
  BY <1>3, RequestIInv, DeliverIInv
<1>4. CASE \E irq \in {"sys", "fault"} : Trap(irq)
  BY <1>4, TrapIInv
<1>5. CASE cli
  BY <1>5, CliIInv
<1>6. CASE irq_handler_entry
  BY <1>6, IrqIInv
<1>7. CASE fault_handler
  BY <1>7, FaultIInv
<1>8. CASE syscall
  BY <1>8, SyscallIInv
<1>9. CASE terminate_process
  BY <1>9, TerminateIInv
<1>10. CASE iret
  BY <1>10, IretIInv
<1>11. CASE UNCHANGED vars
  BY <1>11, StutterIInv
<1> QED
  BY <1>1, <1>2, <1>3, <1>4, <1>5, <1>6, <1>7, <1>8, <1>9, <1>10, <1>11 DEF Next

\* The inductive invariant holds in every state the kernel reaches, whatever the
\* interleaving of interrupts, system calls, faults and switches.
THEOREM Inductive == Spec => []IInv
<1>1. Init => IInv
  BY InitIInv
<1>2. IInv /\ [Next]_vars => IInv'
  BY NextIInv
<1> QED
  BY <1>1, <1>2, PTL DEF Spec

\* task_arr stays sound for any number of slots and ticks: the running task and task 0
\* are always in it, timer_handler never decrements a ttl of 0, and no request to
\* schedule outlives its interrupt.
THEOREM TaskTableAlwaysSound == Spec => []TaskTableSound
<1>1. IInv => TaskTableSound
  BY DEF IInv
<1> QED
  BY <1>1, Inductive, PTL

\* No interrupt is taken between the cli of a stub and its iret, however many turns
\* lie between the two.
THEOREM HandlersUninterrupted == Spec => []HandlerUninterrupted
<1>1. IInv => HandlerUninterrupted
  <2> SUFFICES ASSUME IInv, NEW t \in Tid, NEW i \in 1 .. Len(frames[t]),
                      frames[t][i].pc # "entry"
               PROVE  /\ i = Len(frames[t])
                      /\ IF t = current THEN ~intr ELSE ~saved[t]
    BY DEF HandlerUninterrupted
  <2>1. frames[t] \in Seq(Frame) /\ Stack(frames[t])
    BY DEF IInv, TaskTableSound, TypeOK, Stacks
  <2>2. i = Len(frames[t])
    BY <2>1 DEF Stack
  <2>3. frames[t] # <<>> /\ Top(t).pc # "entry"
    BY <2>1, <2>2 DEF Top
  <2> QED
    BY <2>2, <2>3 DEF IInv, Flags
<1> QED
  BY <1>1, Inductive, PTL

\* A task that does not run is in its own schedule or spawn_ram.
THEOREM AlwaysSuspendedInKernel == Spec => []SuspendedInKernel
<1>1. IInv => SuspendedInKernel
  BY DEF IInv
<1> QED
  BY <1>1, Inductive, PTL

\* The PIC's interrupts in service are those of the frames that have yet to send
\* their EOI, one frame each: every EOI ends the interrupt it is sent for.
THEOREM ServiceAlwaysExact == Spec => []InServiceExact
<1>1. IInv => InServiceExact
  BY ServiceExact DEF IInv, TaskTableSound
<1> QED
  BY <1>1, Inductive, PTL

\* No kernel stack ever holds more than three frames.
THEOREM NestingAlwaysBounded == Spec => []NestingBounded
<1>1. IInv => NestingBounded
  BY AtMostThree DEF IInv, TaskTableSound, TypeOK, Stacks, NestingBounded
<1> QED
  BY <1>1, Inductive, PTL

\* schedule passes over a waiting task at most MAX_TASK_NUM - 2 times, for any number
\* of slots.
THEOREM WaitingAlwaysBounded == Spec => []BoundedWaiting
<1>1. IInv => BoundedWaiting
  <2> SUFFICES ASSUME IInv, NEW t \in Tid, Present(t), t # current
               PROVE  waits[t] <= MAX_TASK_NUM - 2
    BY DEF BoundedWaiting
  <2>1. waits[t] + Distance(current, t) < MAX_TASK_NUM
    BY DEF IInv, Approaching
  <2>2. current \in Tid /\ waits[t] \in 0 .. MAX_TASK_NUM
    BY DEF IInv, TaskTableSound, TypeOK
  <2>3. Distance(current, t) \in Int /\ Distance(current, t) >= 1
    BY <2>2, SchedAssumption DEF Distance, Tid
  <2> QED
    BY <2>1, <2>2, <2>3, SchedAssumption
<1> QED
  BY <1>1, Inductive, PTL

=============================================================================
