------------------------------- MODULE Frames -------------------------------
(***************************************************************************)
(* The physical frame allocator, kernel/frame.c: a bitmap with a bit per   *)
(* frame, BITS bits to a byte, searched byte by byte for one that is not   *)
(* full.  Addresses are counted in frames (FRAME_NB(addr)); frame 0 stands *)
(* for the address 0, which alloc_frame returns for "none".                *)
(***************************************************************************)
EXTENDS Integers

CONSTANTS BITS,   \* bits of a byte of the bitmap, 8 in the code
          NFRAMES,\* MAX_FRAME_NUM
          Ranges  \* the <<min_addr, max_addr>> of the calls

\* Every caller passes megabytes: a range starts at a byte of the bitmap, above
\* address 0 and inside the memory.
ASSUME FramesAssumption ==
  /\ BITS \in Nat \ {0} /\ NFRAMES \in Nat \ {0}
  /\ Ranges \subseteq {r \in Nat \X Nat : r[1] > 0 /\ r[1] % BITS = 0 /\ r[2] <= NFRAMES}

Frame == 0 .. NFRAMES - 1

VARIABLES bitmap, \* the frames whose bit is set
          result, \* what alloc_frame returned last; 0 before the first call
          halted  \* the "no empty frame" assertion has stopped the machine

vars == <<bitmap, result, halted>>

\* Bit i of the byte that holds frame n.
Bit(n, i) == (n \div BITS) * BITS + i

\* The test for 0xFF, and first_clr_bit, of the byte that holds frame n.
Full(n) == \A i \in 0 .. BITS - 1 : Bit(n, i) \in bitmap
IsFirstClrBit(n, i) == Bit(n, i) \notin bitmap /\ \A j \in 0 .. i - 1 : Bit(n, j) \in bitmap

\* A mutant of Visited: the search starts one byte late.
Visited_late(min, max) == {n \in min + BITS .. max - 1 : (n - min) % BITS = 0}

\* The frames at which the loop of get_idle_frame_addr looks at a byte, and where
\* it stops: at the first byte with a clear bit.
Visited(min, max) == {n \in min .. max - 1 : (n - min) % BITS = 0}
StopsAt(min, max, n) ==
  /\ n \in Visited(min, max) /\ ~Full(n)
  /\ \A m \in Visited(min, max) : m < n => Full(m)

FRAME_BSET(f) == bitmap' = bitmap \cup {f}
FRAME_BCLR(f) == bitmap' = bitmap \ {f}

\* alloc_frame and get_idle_frame_addr: the frame of the first clear bit, or 0 if
\* it ends past max.
alloc_frame(min, max) ==
  /\ ~halted
  /\ \E n \in Visited(min, max), i \in 0 .. BITS - 1 :
       /\ StopsAt(min, max, n) /\ IsFirstClrBit(n, i)
       /\ IF n + i + 1 > max
            THEN result' = 0 /\ UNCHANGED bitmap
            ELSE result' = n + i /\ FRAME_BSET(n + i)
  /\ UNCHANGED halted

\* Every byte is full: ASSERT(1==0,"no empty frame ...").
alloc_frame_assert(min, max) ==
  /\ ~halted
  /\ \A n \in Visited(min, max) : Full(n)
  /\ halted' = TRUE
  /\ UNCHANGED <<bitmap, result>>

\* clear_frame, of a frame in use.
clear_frame(f) ==
  /\ ~halted /\ f \in bitmap
  /\ FRAME_BCLR(f)
  /\ UNCHANGED <<result, halted>>

Init == bitmap = {} /\ result = 0 /\ halted = FALSE

Next == \/ \E r \in Ranges : alloc_frame(r[1], r[2]) \/ alloc_frame_assert(r[1], r[2])
        \/ \E f \in Frame : clear_frame(f)

Spec == Init /\ [][Next]_vars

-----------------------------------------------------------------------------

\* The bitmap marks frames of the memory only, never frame 0.
TypeOK ==
  /\ bitmap \subseteq Frame \ {0}
  /\ result \in Frame
  /\ halted \in BOOLEAN

Idle(r) == {f \in r[1] .. r[2] - 1 : f \notin bitmap}

\* The lowest idle frame of the range r is taken, and only that one; or r has none,
\* and the call gives up, by returning 0 or by stopping the machine.
LowestIdle(r) ==
  \/ /\ Idle(r) = {}
     /\ UNCHANGED bitmap
     /\ result' = 0 \/ halted'
  \/ /\ result' \in Idle(r)
     /\ \A f \in Idle(r) : result' <= f
     /\ bitmap' = bitmap \cup {result'}
     /\ ~halted'
\* What alloc_frame promises its callers: a call with the range r marks the lowest idle
\* frame of that range, and only that one; it gives up only when r itself has no idle
\* frame.  It never returns a frame in use, or one of another range.
AllocsLowestIdle ==
  [][\A r \in Ranges :
       alloc_frame(r[1], r[2]) \/ alloc_frame_assert(r[1], r[2]) => LowestIdle(r)]_vars

=============================================================================
