---------------------------- MODULE FramesProofs ----------------------------
(***************************************************************************)
(* That the search of get_idle_frame_addr, a byte of the bitmap at a time, *)
(* finds the lowest idle frame, for every size of a byte and every range   *)
(* that starts at one.                                                     *)
(***************************************************************************)
EXTENDS Frames, TLAPS

\* Division with remainder.
LEMMA DivMod ==
  ASSUME NEW a \in Nat
  PROVE  a = BITS * (a \div BITS) + (a % BITS) /\ a % BITS \in 0 .. BITS - 1 /\ a \div BITS \in Nat
  BY FramesAssumption

\* Bit i of the byte the loop looks at for frame n is the bit of frame n + i.
LEMMA VisitedBit ==
  ASSUME NEW r \in Ranges, NEW n \in Visited(r[1], r[2]), NEW i \in 0 .. BITS - 1
  PROVE  Bit(n, i) = n + i
<1> DEFINE p == r[1] \div BITS
           d == n - r[1]
           k == d \div BITS
<1>1. r[1] \in Nat /\ r[1] % BITS = 0 /\ BITS \in Nat \ {0}
  BY FramesAssumption
<1>2. n \in Nat /\ d \in Nat /\ n = r[1] + d /\ d % BITS = 0
  <2>1. n \in r[1] .. r[2] - 1 /\ (n - r[1]) % BITS = 0 /\ r[2] \in Nat
    BY FramesAssumption DEF Visited
  <2>2. r[1] \in Nat /\ r[2] \in Nat /\ n \in r[1] .. r[2] - 1
    BY <1>1, <2>1
  <2>3. n \in Nat /\ d \in Nat /\ n = r[1] + d
    BY ONLY <2>2
  <2>4. d % BITS = 0
    BY <2>1
  <2> QED BY <2>3, <2>4
<1>3. p \in Nat /\ r[1] = BITS * p
  BY <1>1, DivMod
<1> HIDE DEF d
<1>4. k \in Nat /\ d = BITS * k
  BY <1>1, <1>2, DivMod
<1> HIDE DEF p, k
<1>5. n = BITS * (p + k)
  BY <1>1, <1>2, <1>3, <1>4
<1>6. (BITS * (p + k)) \div BITS = p + k
  BY <1>1, <1>3, <1>4
<1>7. (n \div BITS) * BITS = n
  BY <1>1, <1>3, <1>4, <1>5, <1>6
<1> QED BY <1>2, <1>7 DEF Bit

\* Every frame of the range belongs to a byte the loop may look at.
LEMMA VisitedCover ==
  ASSUME NEW r \in Ranges, NEW f \in r[1] .. r[2] - 1
  PROVE  \E n \in Visited(r[1], r[2]), i \in 0 .. BITS - 1 : f = n + i
<1> DEFINE d == f - r[1]
           q == d \div BITS
           i == d % BITS
           w == BITS * q
           n == r[1] + w
<1>1. r[1] \in Nat /\ r[2] \in Nat /\ BITS \in Nat \ {0}
  BY FramesAssumption
<1>2. d \in Nat /\ f = r[1] + d /\ f < r[2]
  BY <1>1
<1> HIDE DEF d
<1>3. d = BITS * q + i /\ i \in 0 .. BITS - 1 /\ q \in Nat
  BY <1>2, DivMod
<1> HIDE DEF q, i
<1>4. w \in Nat /\ w % BITS = 0 /\ d = w + i
  BY <1>1, <1>3
<1> HIDE DEF w
<1>5. n \in r[1] .. r[2] - 1 /\ n - r[1] = w /\ f = n + i
  BY <1>1, <1>2, <1>3, <1>4
<1>6. n \in Visited(r[1], r[2])
  BY <1>4, <1>5 DEF Visited
<1> QED BY <1>3, <1>5, <1>6

\* A call that finds a byte with a clear bit takes the lowest idle frame of the
\* range, or returns 0 when all the idle frames of that byte lie past its end.
LEMMA AllocLowest ==
  ASSUME NEW r \in Ranges, alloc_frame(r[1], r[2]), TypeOK
  PROVE  LowestIdle(r) /\ TypeOK'
<1>1. PICK n \in Visited(r[1], r[2]), i \in 0 .. BITS - 1 :
        /\ StopsAt(r[1], r[2], n) /\ IsFirstClrBit(n, i)
        /\ IF n + i + 1 > r[2]
             THEN result' = 0 /\ UNCHANGED bitmap
             ELSE result' = n + i /\ FRAME_BSET(n + i)
  BY DEF alloc_frame
<1>2. ~halted' /\ halted' = halted
  BY DEF alloc_frame, TypeOK
<1>3. r[1] \in Nat /\ r[2] \in Nat /\ r[1] > 0 /\ r[2] <= NFRAMES /\ BITS \in Nat \ {0} /\ NFRAMES \in Nat
  BY FramesAssumption
<1>4. n \in r[1] .. r[2] - 1
  BY DEF Visited
<1>5. n + i \notin bitmap /\ \A j \in 0 .. i - 1 : n + j \in bitmap
  <2>1. Bit(n, i) = n + i /\ \A j \in 0 .. i - 1 : j \in 0 .. BITS - 1 /\ Bit(n, j) = n + j
    BY <1>3, VisitedBit
  <2> QED BY <1>1, <2>1 DEF IsFirstClrBit
<1>6. \A f \in Idle(r) : n + i <= f
  <2> SUFFICES ASSUME NEW f \in Idle(r) PROVE n + i <= f
    OBVIOUS
  <2>1. f \in r[1] .. r[2] - 1 /\ f \notin bitmap
    BY DEF Idle
  <2>2. PICK m \in Visited(r[1], r[2]), j \in 0 .. BITS - 1 : f = m + j
    BY <2>1, VisitedCover
  <2>3. m \in r[1] .. r[2] - 1 /\ (m - r[1]) % BITS = 0 /\ (n - r[1]) % BITS = 0
    BY DEF Visited
  <2>4. ~Full(m)
    BY <2>1, <2>2, VisitedBit DEF Full
  <2>5. ~(m < n)
    BY <1>1, <2>4 DEF StopsAt
  <2>6. CASE m = n
    <3>1. ~(j < i)
      BY <1>3, <1>5, <2>1, <2>2, <2>6
    <3> QED BY <1>3, <1>4, <2>2, <2>6, <3>1
  <2>7. CASE m > n
    <3>1. m >= n + BITS
      <4> DEFINE a == (m - r[1]) \div BITS
                 b == (n - r[1]) \div BITS
      <4>0. m - r[1] \in Nat /\ n - r[1] \in Nat
        BY <1>3, <1>4, <2>3
      <4>a. /\ m - r[1] = BITS * a + ((m - r[1]) % BITS) /\ a \in Nat
            /\ n - r[1] = BITS * b + ((n - r[1]) % BITS) /\ b \in Nat
        BY ONLY <4>0, DivMod, Zenon
      <4> HIDE DEF a, b
      <4>b. BITS * a + 0 = BITS * a /\ BITS * b + 0 = BITS * b
        BY ONLY <1>3, <4>a
      <4>1. a \in Nat /\ m - r[1] = BITS * a
        BY ONLY <2>3, <4>a, <4>b, Zenon
      <4>2. b \in Nat /\ n - r[1] = BITS * b
        BY ONLY <2>3, <4>a, <4>b, Zenon
      <4>3. a >= b + 1
        BY <1>3, <1>4, <2>3, <2>7, <4>1, <4>2
      <4>4. BITS * a >= BITS * (b + 1)
        BY <1>3, <4>1, <4>2, <4>3
      <4>5. BITS * (b + 1) = BITS * b + BITS
        BY <1>3, <4>2
      <4> QED BY <1>3, <1>4, <2>3, <4>1, <4>2, <4>4, <4>5
    <3> QED BY <1>3, <1>4, <2>2, <2>3, <3>1
  <2> QED BY <1>4, <2>3, <2>5, <2>6, <2>7
<1>7. CASE n + i + 1 > r[2]
  <2>1. result' = 0 /\ bitmap' = bitmap
    BY <1>1, <1>7
  <2>2. Idle(r) = {}
    BY <1>3, <1>4, <1>6, <1>7 DEF Idle
  <2>3. 0 \in Frame
    BY <1>3, <1>4 DEF Frame
  <2> QED BY <1>2, <2>1, <2>2, <2>3 DEF LowestIdle, TypeOK
<1>8. CASE ~(n + i + 1 > r[2])
  <2>1. result' = n + i /\ bitmap' = bitmap \cup {n + i}
    BY <1>1, <1>8 DEF FRAME_BSET
  <2>2. n + i \in r[1] .. r[2] - 1 /\ n + i \in Frame \ {0}
    BY <1>3, <1>4, <1>8 DEF Frame
  <2>3. n + i \in Idle(r)
    BY <1>5, <2>2 DEF Idle
  <2> QED BY <1>2, <1>6, <2>1, <2>2, <2>3 DEF LowestIdle, TypeOK
<1> QED BY <1>7, <1>8

\* The assertion stops the machine only when the range has no idle frame.
LEMMA AssertFull ==
  ASSUME NEW r \in Ranges, alloc_frame_assert(r[1], r[2]), TypeOK
  PROVE  LowestIdle(r) /\ TypeOK'
<1>1. Idle(r) = {}
  <2> SUFFICES ASSUME NEW f \in Idle(r) PROVE FALSE
    OBVIOUS
  <2>1. f \in r[1] .. r[2] - 1 /\ f \notin bitmap
    BY DEF Idle
  <2>2. PICK n \in Visited(r[1], r[2]), i \in 0 .. BITS - 1 : f = n + i
    BY <2>1, VisitedCover
  <2>3. Bit(n, i) = f
    BY <2>2, VisitedBit
  <2> QED BY <2>1, <2>3 DEF alloc_frame_assert, Full
<1> QED BY <1>1 DEF LowestIdle, alloc_frame_assert, TypeOK

\* A step keeps the types.
LEMMA FramesStep ==
  ASSUME TypeOK, [Next]_vars
  PROVE  TypeOK'
<1>1. CASE \E r \in Ranges : alloc_frame(r[1], r[2])
  BY <1>1, AllocLowest
<1>2. CASE \E r \in Ranges : alloc_frame_assert(r[1], r[2])
  BY <1>2, AssertFull
<1>3. CASE \E f \in Frame : clear_frame(f)
  BY <1>3 DEF clear_frame, FRAME_BCLR, TypeOK
<1>4. CASE UNCHANGED vars
  BY <1>4 DEF vars, TypeOK
<1> QED BY <1>1, <1>2, <1>3, <1>4 DEF Next

\* The bitmap of kernel/frame.c marks frames of the memory only, never frame 0.
THEOREM FramesTypeOK == Spec => []TypeOK
<1>1. Init => TypeOK
  <2>1. 0 \in Frame
    BY FramesAssumption DEF Frame
  <2> QED BY <2>1 DEF Init, TypeOK
<1>2. TypeOK /\ [Next]_vars => TypeOK'
  BY FramesStep
<1> QED BY <1>1, <1>2, PTL DEF Spec

\* A call of alloc_frame always takes the lowest idle frame of the very range it was
\* given, and gives up only when that range has none.
THEOREM FramesLowestIdle == Spec => AllocsLowestIdle
<1>1. TypeOK => [\A r \in Ranges :
                    alloc_frame(r[1], r[2]) \/ alloc_frame_assert(r[1], r[2]) => LowestIdle(r)]_vars
  BY AllocLowest, AssertFull
<1> QED BY <1>1, FramesTypeOK, PTL DEF Spec, AllocsLowestIdle

=============================================================================
