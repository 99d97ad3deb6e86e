------------------------ MODULE AddressSpaceInvariant -------------------------
(***************************************************************************)
(* The inductive invariant of AddressSpace, for tables and memories of any *)
(* size and any programs linked below the kernel: what the tree of tables, *)
(* the temporary mappings and the local variables of a load satisfy between*)
(* two steps, and that every action but request_region_vmap's loop keeps it.*)
(***************************************************************************)
EXTENDS AddressSpace, TLAPS

Mem == [1 .. NFRAMES -> [Slots -> Entry]]

\* Entry i of frame d.
At(m, d, i) == m[d][i]
Phy(e) == e.f
\* Frame g is the same in two memories.
Same(m, n, g) == \A i : At(n, g, i) = At(m, g, i)

USE DEF Same


-----------------------------------------------------------------------------
(* What the frames are used for, over a memory m in which D are directories. *)

\* Directory d has table i for itself; it is a page table whose pages are d's.
Own(m, d, i) == PAGE_ENTRY_SET(At(m, d, i)) /\ (i < KDIR \/ i > KST \/ d = PG_DIR0)
Paged(m, d, i) == PAGE_ENTRY_SET(At(m, d, i)) /\ (i < KDIR \/ (i = KST /\ d = PG_DIR0))
Page(m, d, i, j) == At(m, Phy(At(m, d, i)), j)
HasPage(m, d, i, j) == Paged(m, d, i) /\ PAGE_ENTRY_SET(Page(m, d, i, j))

\* FramesExclusive, use by use.
DirsUsed(b, D) == \A d \in D : d = PG_DIR0 \/ d \in b
TablesUsed(m, b, D) == \A d \in D, i \in Slots :
  Own(m, d, i) => Phy(At(m, d, i)) \in b \cup 1 .. 5 /\ Phy(At(m, d, i)) \notin D
TablesApart(m, D) == \A d, e \in D, i, k \in Slots :
  Own(m, d, i) /\ Own(m, e, k) /\ Phy(At(m, d, i)) = Phy(At(m, e, k)) => d = e /\ i = k
PagesUsed(m, b, D) == \A d \in D, i, j \in Slots : HasPage(m, d, i, j) =>
  /\ Phy(Page(m, d, i, j)) \in b \ D
  /\ \A e \in D, k \in Slots : Own(m, e, k) => Phy(At(m, e, k)) # Phy(Page(m, d, i, j))
PagesApart(m, D) == \A d, e \in D, i, j, k, x \in Slots :
  HasPage(m, d, i, j) /\ HasPage(m, e, k, x) /\ Phy(Page(m, d, i, j)) = Phy(Page(m, e, k, x))
    => d = e /\ i = k /\ j = x

\* Every frame handed out is used.
Covered(m, b, D) ==
  \A f \in b : \/ f \in D
               \/ \E d \in D, i \in Slots : Own(m, d, i) /\ Phy(At(m, d, i)) = f
               \/ \E d \in D, i, j \in Slots : HasPage(m, d, i, j) /\ Phy(Page(m, d, i, j)) = f

\* Every directory has the kernel's entries and a reverse table.
Linked0(m, D) ==
  /\ PG_DIR0 \in D /\ Phy(At(m, PG_DIR0, SYS)) = SYS0
  /\ \A d \in D :
       /\ \A i \in KDIR .. KST : At(m, d, i) = At(m, PG_DIR0, i)
       /\ PAGE_ENTRY_SET(At(m, d, KDIR)) /\ PAGE_ENTRY_SET(At(m, d, SYS)) /\ PAGE_ENTRY_SET(At(m, d, REV))
Reversed(m, D) == \A d \in D, i \in (0 .. KDIR - 1) \cup {SYS, REV} :
  Phy(At(m, Phy(At(m, d, REV)), i)) = Phy(At(m, d, i))

TreeIs(m, b, D) ==
  /\ DirsUsed(b, D) /\ TablesUsed(m, b, D) /\ TablesApart(m, D)
  /\ PagesUsed(m, b, D) /\ PagesApart(m, D)
  /\ Covered(m, b, D) /\ Linked0(m, D) /\ Reversed(m, D)

\* The page of task 0's kernel stack is there.
KPage(m) == At(m, Phy(At(m, PG_DIR0, KST)), W - 1)
Stacked(m) == PAGE_ENTRY_SET(At(m, PG_DIR0, KST)) /\ PAGE_ENTRY_SET(KPage(m))

-----------------------------------------------------------------------------
(* The temporary mappings. *)

Maps(m, s, f) == s \in Slots /\ PAGE_ENTRY_SET(At(m, SYS0, s)) /\ Phy(At(m, SYS0, s)) = f
Used(m) == {i \in Slots : PAGE_ENTRY_SET(At(m, SYS0, i))}
Count(m) == Cardinality(Used(m))

\* Only mappings change, and of those in use no other than X.
SameBut(m, n) == \A g \in 1 .. NFRAMES : g # SYS0 => Same(m, n, g)
Kept(m, n, X) == \A s \in Used(m) \ X : At(n, SYS0, s) = At(m, SYS0, s)

-----------------------------------------------------------------------------
(* Numbers. *)

LEMMA Constants ==
  /\ W \in Nat /\ W >= 6 /\ 2 * LOADS + 6 <= W /\ LOADS \in Nat
  /\ KDIR \in Nat /\ KDIR >= 1 /\ KDIR <= W - 4 /\ NFRAMES \in Nat /\ NFRAMES >= 5
  /\ KST = W - 3 /\ SYS = W - 2 /\ REV = W - 1
  /\ {0, KDIR, KST, SYS, REV} \subseteq Slots /\ 0 .. KDIR - 1 \subseteq Slots
  /\ PG_DIR0 = 1 /\ REV0 = 2 /\ SYS0 = 3 /\ KERNEL_PT = 4 /\ LOW_PT = 5 /\ USER_P_START = 6
  /\ {PG_DIR0, SYS0} \subseteq 1 .. NFRAMES
BY AddressSpaceAssumption
  DEF KST, SYS, REV, Slots, PG_DIR0, REV0, SYS0, KERNEL_PT, LOW_PT, USER_P_START

\* Division with remainder has one result.
LEMMA Quotient ==
  ASSUME NEW p \in Nat, NEW q \in Nat, NEW j \in Slots, p = q * W + j
  PROVE  PAGE_DIR_INDEX(p) = q /\ PAGE_TABLE_INDEX(p) = j
<1> DEFINE x == p \div W
           y == p % W
<1>1. W \in Nat /\ W > 0 /\ j \in 0 .. W - 1
  BY Constants DEF Slots
<1>2. x \in Int /\ y \in 0 .. W - 1 /\ p = W * x + y
  BY <1>1
<1> HIDE DEF x, y
<1>3. CASE x >= q + 1
  <2>1. W * x >= W * (q + 1)
    BY <1>1, <1>2, <1>3
  <2>2. W * (q + 1) = q * W + W
    BY <1>1
  <2> QED
    BY <1>1, <1>2, <2>1, <2>2
<1>4. CASE x <= q - 1
  <2>1. W * x <= W * (q - 1)
    BY <1>1, <1>2, <1>4
  <2>2. W * (q - 1) = q * W - W
    BY <1>1
  <2> QED
    BY <1>1, <1>2, <2>1, <2>2
<1>5. CASE x = q
  <2>1. W * x = q * W
    BY <1>1, <1>5
  <2> QED
    BY <1>1, <1>2, <1>5, <2>1 DEF x, y, PAGE_DIR_INDEX, PAGE_TABLE_INDEX
<1> QED
  BY <1>2, <1>3, <1>4, <1>5

LEMMA Indexes ==
  ASSUME NEW p \in Nat
  PROVE  /\ PAGE_DIR_INDEX(p) \in Nat /\ PAGE_TABLE_INDEX(p) \in Slots
         /\ p = PAGE_DIR_INDEX(p) * W + PAGE_TABLE_INDEX(p)
<1> DEFINE x == p \div W
           y == p % W
<1>1. W \in Nat /\ W > 0
  BY Constants
<1>2. x \in Int /\ y \in 0 .. W - 1 /\ p = W * x + y
  BY <1>1
<1> HIDE DEF x, y
<1>3. x <= -1 => W * x <= W * (-1)
  BY <1>1, <1>2
<1>4. x \in Nat /\ p = x * W + y
  BY <1>1, <1>2, <1>3
<1> QED
  BY Zenon, <1>2, <1>4 DEF x, y, PAGE_DIR_INDEX, PAGE_TABLE_INDEX, Slots

\* A later page has no earlier table.
LEMMA IndexGrows ==
  ASSUME NEW p \in Nat, NEW q \in Nat, p <= q
  PROVE  PAGE_DIR_INDEX(p) <= PAGE_DIR_INDEX(q)
<1> DEFINE x == PAGE_DIR_INDEX(p)
           y == PAGE_DIR_INDEX(q)
           i == PAGE_TABLE_INDEX(p)
           j == PAGE_TABLE_INDEX(q)
<1>1. W \in Nat /\ W > 0 /\ x \in Nat /\ y \in Nat /\ i \in 0 .. W - 1 /\ j \in 0 .. W - 1
      /\ p = x * W + i /\ q = y * W + j
  BY Constants, Indexes DEF Slots
<1> HIDE DEF x, y, i, j
<1>2. x >= y + 1 => x * W >= (y + 1) * W
  BY <1>1
<1>3. (y + 1) * W = y * W + W
  BY <1>1
<1>4. x <= y
  BY <1>1, <1>2, <1>3
<1> QED
  BY Zenon, <1>4 DEF x, y

\* The pages of a program are the user's; the stacks have the tables they have.
LEMMA Pages0 ==
  /\ \A p \in Nat : p < KDIR * W => PAGE_DIR_INDEX(p) \in 0 .. KDIR - 1
  /\ KSTACK_FRAME \in Nat /\ USTACK_FRAME \in Nat
  /\ PAGE_DIR_INDEX(KSTACK_FRAME) = KST /\ PAGE_TABLE_INDEX(KSTACK_FRAME) = W - 1
  /\ PAGE_DIR_INDEX(KSTACK_FRAME + 1) = SYS
  /\ PAGE_DIR_INDEX(USTACK_FRAME) = KDIR - 1
  /\ PAGE_DIR_INDEX(USTACK_FRAME + 1) = KDIR
<1>1. W \in Nat /\ W >= 6 /\ KDIR \in Nat /\ KDIR >= 1 /\ KST = W - 3 /\ SYS = W - 2
  BY Zenon, Constants
<1>2. KDIR * W \in Nat /\ (KDIR - 1) * W \in Nat /\ KST * W \in Nat /\ SYS * W \in Nat
  BY <1>1
<1>3. KDIR * W = (KDIR - 1) * W + W
  BY <1>1
<1>4. SYS * W = KST * W + W
  <2>1. (W - 2) * W = (W - 3) * W + W
    BY <1>1
  <2> QED
    BY Zenon, <1>1, <2>1
<1>5. ASSUME NEW p \in Nat, p < KDIR * W
      PROVE  PAGE_DIR_INDEX(p) \in 0 .. KDIR - 1
  <2> DEFINE x == PAGE_DIR_INDEX(p)
             i == PAGE_TABLE_INDEX(p)
  <2>1. x \in Nat /\ i \in 0 .. W - 1 /\ p = x * W + i
    BY Zenon, Indexes DEF Slots
  <2> HIDE DEF x, i
  <2>2. x >= KDIR => x * W >= KDIR * W
    BY <1>1, <2>1
  <2>3. x \in 0 .. KDIR - 1
    BY <1>1, <1>2, <1>5, <2>1, <2>2
  <2> QED
    BY Zenon, <2>3 DEF x
<1>6. W - 1 \in Slots /\ 0 \in Slots /\ KST \in Nat /\ SYS \in Nat /\ KDIR - 1 \in Nat
  BY <1>1 DEF Slots
<1>7. KSTACK_FRAME = KST * W + (W - 1) /\ KSTACK_FRAME + 1 = SYS * W + 0
  BY <1>1, <1>2, <1>4 DEF KSTACK_FRAME
<1>8. USTACK_FRAME = (KDIR - 1) * W + (W - 1) /\ USTACK_FRAME + 1 = KDIR * W + 0
  BY <1>1, <1>2, <1>3 DEF USTACK_FRAME, KERNEL_V_START
<1>9. KSTACK_FRAME \in Nat /\ USTACK_FRAME \in Nat
  BY <1>1, <1>2, <1>7, <1>8
<1>10. PAGE_DIR_INDEX(KSTACK_FRAME) = KST /\ PAGE_TABLE_INDEX(KSTACK_FRAME) = W - 1
  BY Zenon, <1>6, <1>7, <1>9, Quotient
<1>11. PAGE_DIR_INDEX(KSTACK_FRAME + 1) = SYS
  BY <1>6, <1>7, <1>9, Quotient
<1>12. PAGE_DIR_INDEX(USTACK_FRAME) = KDIR - 1
  BY <1>6, <1>8, <1>9, Quotient
<1>13. PAGE_DIR_INDEX(USTACK_FRAME + 1) = KDIR
  BY <1>1, <1>6, <1>8, <1>9, Quotient
<1> QED
  BY Zenon, <1>5, <1>9, <1>10, <1>11, <1>12, <1>13

LEMMA LastPages ==
  ASSUME NEW a \in Nat, NEW n \in Nat
  PROVE  /\ LastPage(a, n) \in Nat /\ LastPage(a, n) >= a
         /\ \A k \in Nat : 2 * k < n => a + k <= LastPage(a, n)
         /\ 2 * (LastPage(a, n) - a) <= n
BY DEF LastPage

\* A program is the user's.
LEMMA HeaderFacts ==
  ASSUME NEW h \in Headers
  PROVE  /\ h.vma_text \in Nat /\ h.text_size \in Nat /\ h.vma_data \in Nat /\ h.data_size \in Nat
         /\ \A p \in Nat : (\/ p <= LastPage(h.vma_text, h.text_size)
                           \/ p <= LastPage(h.vma_data, h.data_size))
                          => PAGE_DIR_INDEX(p) \in 0 .. KDIR - 1
<1>1. /\ h.vma_text \in Nat /\ h.text_size \in Nat /\ h.vma_data \in Nat /\ h.data_size \in Nat
      /\ LastPage(h.vma_text, h.text_size) < KDIR * W /\ LastPage(h.vma_data, h.data_size) < KDIR * W
  BY Zenon, AddressSpaceAssumption
<1>2. LastPage(h.vma_text, h.text_size) \in Nat /\ LastPage(h.vma_data, h.data_size) \in Nat
  BY Zenon, <1>1, LastPages
<1>3. KDIR * W \in Nat
  BY Constants
<1>4. ASSUME NEW p \in Nat, \/ p <= LastPage(h.vma_text, h.text_size)
                           \/ p <= LastPage(h.vma_data, h.data_size)
      PROVE  PAGE_DIR_INDEX(p) \in 0 .. KDIR - 1
  <2>1. p < KDIR * W
    BY <1>1, <1>2, <1>3, <1>4
  <2> QED
    BY Zenon, <2>1, Pages0
<1> QED
  BY Zenon, <1>1, <1>4

-----------------------------------------------------------------------------
(* Frames and slots. *)

\* What the lemmas use of numbers and finite sets.  It is a hypothesis of theirs, which
\* AddressSpaceProofs proves at its end: the library's theorems stay out of their proofs.
SetFacts ==
  /\ \A S \in SUBSET Nat : S # {} => \E x \in S : \A y \in S : x <= y
  /\ \A i, j \in Nat : IsFiniteSet(i .. j) /\ (i <= j => Cardinality(i .. j) = j - i + 1)
  /\ \A S : IsFiniteSet(S) => Cardinality(S) \in Nat /\ (Cardinality(S) = 0 <=> S = {})
  /\ \A S, x : IsFiniteSet(S) /\ x \notin S =>
       IsFiniteSet(S \cup {x}) /\ Cardinality(S \cup {x}) = Cardinality(S) + 1
  /\ \A S, x : IsFiniteSet(S) =>
       /\ IsFiniteSet(S \ {x})
       /\ Cardinality(S \ {x}) = IF x \in S THEN Cardinality(S) - 1 ELSE Cardinality(S)
  /\ \A S : IsFiniteSet(S) =>
       \A T \in SUBSET S : IsFiniteSet(T) /\ Cardinality(T) <= Cardinality(S)

LEMMA LowestIn ==
  ASSUME SetFacts, NEW S \in SUBSET Nat, S # {}
  PROVE  Lowest(S) \in S
BY Zenon DEF SetFacts, Lowest

LEMMA AllocFrame ==
  ASSUME SetFacts, NEW b, Idle(b) # {}
  PROVE  alloc_frame(b) \in USER_P_START .. NFRAMES /\ alloc_frame(b) \notin b
<1>1. Idle(b) \subseteq Nat
  BY Constants DEF Idle
<1>2. Lowest(Idle(b)) \in Idle(b)
  BY Zenon, <1>1, LowestIn
<1> QED
  BY Zenon, <1>2 DEF alloc_frame, Idle

\* A frame handed out is one idle frame less.
LEMMA IdleFrames ==
  ASSUME SetFacts, NEW b
  PROVE  /\ Cardinality(Idle(b)) \in Nat
         /\ Cardinality(Idle(b)) >= 1 => Idle(b) # {}
         /\ Idle(b) # {} => Cardinality(Idle(b \cup {alloc_frame(b)})) = Cardinality(Idle(b)) - 1
<1>1. IsFiniteSet(Idle(b))
  <2>1. IsFiniteSet(USER_P_START .. NFRAMES)
    BY Constants DEF SetFacts
  <2>2. Idle(b) \in SUBSET (USER_P_START .. NFRAMES)
    BY Zenon DEF Idle
  <2> QED
    BY Zenon, <2>1, <2>2 DEF SetFacts
<1>2. Cardinality(Idle(b)) \in Nat
  BY Zenon, <1>1 DEF SetFacts
<1>3. Cardinality(Idle(b)) >= 1 => Idle(b) # {}
  <2>1. Cardinality(Idle(b)) = 0 <=> Idle(b) = {}
    BY Zenon, <1>1 DEF SetFacts
  <2> QED
    BY <1>2, <2>1
<1>4. ASSUME Idle(b) # {}
      PROVE  Cardinality(Idle(b \cup {alloc_frame(b)})) = Cardinality(Idle(b)) - 1
  <2>1. alloc_frame(b) \in Idle(b)
    BY Zenon, <1>4, AllocFrame DEF Idle
  <2>2. Idle(b \cup {alloc_frame(b)}) = Idle(b) \ {alloc_frame(b)}
    BY Zenon DEF Idle
  <2>3. Cardinality(Idle(b) \ {alloc_frame(b)}) =
          IF alloc_frame(b) \in Idle(b) THEN Cardinality(Idle(b)) - 1 ELSE Cardinality(Idle(b))
    BY Zenon, <1>1 DEF SetFacts
  <2> QED
    BY Zenon, <2>1, <2>2, <2>3
<1> QED
  BY Zenon, <1>2, <1>3, <1>4


LEMMA Slots0 ==
  ASSUME SetFacts, NEW m \in Mem
  PROVE  /\ IsFiniteSet(Used(m)) /\ Count(m) \in Nat
         /\ Count(m) < W => FreeSlot(m) \in Slots \ Used(m)
<1>1. IsFiniteSet(Slots) /\ Cardinality(Slots) = W
  BY Constants DEF SetFacts, Slots
<1>2. Used(m) \in SUBSET Slots
  BY Zenon DEF Used
<1>3. IsFiniteSet(Used(m))
  BY Zenon, <1>1, <1>2 DEF SetFacts
<1>4. Count(m) \in Nat
  BY Zenon, <1>3 DEF SetFacts, Count
<1>5. ASSUME Count(m) < W
      PROVE  FreeSlot(m) \in Slots \ Used(m)
  <2> DEFINE F == {i \in Slots : ~PAGE_ENTRY_SET(At(m, SYS0, i))}
  <2>1. Used(m) # Slots
    BY <1>1, <1>4, <1>5, Constants DEF Count
  <2>2. F # {} /\ F = Slots \ Used(m)
    BY Zenon, <2>1 DEF Used
  <2>3. F \in SUBSET Nat
    BY Constants DEF Slots
  <2>4. FreeSlot(m) = Lowest(F)
    BY Zenon DEF FreeSlot, At
  <2> HIDE DEF F
  <2>5. Lowest(F) \in F
    BY Zenon, <2>2, <2>3, LowestIn
  <2> QED
    BY Zenon, <2>2, <2>4, <2>5
<1> QED
  BY Zenon, <1>3, <1>4, <1>5

LEMMA MapsKept ==
  ASSUME NEW m, NEW n, NEW X, Kept(m, n, X), NEW s, NEW f, Maps(m, s, f), s \notin X
  PROVE  Maps(n, s, f)
BY Zenon DEF Kept, Maps, Used

SetTemp(m, s, e) == [m EXCEPT ![SYS0][s] = e]

\* What a slot is set to, and the number of slots in use.
LEMMA SetSlot ==
  ASSUME NEW m \in Mem, NEW s \in Slots, NEW e \in Entry, NEW n, n = SetTemp(m, s, e)
  PROVE  /\ n \in Mem /\ SameBut(m, n) /\ At(n, SYS0, s) = e
         /\ \A i \in Slots \ {s} : At(n, SYS0, i) = At(m, SYS0, i)
         /\ PAGE_ENTRY_SET(e) => Used(n) = Used(m) \cup {s}
         /\ ~PAGE_ENTRY_SET(e) => Used(n) = Used(m) \ {s}
<1>1. SYS0 \in 1 .. NFRAMES
  BY Zenon, Constants
<1>2. n \in Mem /\ SameBut(m, n) /\ At(n, SYS0, s) = e
  BY Zenon, <1>1 DEF Mem, SameBut, SetTemp, At
<1>3. \A i \in Slots \ {s} : At(n, SYS0, i) = At(m, SYS0, i)
  BY Zenon, <1>1 DEF Mem, SetTemp, At
<1>4. /\ PAGE_ENTRY_SET(e) => Used(n) = Used(m) \cup {s}
      /\ ~PAGE_ENTRY_SET(e) => Used(n) = Used(m) \ {s}
  BY ONLY <1>2, <1>3, s \in Slots DEF Used
<1> QED
  BY Zenon, <1>2, <1>3, <1>4

LEMMA CreateTemp ==
  ASSUME SetFacts, NEW m \in Mem, NEW f \in 0 .. NFRAMES, Count(m) < W
  PROVE  LET n == create_temp_va(m, f)
         IN  /\ n \in Mem /\ SameBut(m, n) /\ Kept(m, n, {})
             /\ FreeSlot(m) \in Slots \ Used(m) /\ Maps(n, FreeSlot(m), f)
             /\ Used(n) = Used(m) \cup {FreeSlot(m)} /\ Count(n) = Count(m) + 1
<1> DEFINE s == FreeSlot(m)
           n == create_temp_va(m, f)
<1>1. s \in Slots \ Used(m) /\ IsFiniteSet(Used(m))
  BY Zenon, Slots0
<1>2. To(f, "krn") \in Entry /\ PAGE_ENTRY_SET(To(f, "krn")) /\ To(f, "krn").f = f
  BY Zenon DEF To, Entry, PAGE_ENTRY_SET
<1>3. n = SetTemp(m, s, To(f, "krn"))
  BY Zenon DEF create_temp_va, SetTemp
<1> HIDE DEF s, n
<1>4. /\ n \in Mem /\ SameBut(m, n) /\ At(n, SYS0, s) = To(f, "krn")
      /\ \A i \in Slots \ {s} : At(n, SYS0, i) = At(m, SYS0, i)
      /\ Used(n) = Used(m) \cup {s}
  BY <1>1, <1>2, <1>3, SetSlot
<1>5. Kept(m, n, {}) /\ Maps(n, s, f)
  BY Zenon, <1>1, <1>2, <1>4 DEF Kept, Maps, Used, Phy
<1>6. Count(n) = Count(m) + 1
  <2>1. Cardinality(Used(m) \cup {s}) = Cardinality(Used(m)) + 1
    BY Zenon, <1>1 DEF SetFacts
  <2> QED
    BY Zenon, <1>4, <2>1 DEF Count
<1> QED
  BY Zenon, <1>1, <1>4, <1>5, <1>6 DEF s, n

LEMMA DeleteTemp ==
  ASSUME SetFacts, NEW m \in Mem, NEW s \in Slots
  PROVE  LET n == delete_temp_va(m, s)
         IN  /\ n \in Mem /\ SameBut(m, n) /\ Kept(m, n, {s})
             /\ Used(n) = Used(m) \ {s} /\ Count(n) <= Count(m)
             /\ s \in Used(m) => Count(n) = Count(m) - 1
<1> DEFINE n == delete_temp_va(m, s)
<1>1. IsFiniteSet(Used(m)) /\ Count(m) \in Nat
  BY Zenon, Slots0
<1>2. Unset \in Entry /\ ~PAGE_ENTRY_SET(Unset)
  BY Constants DEF Unset, Entry, PAGE_ENTRY_SET
<1>3. n = SetTemp(m, s, Unset)
  BY Zenon DEF delete_temp_va, SetTemp
<1> HIDE DEF n
<1>4. /\ n \in Mem /\ SameBut(m, n)
      /\ \A i \in Slots \ {s} : At(n, SYS0, i) = At(m, SYS0, i)
      /\ Used(n) = Used(m) \ {s}
  BY <1>2, <1>3, SetSlot
<1>5. Kept(m, n, {s})
  BY Zenon, <1>4 DEF Kept, Used
<1>6. Count(n) <= Count(m) /\ (s \in Used(m) => Count(n) = Count(m) - 1)
  <2>1. Cardinality(Used(m) \ {s}) =
          IF s \in Used(m) THEN Cardinality(Used(m)) - 1 ELSE Cardinality(Used(m))
    BY Zenon, <1>1 DEF SetFacts
  <2> QED
    BY <1>1, <1>4, <2>1 DEF Count
<1> QED
  BY Zenon, <1>4, <1>5, <1>6 DEF n

LEMMA GetTemp ==
  ASSUME SetFacts, NEW m \in Mem, NEW f \in 0 .. NFRAMES, Count(m) < W
  PROVE  LET n == get_temp_va(m, f)
         IN  /\ n \in Mem /\ SameBut(m, n) /\ Kept(m, n, {}) /\ Maps(n, TempSlot(m, f), f)
             /\ Mapping(m, f) = {} => /\ Count(n) = Count(m) + 1
                                      /\ TempSlot(m, f) \in Slots \ Used(m)
                                      /\ Used(n) = Used(m) \cup {TempSlot(m, f)}
             /\ Mapping(m, f) # {} => n = m
<1>1. CASE Mapping(m, f) = {}
  BY Zenon, <1>1, CreateTemp DEF get_temp_va, TempSlot
<1>2. CASE Mapping(m, f) # {}
  <2>1. Mapping(m, f) \in SUBSET Nat
    BY Constants DEF Mapping, Slots
  <2>2. Lowest(Mapping(m, f)) \in Mapping(m, f)
    BY Zenon, <1>2, <2>1, LowestIn
  <2>3. Maps(m, Lowest(Mapping(m, f)), f)
    BY Zenon, <2>2 DEF Mapping, Maps, At, Phy
  <2> QED
    BY Zenon, <1>2, <2>3 DEF get_temp_va, TempSlot, SameBut, Kept
<1> QED
  BY Zenon, <1>1, <1>2

LEMMA Mapped ==
  ASSUME NEW m, NEW s, NEW f, Maps(m, s, f)
  PROVE  Mapping(m, f) # {} /\ s \in Used(m)
BY Zenon DEF Mapping, Maps, Used, At, Phy

\* Looking a page up removes a mapping of its table and no other.
LEMMA GetPhy ==
  ASSUME SetFacts, NEW m \in Mem, NEW dir, NEW p, Count(m) < W, TableOf(m, dir, p) \in 0 .. NFRAMES
  PROVE  LET n == After_get_phy(m, dir, p)
             t == TableOf(m, dir, p)
         IN  /\ n \in Mem /\ SameBut(m, n) /\ Count(n) <= Count(m)
             /\ Mapping(m, t) # {} => Count(n) = Count(m) - 1
             /\ \A s, f : Maps(m, s, f) /\ f # t => Maps(n, s, f)
<1> DEFINE t == TableOf(m, dir, p)
           s == TempSlot(m, t)
           g == get_temp_va(m, t)
           n == After_get_phy(m, dir, p)
<1>1. /\ g \in Mem /\ SameBut(m, g) /\ Kept(m, g, {}) /\ Maps(g, s, t)
      /\ Mapping(m, t) = {} => Count(g) = Count(m) + 1
      /\ Mapping(m, t) # {} => g = m
  BY Zenon, GetTemp
<1>2. n = delete_temp_va(g, s)
  BY Zenon DEF After_get_phy
<1>3. Count(m) \in Nat
  BY Zenon, Slots0
<1> HIDE DEF t, s, g, n
<1>4. s \in Slots /\ s \in Used(g)
  BY Zenon, <1>1, Mapped DEF Maps
<1>5. n \in Mem /\ SameBut(g, n) /\ Kept(g, n, {s}) /\ Count(n) = Count(g) - 1
  BY Zenon, <1>1, <1>2, <1>4, DeleteTemp
<1>6. SameBut(m, n)
  BY Zenon, <1>1, <1>5 DEF SameBut
<1>7. Count(n) <= Count(m) /\ (Mapping(m, t) # {} => Count(n) = Count(m) - 1)
  BY <1>1, <1>3, <1>5
<1>8. ASSUME NEW i, NEW f, Maps(m, i, f), f # t
      PROVE  Maps(n, i, f)
  <2>1. Maps(g, i, f)
    BY Zenon, <1>1, <1>8, MapsKept
  <2>2. i # s
    BY Zenon, <1>1, <1>8, <2>1 DEF Maps
  <2> QED
    BY <1>5, <2>1, <2>2, MapsKept
<1>9. \A i, f : Maps(m, i, f) /\ f # t => Maps(n, i, f)
  BY Zenon, <1>8
<1> QED
  BY Zenon, <1>5, <1>6, <1>7, <1>9 DEF t, n


-----------------------------------------------------------------------------
(* What the uses of the frames are after a change of the tables. *)

\* The frames of a tree.
LEMMA TreeFrames ==
  ASSUME NEW m \in Mem, NEW b \in SUBSET (USER_P_START .. NFRAMES), NEW D, TreeIs(m, b, D)
  PROVE  /\ D \subseteq 1 .. NFRAMES /\ PG_DIR0 \in D /\ SYS0 \notin D
         /\ \A d \in D : Own(m, d, SYS) /\ Own(m, d, REV)
         /\ \A d \in D, i \in Slots : Own(m, d, i) =>
              /\ Phy(At(m, d, i)) \in 1 .. NFRAMES /\ Phy(At(m, d, i)) \notin D
              /\ i # SYS => Phy(At(m, d, i)) # SYS0
         /\ \A d \in D, i \in Slots : Paged(m, d, i) => Own(m, d, i) /\ i # SYS /\ i # REV
<1>1. /\ DirsUsed(b, D) /\ TablesUsed(m, b, D) /\ TablesApart(m, D) /\ Linked0(m, D)
  BY Zenon DEF TreeIs
<1>2. D \subseteq 1 .. NFRAMES /\ PG_DIR0 \in D
  BY <1>1, Constants DEF DirsUsed, Linked0
<1>3. \A d \in D : Own(m, d, SYS) /\ Own(m, d, REV)
  BY <1>1, Constants DEF Linked0, Own
<1>4. Phy(At(m, PG_DIR0, SYS)) = SYS0
  BY Zenon, <1>1 DEF Linked0
<1>5. SYS \in Slots
  BY Zenon, Constants
<1>6. SYS0 \notin D
  BY Zenon, <1>1, <1>2, <1>3, <1>4, <1>5 DEF TablesUsed
<1>7. ASSUME NEW d \in D, NEW i \in Slots, Own(m, d, i)
      PROVE  /\ Phy(At(m, d, i)) \in 1 .. NFRAMES /\ Phy(At(m, d, i)) \notin D
             /\ i # SYS => Phy(At(m, d, i)) # SYS0
  <2>1. Phy(At(m, d, i)) \in b \cup 1 .. 5 /\ Phy(At(m, d, i)) \notin D
    BY Zenon, <1>1, <1>7 DEF TablesUsed
  <2>2. i # SYS => Phy(At(m, d, i)) # SYS0
    BY Zenon, <1>1, <1>2, <1>3, <1>4, <1>5, <1>7 DEF TablesApart
  <2>3. \A x \in b \cup 1 .. 5 : x \in 1 .. NFRAMES
    BY Constants
  <2> QED
    BY Zenon, <2>1, <2>2, <2>3
<1>8. \A d \in D, i \in Slots : Paged(m, d, i) => Own(m, d, i) /\ i # SYS /\ i # REV
  BY Constants DEF Paged, Own
<1> QED
  BY Zenon, <1>2, <1>3, <1>6, <1>7, <1>8

\* Mappings play no part in it.
LEMMA SameTree ==
  ASSUME NEW m \in Mem, NEW b \in SUBSET (USER_P_START .. NFRAMES), NEW D, TreeIs(m, b, D),
         NEW n \in Mem, SameBut(m, n)
  PROVE  TreeIs(n, b, D) /\ \A d \in D : Same(m, n, d)
<1>1. /\ D \subseteq 1 .. NFRAMES /\ SYS0 \notin D /\ PG_DIR0 \in D
      /\ \A d \in D : Own(m, d, SYS) /\ Own(m, d, REV)
      /\ \A d \in D, i \in Slots : Own(m, d, i) =>
           Phy(At(m, d, i)) \in 1 .. NFRAMES /\ (i # SYS => Phy(At(m, d, i)) # SYS0)
      /\ \A d \in D, i \in Slots : Paged(m, d, i) => Own(m, d, i) /\ i # SYS
  BY Zenon, TreeFrames
<1>2. \A d \in D : Same(m, n, d)
  BY Zenon, <1>1 DEF SameBut
<1>3. \A d \in D, i \in Slots : Own(m, d, i) /\ i # SYS => Same(m, n, Phy(At(m, d, i)))
  BY Zenon, <1>1 DEF SameBut
<1>4. \A d \in D, i \in Slots : /\ Own(n, d, i) <=> Own(m, d, i)
                                /\ Paged(n, d, i) <=> Paged(m, d, i)
  BY Zenon, <1>2 DEF Own, Paged
<1>5. \A d \in D, i, j \in Slots : /\ Paged(m, d, i) => Page(n, d, i, j) = Page(m, d, i, j)
                                   /\ HasPage(n, d, i, j) <=> HasPage(m, d, i, j)
  BY <1>1, <1>2, <1>3, <1>4 DEF Page, HasPage
<1>6. \A d \in D, i, j \in Slots : HasPage(m, d, i, j) => Page(n, d, i, j) = Page(m, d, i, j)
  BY Zenon, <1>5 DEF HasPage
<1>7. /\ DirsUsed(b, D) /\ TablesUsed(m, b, D) /\ TablesApart(m, D)
      /\ PagesUsed(m, b, D) /\ PagesApart(m, D)
      /\ Covered(m, b, D) /\ Linked0(m, D) /\ Reversed(m, D)
  BY Zenon DEF TreeIs
<1>8. TablesUsed(n, b, D)
  BY Zenon, <1>2, <1>4, <1>7 DEF TablesUsed
<1>9. TablesApart(n, D)
  BY Zenon, <1>2, <1>4, <1>7 DEF TablesApart
<1>10. PagesUsed(n, b, D)
  BY <1>2, <1>4, <1>5, <1>6, <1>7 DEF PagesUsed
<1>11. PagesApart(n, D)
  BY <1>5, <1>6, <1>7 DEF PagesApart
<1>12. Covered(n, b, D)
  <2> SUFFICES ASSUME NEW f \in b
               PROVE  \/ f \in D
                      \/ \E d \in D, i \in Slots : Own(n, d, i) /\ Phy(At(n, d, i)) = f
                      \/ \E d \in D, i, j \in Slots : HasPage(n, d, i, j) /\ Phy(Page(n, d, i, j)) = f
    BY Zenon DEF Covered
  <2>1. \/ f \in D
        \/ \E d \in D, i \in Slots : Own(m, d, i) /\ Phy(At(m, d, i)) = f
        \/ \E d \in D, i, j \in Slots : HasPage(m, d, i, j) /\ Phy(Page(m, d, i, j)) = f
    BY Zenon, <1>7 DEF Covered
  <2> QED
    BY <1>2, <1>4, <1>5, <1>6, <2>1
<1>13. Linked0(n, D)
  BY <1>1, <1>2, <1>7 DEF Linked0
<1>14. Reversed(n, D)
  <2>1. REV \in Slots /\ REV # SYS
    BY Constants
  <2>2. \A d \in D : At(n, d, REV) = At(m, d, REV) /\ Same(m, n, Phy(At(m, d, REV)))
    BY Zenon, <1>1, <1>2, <1>3, <2>1
  <2> QED
    BY <1>2, <1>7, <2>2 DEF Reversed
<1> QED
  BY Zenon, <1>2, <1>7, <1>8, <1>9, <1>10, <1>11, <1>12, <1>13, <1>14 DEF TreeIs


\* create_page_table enters a frame that was idle as table i of directory d.
TableAdded(m, n, d, i, pt, rv) ==
  /\ ~PAGE_ENTRY_SET(At(m, d, i)) /\ rv = Phy(At(m, d, REV))
  /\ \A j \in Slots : ~PAGE_ENTRY_SET(At(n, pt, j))
  /\ PAGE_ENTRY_SET(At(n, d, i)) /\ Phy(At(n, d, i)) = pt /\ Phy(At(n, rv, i)) = pt
  /\ \A k \in Slots \ {i} : At(n, d, k) = At(m, d, k) /\ At(n, rv, k) = At(m, rv, k)
  /\ \A g \in 1 .. NFRAMES : g \notin {SYS0, pt, d, rv} => Same(m, n, g)

LEMMA NewTable ==
  ASSUME NEW m \in Mem, NEW b \in SUBSET (USER_P_START .. NFRAMES), NEW D, TreeIs(m, b, D),
         NEW d \in D, NEW i \in Slots, i < KDIR \/ (i = KST /\ D = {PG_DIR0}),
         NEW pt \in USER_P_START .. NFRAMES, pt \notin b, NEW rv, NEW n \in Mem,
         TableAdded(m, n, d, i, pt, rv)
  PROVE  TreeIs(n, b \cup {pt}, D)
<1>1. /\ D \subseteq 1 .. NFRAMES /\ SYS0 \notin D /\ PG_DIR0 \in D
      /\ \A e \in D : Own(m, e, SYS) /\ Own(m, e, REV)
      /\ \A e \in D, k \in Slots : Own(m, e, k) =>
           Phy(At(m, e, k)) \in 1 .. NFRAMES /\ Phy(At(m, e, k)) \notin D /\ (k # SYS => Phy(At(m, e, k)) # SYS0)
      /\ \A e \in D, k \in Slots : Paged(m, e, k) => Own(m, e, k) /\ k # SYS /\ k # REV
  BY Zenon, TreeFrames
<1>2. /\ DirsUsed(b, D) /\ TablesUsed(m, b, D) /\ TablesApart(m, D)
      /\ PagesUsed(m, b, D) /\ PagesApart(m, D)
      /\ Covered(m, b, D) /\ Linked0(m, D) /\ Reversed(m, D)
  BY Zenon DEF TreeIs
<1>3. REV \in Slots /\ SYS \in Slots /\ KDIR \in Slots /\ i \notin {KDIR, SYS, REV} /\ KDIR < KST
  BY Constants
<1>4. pt \notin D /\ pt \notin 1 .. 5
  BY <1>2, Constants DEF DirsUsed
<1>5. \A e \in D, k \in Slots : Own(m, e, k) => Phy(At(m, e, k)) # pt
  BY Zenon, <1>2, <1>4 DEF TablesUsed
<1>6. \A e \in D, k, j \in Slots : HasPage(m, e, k, j) => Phy(Page(m, e, k, j)) # pt
  BY Zenon, <1>2 DEF PagesUsed
<1>7. Own(m, d, REV) /\ rv \notin D
  BY Zenon, <1>1, <1>3 DEF TableAdded
<1>8. \A e \in D : e # d => Same(m, n, e)
  BY Zenon, <1>1, <1>4, <1>7 DEF TableAdded
<1>9. \A e \in D, k \in Slots : (e # d \/ k # i) => At(n, e, k) = At(m, e, k)
  BY Zenon, <1>8 DEF TableAdded
<1>10. \A e \in D, k \in Slots : /\ Own(n, e, k) <=> Own(m, e, k) \/ (e = d /\ k = i)
                                 /\ Paged(n, e, k) <=> Paged(m, e, k) \/ (e = d /\ k = i)
                                 /\ Own(m, e, k) \/ Paged(m, e, k) => At(n, e, k) = At(m, e, k)
  BY <1>9 DEF Own, Paged, TableAdded
<1>11. \A e \in D, k \in Slots : Paged(m, e, k) => Same(m, n, Phy(At(m, e, k)))
  <2> SUFFICES ASSUME NEW e \in D, NEW k \in Slots, Paged(m, e, k)
               PROVE  Same(m, n, Phy(At(m, e, k)))
    BY Zenon
  <2>1. Own(m, e, k) /\ k # REV /\ Phy(At(m, e, k)) \notin {SYS0, pt, d} /\ Phy(At(m, e, k)) \in 1 .. NFRAMES
    BY Zenon, <1>1, <1>5
  <2>2. Phy(At(m, e, k)) # rv
    BY <1>2, <1>3, <1>7, <2>1 DEF TablesApart, TableAdded
  <2> QED
    BY Zenon, <2>1, <2>2 DEF TableAdded
<1>12. \A e \in D, k, j \in Slots : Paged(m, e, k) => Page(n, e, k, j) = Page(m, e, k, j)
  BY <1>10, <1>11 DEF Page
<1>13. \A j \in Slots : ~HasPage(n, d, i, j)
  BY Zenon DEF HasPage, Page, TableAdded
<1>14. \A e \in D, k, j \in Slots : HasPage(n, e, k, j) <=> HasPage(m, e, k, j)
  BY <1>10, <1>12, <1>13 DEF HasPage, Paged
<1>15. \A e \in D, k, j \in Slots : HasPage(m, e, k, j) => Page(n, e, k, j) = Page(m, e, k, j)
  BY Zenon, <1>12 DEF HasPage
<1>16. DirsUsed(b \cup {pt}, D)
  BY Zenon, <1>2 DEF DirsUsed
<1>17. TablesUsed(n, b \cup {pt}, D)
  BY <1>2, <1>4, <1>10 DEF TablesUsed, TableAdded
<1>18. TablesApart(n, D)
  BY <1>2, <1>5, <1>10 DEF TablesApart, TableAdded
<1>19. PagesUsed(n, b \cup {pt}, D)
  BY <1>2, <1>6, <1>10, <1>14, <1>15 DEF PagesUsed, TableAdded
<1>20. PagesApart(n, D)
  BY <1>2, <1>14, <1>15 DEF PagesApart
<1>21. Covered(n, b \cup {pt}, D)
  <2> SUFFICES ASSUME NEW f \in b \cup {pt}
               PROVE  \/ f \in D
                      \/ \E e \in D, k \in Slots : Own(n, e, k) /\ Phy(At(n, e, k)) = f
                      \/ \E e \in D, k, j \in Slots : HasPage(n, e, k, j) /\ Phy(Page(n, e, k, j)) = f
    BY Zenon DEF Covered
  <2>1. CASE f = pt
    BY Zenon, <1>10, <2>1 DEF TableAdded
  <2>2. CASE f \in b
    <3>1. \/ f \in D
          \/ \E e \in D, k \in Slots : Own(m, e, k) /\ Phy(At(m, e, k)) = f
          \/ \E e \in D, k, j \in Slots : HasPage(m, e, k, j) /\ Phy(Page(m, e, k, j)) = f
      BY Zenon, <1>2, <2>2 DEF Covered
    <3> QED
      BY <1>10, <1>14, <1>15, <3>1
  <2> QED
    BY Zenon, <2>1, <2>2
<1>22. Linked0(n, D)
  <2>1. /\ PG_DIR0 \in D /\ Phy(At(m, PG_DIR0, SYS)) = SYS0
        /\ \A e \in D : /\ \A k \in KDIR .. KST : At(m, e, k) = At(m, PG_DIR0, k)
                        /\ PAGE_ENTRY_SET(At(m, e, KDIR)) /\ PAGE_ENTRY_SET(At(m, e, SYS))
                        /\ PAGE_ENTRY_SET(At(m, e, REV))
    BY Zenon, <1>2 DEF Linked0
  <2>2. \A e \in D : At(n, e, KDIR) = At(m, e, KDIR) /\ At(n, e, SYS) = At(m, e, SYS) /\ At(n, e, REV) = At(m, e, REV)
    BY Zenon, <1>3, <1>9
  <2>3. ASSUME NEW e \in D, NEW k \in KDIR .. KST
        PROVE  At(n, e, k) = At(n, PG_DIR0, k)
    <3>1. k \in Slots /\ k >= KDIR
      BY Constants DEF Slots
    <3>2. CASE i < KDIR
      <4>1. k # i
        BY <3>1, <3>2, Constants DEF Slots
      <4> QED
        BY Zenon, <1>9, <2>1, <3>1, <4>1
    <3>3. CASE D = {PG_DIR0}
      BY Zenon, <3>3
    <3> QED
      BY Zenon, <3>2, <3>3
  <2> QED
    BY Zenon, <2>1, <2>2, <2>3 DEF Linked0
<1>23. Reversed(n, D)
  <2> SUFFICES ASSUME NEW e \in D, NEW k \in (0 .. KDIR - 1) \cup {SYS, REV}
               PROVE  Phy(At(n, Phy(At(n, e, REV)), k)) = Phy(At(n, e, k))
    BY Zenon DEF Reversed
  <2>1. Phy(At(m, Phy(At(m, e, REV)), k)) = Phy(At(m, e, k)) /\ k \in Slots
    BY Zenon, <1>2, Constants DEF Reversed
  <2>2. At(n, e, REV) = At(m, e, REV)
    BY Zenon, <1>3, <1>9
  <2>3. CASE e = d
    <3>1. CASE k = i
      BY Zenon, <2>2, <2>3, <3>1 DEF TableAdded
    <3>2. CASE k # i
      BY Zenon, <2>1, <2>2, <2>3, <3>2 DEF TableAdded
    <3> QED
      BY Zenon, <3>1, <3>2
  <2>4. CASE e # d
    <3>1. Own(m, e, REV) /\ Phy(At(m, e, REV)) \notin {SYS0, pt, d} /\ Phy(At(m, e, REV)) \in 1 .. NFRAMES
      BY <1>1, <1>3, <1>5, Constants
    <3>2. Phy(At(m, e, REV)) # rv
      BY Zenon, <1>2, <1>3, <1>7, <2>4, <3>1 DEF TablesApart, TableAdded
    <3>3. Same(m, n, Phy(At(m, e, REV)))
      BY Zenon, <3>1, <3>2 DEF TableAdded
    <3> QED
      BY Zenon, <1>8, <2>1, <2>2, <2>4, <3>3
  <2> QED
    BY Zenon, <2>3, <2>4
<1> QED
  BY Zenon, <1>16, <1>17, <1>18, <1>19, <1>20, <1>21, <1>22, <1>23 DEF TreeIs


\* request_region_vmap enters a frame that was idle as page j of table i of directory d.
PageAdded(m, n, d, i, t, j, pg) ==
  /\ t = Phy(At(m, d, i)) /\ ~PAGE_ENTRY_SET(At(m, t, j))
  /\ PAGE_ENTRY_SET(At(n, t, j)) /\ Phy(At(n, t, j)) = pg
  /\ \A k \in Slots \ {j} : At(n, t, k) = At(m, t, k)
  /\ \A g \in 1 .. NFRAMES : g \notin {pg, t} => Same(m, n, g)

LEMMA NewPage ==
  ASSUME NEW m \in Mem, NEW b \in SUBSET (USER_P_START .. NFRAMES), NEW D, TreeIs(m, b, D),
         NEW d \in D, NEW i \in Slots, Paged(m, d, i), NEW t, NEW j \in Slots,
         NEW pg \in USER_P_START .. NFRAMES, pg \notin b, NEW n \in Mem,
         PageAdded(m, n, d, i, t, j, pg)
  PROVE  TreeIs(n, b \cup {pg}, D)
<1>1. /\ D \subseteq 1 .. NFRAMES /\ PG_DIR0 \in D
      /\ \A e \in D : Own(m, e, SYS) /\ Own(m, e, REV)
      /\ \A e \in D, k \in Slots : Own(m, e, k) => Phy(At(m, e, k)) \in 1 .. NFRAMES /\ Phy(At(m, e, k)) \notin D
      /\ \A e \in D, k \in Slots : Paged(m, e, k) => Own(m, e, k) /\ k # REV
  BY Zenon, TreeFrames
<1>2. /\ DirsUsed(b, D) /\ TablesUsed(m, b, D) /\ TablesApart(m, D)
      /\ PagesUsed(m, b, D) /\ PagesApart(m, D)
      /\ Covered(m, b, D) /\ Linked0(m, D) /\ Reversed(m, D)
  BY Zenon DEF TreeIs
<1>3. REV \in Slots
  BY Zenon, Constants
<1>4. pg \notin D /\ pg \notin 1 .. 5
  BY <1>2, Constants DEF DirsUsed
<1>5. \A e \in D, k \in Slots : Own(m, e, k) => Phy(At(m, e, k)) # pg
  BY Zenon, <1>2, <1>4 DEF TablesUsed
<1>6. \A e \in D, k, x \in Slots : HasPage(m, e, k, x) => Phy(Page(m, e, k, x)) # pg
  BY Zenon, <1>2 DEF PagesUsed
<1>7. Own(m, d, i) /\ t \notin D /\ i # REV
  BY Zenon, <1>1 DEF PageAdded
<1>8. \A e \in D : Same(m, n, e)
  BY Zenon, <1>1, <1>4, <1>7 DEF PageAdded
<1>9. \A e \in D, k \in Slots : /\ Own(n, e, k) <=> Own(m, e, k)
                                /\ Paged(n, e, k) <=> Paged(m, e, k)
  BY Zenon, <1>8 DEF Own, Paged
<1>10. \A e \in D, k \in Slots : Own(m, e, k) /\ (e # d \/ k # i) =>
         Phy(At(m, e, k)) # t /\ Same(m, n, Phy(At(m, e, k)))
  <2> SUFFICES ASSUME NEW e \in D, NEW k \in Slots, Own(m, e, k), e # d \/ k # i
               PROVE  Phy(At(m, e, k)) # t /\ Same(m, n, Phy(At(m, e, k)))
    BY Zenon
  <2>1. Phy(At(m, e, k)) # t
    BY Zenon, <1>2, <1>7 DEF TablesApart, PageAdded
  <2> QED
    BY Zenon, <1>1, <1>5, <2>1 DEF PageAdded
<1>11. \A e \in D, k, x \in Slots : Paged(m, e, k) /\ (e # d \/ k # i \/ x # j) =>
         Page(n, e, k, x) = Page(m, e, k, x)
  <2> SUFFICES ASSUME NEW e \in D, NEW k \in Slots, NEW x \in Slots, Paged(m, e, k),
                      e # d \/ k # i \/ x # j
               PROVE  At(n, Phy(At(n, e, k)), x) = At(m, Phy(At(m, e, k)), x)
    BY Zenon DEF Page
  <2>1. CASE e # d \/ k # i
    BY <1>1, <1>8, <1>10, <2>1
  <2>2. CASE e = d /\ k = i
    BY <1>8, <2>2 DEF PageAdded
  <2> QED
    BY Zenon, <2>1, <2>2
<1>12. Page(n, d, i, j) = At(n, t, j) /\ Page(m, d, i, j) = At(m, t, j)
  BY Zenon, <1>8 DEF Page, PageAdded
<1>13. HasPage(n, d, i, j) /\ Phy(Page(n, d, i, j)) = pg /\ ~HasPage(m, d, i, j)
  BY Zenon, <1>9, <1>12 DEF HasPage, PageAdded
<1>14. \A e \in D, k, x \in Slots :
         HasPage(n, e, k, x) <=> HasPage(m, e, k, x) \/ (e = d /\ k = i /\ x = j)
  <2> TAKE e \in D, k \in Slots, x \in Slots
  <2>1. CASE e = d /\ k = i /\ x = j
    BY Zenon, <1>13, <2>1
  <2>2. CASE e # d \/ k # i \/ x # j
    BY Zenon, <1>9, <1>11, <2>2 DEF HasPage
  <2> QED
    BY Zenon, <2>1, <2>2
<1>15. \A e \in D, k, x \in Slots : HasPage(m, e, k, x) => Page(n, e, k, x) = Page(m, e, k, x)
  BY Zenon, <1>11, <1>13 DEF HasPage
<1>16. DirsUsed(b \cup {pg}, D)
  BY Zenon, <1>2 DEF DirsUsed
<1>17. TablesUsed(n, b \cup {pg}, D)
  BY Zenon, <1>2, <1>8, <1>9 DEF TablesUsed
<1>18. TablesApart(n, D)
  BY Zenon, <1>2, <1>8, <1>9 DEF TablesApart
<1>19. PagesUsed(n, b \cup {pg}, D)
  BY <1>2, <1>4, <1>5, <1>8, <1>9, <1>13, <1>14, <1>15 DEF PagesUsed
<1>20. PagesApart(n, D)
  BY <1>2, <1>6, <1>13, <1>14, <1>15 DEF PagesApart
<1>21. Covered(n, b \cup {pg}, D)
  <2> SUFFICES ASSUME NEW f \in b \cup {pg}
               PROVE  \/ f \in D
                      \/ \E e \in D, k \in Slots : Own(n, e, k) /\ Phy(At(n, e, k)) = f
                      \/ \E e \in D, k, x \in Slots : HasPage(n, e, k, x) /\ Phy(Page(n, e, k, x)) = f
    BY Zenon DEF Covered
  <2>1. CASE f = pg
    BY Zenon, <1>13, <2>1
  <2>2. CASE f \in b
    <3>1. \/ f \in D
          \/ \E e \in D, k \in Slots : Own(m, e, k) /\ Phy(At(m, e, k)) = f
          \/ \E e \in D, k, x \in Slots : HasPage(m, e, k, x) /\ Phy(Page(m, e, k, x)) = f
      BY Zenon, <1>2, <2>2 DEF Covered
    <3> QED
      BY <1>8, <1>9, <1>14, <1>15, <3>1
  <2> QED
    BY Zenon, <2>1, <2>2
<1>22. Linked0(n, D)
  BY <1>1, <1>2, <1>8 DEF Linked0
<1>23. Reversed(n, D)
  <2>1. \A e \in D : Same(m, n, Phy(At(m, e, REV)))
    BY Zenon, <1>1, <1>3, <1>7, <1>10
  <2> SUFFICES ASSUME NEW e \in D, NEW k \in (0 .. KDIR - 1) \cup {SYS, REV}
               PROVE  Phy(At(n, Phy(At(n, e, REV)), k)) = Phy(At(n, e, k))
    BY Zenon DEF Reversed
  <2>2. Phy(At(m, Phy(At(m, e, REV)), k)) = Phy(At(m, e, k))
    BY Zenon, <1>2 DEF Reversed
  <2> QED
    BY Zenon, <1>8, <2>1, <2>2
<1> QED
  BY Zenon, <1>16, <1>17, <1>18, <1>19, <1>20, <1>21, <1>22, <1>23 DEF TreeIs

\* load_task sets up a directory, its reverse table and its system table in frames
\* that were idle.
DirAdded(m, n, dir, rv, sy) ==
  /\ \A k \in KDIR .. KST : At(n, dir, k) = At(m, PG_DIR0, k)
  /\ PAGE_ENTRY_SET(At(n, dir, REV)) /\ Phy(At(n, dir, REV)) = rv
  /\ PAGE_ENTRY_SET(At(n, dir, SYS)) /\ Phy(At(n, dir, SYS)) = sy
  /\ \A k \in 0 .. KDIR - 1 : At(n, dir, k) = Unset /\ At(n, rv, k) = Unset
  /\ Phy(At(n, rv, REV)) = rv /\ Phy(At(n, rv, SYS)) = sy
  /\ \A g \in 1 .. NFRAMES : g \notin {SYS0, dir, rv, sy} => Same(m, n, g)

LEMMA NewDir ==
  ASSUME NEW m \in Mem, NEW b \in SUBSET (USER_P_START .. NFRAMES), NEW D, TreeIs(m, b, D),
         NEW dir \in (USER_P_START .. NFRAMES) \ b, NEW rv \in (USER_P_START .. NFRAMES) \ b,
         NEW sy \in (USER_P_START .. NFRAMES) \ b, dir # rv, dir # sy, rv # sy, NEW n \in Mem,
         DirAdded(m, n, dir, rv, sy)
  PROVE  TreeIs(n, b \cup {dir, rv, sy}, D \cup {dir})
<1> DEFINE E == D \cup {dir}
           c == b \cup {dir, rv, sy}
<1>1. /\ D \subseteq 1 .. NFRAMES /\ PG_DIR0 \in D /\ SYS0 \notin D
      /\ \A e \in D : Own(m, e, SYS) /\ Own(m, e, REV)
      /\ \A e \in D, k \in Slots : Own(m, e, k) =>
           Phy(At(m, e, k)) \in 1 .. NFRAMES /\ Phy(At(m, e, k)) \notin D /\ (k # SYS => Phy(At(m, e, k)) # SYS0)
      /\ \A e \in D, k \in Slots : Paged(m, e, k) => Own(m, e, k) /\ k # SYS
  BY Zenon, TreeFrames
<1>2. /\ DirsUsed(b, D) /\ TablesUsed(m, b, D) /\ TablesApart(m, D)
      /\ PagesUsed(m, b, D) /\ PagesApart(m, D)
      /\ Covered(m, b, D) /\ Linked0(m, D) /\ Reversed(m, D)
  BY Zenon DEF TreeIs
<1>3. /\ REV \in Slots /\ SYS \in Slots /\ KDIR \in KDIR .. KST /\ REV # SYS
      /\ \A k \in Slots : k \in 0 .. KDIR - 1 \/ k \in KDIR .. KST \/ k = SYS \/ k = REV
      /\ \A k \in KDIR .. KST : ~(k < KDIR) /\ ~(k > KST)
      /\ \A k \in 0 .. KDIR - 1 : k \in Slots /\ k # KST
      /\ KST # SYS /\ KST # REV /\ SYS > KST /\ REV > KST /\ ~(SYS < KDIR) /\ ~(REV < KDIR)
  BY Constants DEF Slots
<1>25. Phy(At(n, dir, REV)) = rv /\ Phy(At(n, dir, SYS)) = sy
  BY Zenon DEF DirAdded
<1>4. {dir, rv, sy} \cap (D \cup 1 .. 5) = {}
  BY <1>2, Constants DEF DirsUsed
<1>5. \A e \in D, k \in Slots : Own(m, e, k) => Phy(At(m, e, k)) \notin {dir, rv, sy}
  BY Zenon, <1>2, <1>4 DEF TablesUsed
<1>6. \A e \in D, k, x \in Slots : HasPage(m, e, k, x) => Phy(Page(m, e, k, x)) \notin {dir, rv, sy}
  BY Zenon, <1>2 DEF PagesUsed
<1>7. \A e \in D : Same(m, n, e) /\ e # dir
  BY Zenon, <1>1, <1>4 DEF DirAdded
<1>8. ~PAGE_ENTRY_SET(Unset) /\ dir # PG_DIR0
  BY Zenon, <1>1, <1>7 DEF Unset, PAGE_ENTRY_SET
<1>9. \A e \in D, k \in Slots : /\ Own(n, e, k) <=> Own(m, e, k)
                                /\ Paged(n, e, k) <=> Paged(m, e, k)
  BY Zenon, <1>7 DEF Own, Paged
<1>10. \A k \in Slots : Own(n, dir, k) <=> k \in {SYS, REV}
  <2> TAKE k \in Slots
  <2>1. CASE k \in 0 .. KDIR - 1
    BY Zenon, <1>3, <1>8, <2>1, Constants DEF Own, DirAdded
  <2>2. CASE k \in KDIR .. KST
    BY Zenon, <1>3, <1>8, <2>2 DEF Own
  <2>3. CASE k = SYS \/ k = REV
    BY Zenon, <1>3, <2>3 DEF Own, DirAdded
  <2> QED
    BY Zenon, <1>3, <2>1, <2>2, <2>3
<1>11. \A k \in Slots : ~Paged(n, dir, k)
  <2> TAKE k \in Slots
  <2>1. k < KDIR => k \in 0 .. KDIR - 1
    BY Constants DEF Slots
  <2> QED
    BY Zenon, <1>8, <2>1 DEF Paged, DirAdded
<1>12. \A e \in D, k \in Slots : Own(m, e, k) /\ k # SYS => Same(m, n, Phy(At(m, e, k)))
  BY Zenon, <1>1, <1>5 DEF DirAdded
<1>13. \A e \in D, k, x \in Slots : Paged(m, e, k) => Page(n, e, k, x) = Page(m, e, k, x)
  BY <1>1, <1>7, <1>12 DEF Page
<1>14. \A e \in D, k, x \in Slots : HasPage(n, e, k, x) <=> HasPage(m, e, k, x)
  BY Zenon, <1>9, <1>13 DEF HasPage
<1>15. \A k, x \in Slots : ~HasPage(n, dir, k, x)
  BY Zenon, <1>11 DEF HasPage
<1>16. \A e \in D, k, x \in Slots : HasPage(m, e, k, x) => Page(n, e, k, x) = Page(m, e, k, x)
  BY Zenon, <1>13 DEF HasPage
<1>17. DirsUsed(c, E)
  BY Zenon, <1>2 DEF DirsUsed
<1>18. TablesUsed(n, c, E)
  <2> SUFFICES ASSUME NEW e \in E, NEW k \in Slots, Own(n, e, k)
               PROVE  Phy(At(n, e, k)) \in c \cup 1 .. 5 /\ Phy(At(n, e, k)) \notin E
    BY Zenon DEF TablesUsed
  <2>1. CASE e \in D
    BY Zenon, <1>2, <1>5, <1>7, <1>9, <2>1 DEF TablesUsed
  <2>2. CASE e = dir
    BY Zenon, <1>4, <1>10, <1>25, <2>2
  <2> QED
    BY Zenon, <2>1, <2>2
<1>19. TablesApart(n, E)
  <2> SUFFICES ASSUME NEW d \in E, NEW e \in E, NEW i \in Slots, NEW k \in Slots,
                      Own(n, d, i), Own(n, e, k), Phy(At(n, d, i)) = Phy(At(n, e, k))
               PROVE  d = e /\ i = k
    BY Zenon DEF TablesApart
  <2>1. CASE d \in D /\ e \in D
    BY <1>2, <1>7, <1>9, <2>1 DEF TablesApart
  <2>2. CASE d = dir /\ e = dir
    BY Zenon, <1>10, <1>25, <2>2
  <2>3. CASE (d \in D /\ e = dir) \/ (d = dir /\ e \in D)
    BY <1>5, <1>7, <1>9, <1>10, <1>25, <2>3
  <2> QED
    BY Zenon, <2>1, <2>2, <2>3
<1>20. PagesUsed(n, c, E)
  <2> SUFFICES ASSUME NEW d \in E, NEW i \in Slots, NEW j \in Slots, HasPage(n, d, i, j)
               PROVE  /\ Phy(Page(n, d, i, j)) \in c \ E
                      /\ \A e \in E, k \in Slots :
                           Own(n, e, k) => Phy(At(n, e, k)) # Phy(Page(n, d, i, j))
    BY Zenon DEF PagesUsed
  <2>1. d \in D /\ HasPage(m, d, i, j) /\ Page(n, d, i, j) = Page(m, d, i, j)
    BY Zenon, <1>14, <1>15, <1>16
  <2>2. /\ Phy(Page(m, d, i, j)) \in b \ D /\ Phy(Page(m, d, i, j)) \notin {dir, rv, sy}
        /\ \A e \in D, k \in Slots : Own(m, e, k) => Phy(At(m, e, k)) # Phy(Page(m, d, i, j))
    BY Zenon, <1>2, <1>6, <2>1 DEF PagesUsed
  <2>3. ASSUME NEW e \in E, NEW k \in Slots, Own(n, e, k)
        PROVE  Phy(At(n, e, k)) # Phy(Page(m, d, i, j))
    BY Zenon, <1>7, <1>9, <1>10, <1>25, <2>2, <2>3
  <2> QED
    BY Zenon, <2>1, <2>2, <2>3
<1>21. PagesApart(n, E)
  <2> SUFFICES ASSUME NEW d \in E, NEW e \in E, NEW i \in Slots, NEW j \in Slots, NEW k \in Slots,
                      NEW x \in Slots, HasPage(n, d, i, j), HasPage(n, e, k, x),
                      Phy(Page(n, d, i, j)) = Phy(Page(n, e, k, x))
               PROVE  d = e /\ i = k /\ j = x
    BY DEF PagesApart
  <2>1. d \in D /\ HasPage(m, d, i, j) /\ Page(n, d, i, j) = Page(m, d, i, j)
    BY <1>14, <1>15, <1>16
  <2>2. e \in D /\ HasPage(m, e, k, x) /\ Page(n, e, k, x) = Page(m, e, k, x)
    BY <1>14, <1>15, <1>16
  <2> QED
    BY Zenon, <1>2, <2>1, <2>2 DEF PagesApart
<1>22. Covered(n, c, E)
  <2> SUFFICES ASSUME NEW f \in c
               PROVE  \/ f \in E
                      \/ \E e \in E, k \in Slots : Own(n, e, k) /\ Phy(At(n, e, k)) = f
                      \/ \E e \in E, k, x \in Slots : HasPage(n, e, k, x) /\ Phy(Page(n, e, k, x)) = f
    BY Zenon DEF Covered
  <2>1. CASE f = dir
    BY Zenon, <2>1
  <2>2. CASE f \in {rv, sy}
    BY Zenon, <1>3, <1>10, <1>25, <2>2
  <2>3. CASE f \in b
    <3>1. \/ f \in D
          \/ \E e \in D, k \in Slots : Own(m, e, k) /\ Phy(At(m, e, k)) = f
          \/ \E e \in D, k, x \in Slots : HasPage(m, e, k, x) /\ Phy(Page(m, e, k, x)) = f
      BY Zenon, <1>2, <2>3 DEF Covered
    <3> QED
      BY <1>7, <1>9, <1>14, <1>16, <3>1
  <2> QED
    BY Zenon, <2>1, <2>2, <2>3
<1>23. Linked0(n, E)
  <2>1. /\ PG_DIR0 \in D /\ Phy(At(m, PG_DIR0, SYS)) = SYS0
        /\ \A e \in D : /\ \A k \in KDIR .. KST : At(m, e, k) = At(m, PG_DIR0, k)
                        /\ PAGE_ENTRY_SET(At(m, e, KDIR)) /\ PAGE_ENTRY_SET(At(m, e, SYS))
                        /\ PAGE_ENTRY_SET(At(m, e, REV))
    BY Zenon, <1>2 DEF Linked0
  <2>2. ASSUME NEW e \in E
        PROVE  /\ \A k \in KDIR .. KST : At(n, e, k) = At(n, PG_DIR0, k)
               /\ PAGE_ENTRY_SET(At(n, e, KDIR)) /\ PAGE_ENTRY_SET(At(n, e, SYS))
               /\ PAGE_ENTRY_SET(At(n, e, REV))
    <3>1. CASE e \in D
      BY Zenon, <1>7, <2>1, <3>1
    <3>2. CASE e = dir
      BY Zenon, <1>3, <1>7, <2>1, <3>2 DEF DirAdded
    <3> QED
      BY Zenon, <3>1, <3>2
  <2> QED
    BY Zenon, <1>7, <2>1, <2>2 DEF Linked0
<1>24. Reversed(n, E)
  <2> SUFFICES ASSUME NEW e \in E, NEW k \in (0 .. KDIR - 1) \cup {SYS, REV}
               PROVE  Phy(At(n, Phy(At(n, e, REV)), k)) = Phy(At(n, e, k))
    BY Zenon DEF Reversed
  <2>1. CASE e = dir
    BY Zenon, <2>1 DEF DirAdded
  <2>2. CASE e \in D
    <3>1. Own(m, e, REV) /\ At(n, e, REV) = At(m, e, REV) /\ At(n, e, k) = At(m, e, k)
      BY Zenon, <1>1, <1>7, <2>2
    <3>2. Same(m, n, Phy(At(m, e, REV)))
      BY Zenon, <1>3, <1>12, <2>2, <3>1
    <3>3. Phy(At(m, Phy(At(m, e, REV)), k)) = Phy(At(m, e, k))
      BY Zenon, <1>2, <2>2 DEF Reversed
    <3> QED
      BY Zenon, <3>1, <3>2, <3>3
  <2> QED
    BY Zenon, <2>1, <2>2
<1> QED
  BY Zenon, <1>17, <1>18, <1>19, <1>20, <1>21, <1>22, <1>23, <1>24 DEF TreeIs


-----------------------------------------------------------------------------
(* Frames that are not the same. *)

\* A page table the directory d leads to.
Leads(m, d, i) == i \in (0 .. KDIR - 1) \cup {KST} /\ PAGE_ENTRY_SET(At(m, d, i))

LEMMA TableOwner ==
  ASSUME NEW m \in Mem, NEW b \in SUBSET (USER_P_START .. NFRAMES), NEW D, TreeIs(m, b, D),
         NEW d \in D, NEW i, Leads(m, d, i)
  PROVE  i \in Slots /\ \E e \in D : Paged(m, e, i) /\ Own(m, e, i) /\ At(m, e, i) = At(m, d, i)
<1>1. PG_DIR0 \in D /\ \A e \in D, k \in Slots : Paged(m, e, k) => Own(m, e, k)
  BY Zenon, TreeFrames
<1>2. /\ KST \in Slots /\ KST \in KDIR .. KST /\ \A k \in 0 .. KDIR - 1 : k \in Slots /\ k < KDIR
  BY Constants DEF Slots
<1>3. CASE i \in 0 .. KDIR - 1
  BY Zenon, <1>1, <1>2, <1>3 DEF Paged, Leads
<1>4. CASE i = KST
  <2>1. At(m, d, KST) = At(m, PG_DIR0, KST)
    BY Zenon, <1>2 DEF Linked0, TreeIs
  <2> QED
    BY Zenon, <1>1, <1>2, <1>4, <2>1 DEF Paged, Leads
<1> QED
  BY Zenon, <1>3, <1>4 DEF Leads

LEMMA TableApart ==
  ASSUME NEW m \in Mem, NEW b \in SUBSET (USER_P_START .. NFRAMES), NEW D, TreeIs(m, b, D),
         NEW d \in D, NEW i, Leads(m, d, i)
  PROVE  /\ Phy(At(m, d, i)) \in 1 .. NFRAMES /\ Phy(At(m, d, i)) \notin D
         /\ Phy(At(m, d, i)) # SYS0 /\ Phy(At(m, d, i)) # Phy(At(m, d, REV)) /\ Phy(At(m, d, i)) # Phy(At(m, d, SYS))
<1>1. /\ Own(m, d, SYS) /\ Own(m, d, REV)
      /\ \A e \in D, k \in Slots : Own(m, e, k) =>
           /\ Phy(At(m, e, k)) \in 1 .. NFRAMES /\ Phy(At(m, e, k)) \notin D
           /\ k # SYS => Phy(At(m, e, k)) # SYS0
      /\ \A e \in D, k \in Slots : Paged(m, e, k) => k # SYS /\ k # REV
  BY Zenon, TreeFrames
<1>2. TablesApart(m, D) /\ REV \in Slots /\ SYS \in Slots
  BY Zenon, Constants DEF TreeIs
<1>3. PICK e \in D : Paged(m, e, i) /\ Own(m, e, i) /\ At(m, e, i) = At(m, d, i) /\ i \in Slots
  BY Zenon, TableOwner
<1>4. i # SYS /\ i # REV
  BY Zenon, <1>1, <1>3
<1>5. Phy(At(m, e, i)) # Phy(At(m, d, REV)) /\ Phy(At(m, e, i)) # Phy(At(m, d, SYS))
  BY Zenon, <1>1, <1>2, <1>3, <1>4 DEF TablesApart
<1> QED
  BY Zenon, <1>1, <1>3, <1>4, <1>5

LEMMA DirApart ==
  ASSUME NEW m \in Mem, NEW b \in SUBSET (USER_P_START .. NFRAMES), NEW D, TreeIs(m, b, D),
         NEW d \in D
  PROVE  /\ d # Phy(At(m, d, REV)) /\ d # Phy(At(m, d, SYS)) /\ Phy(At(m, d, REV)) # Phy(At(m, d, SYS))
         /\ Phy(At(m, d, REV)) \in 1 .. NFRAMES /\ Phy(At(m, d, REV)) # SYS0 /\ d # SYS0
<1>1. /\ SYS0 \notin D /\ Own(m, d, SYS) /\ Own(m, d, REV)
      /\ \A e \in D, k \in Slots : Own(m, e, k) =>
           /\ Phy(At(m, e, k)) \in 1 .. NFRAMES /\ Phy(At(m, e, k)) \notin D
           /\ k # SYS => Phy(At(m, e, k)) # SYS0
  BY Zenon, TreeFrames
<1>2. TablesApart(m, D) /\ REV \in Slots /\ SYS \in Slots /\ REV # SYS
  BY Constants DEF TreeIs
<1>3. Phy(At(m, d, REV)) # Phy(At(m, d, SYS))
  BY Zenon, <1>1, <1>2 DEF TablesApart
<1> QED
  BY Zenon, <1>1, <1>2, <1>3

LEMMA StackApart ==
  ASSUME NEW m \in Mem, NEW b \in SUBSET (USER_P_START .. NFRAMES), NEW D, TreeIs(m, b, D),
         NEW d \in D, Stacked(m)
  PROVE  /\ Leads(m, d, KST) /\ At(m, d, KST) = At(m, PG_DIR0, KST)
         /\ Phy(KPage(m)) \in 1 .. NFRAMES
         /\ Phy(KPage(m)) # d /\ Phy(KPage(m)) # Phy(At(m, d, REV)) /\ Phy(KPage(m)) # Phy(At(m, d, SYS))
         /\ \A i : Leads(m, d, i) => Phy(KPage(m)) # Phy(At(m, d, i))
<1>1. PG_DIR0 \in D /\ Own(m, d, SYS) /\ Own(m, d, REV)
  BY Zenon, TreeFrames
<1>2. PagesUsed(m, b, D) /\ Linked0(m, D)
  BY Zenon DEF TreeIs
<1>3. /\ REV \in Slots /\ SYS \in Slots /\ KST \in Slots /\ KST \in KDIR .. KST
      /\ W - 1 \in Slots /\ \A f \in USER_P_START .. NFRAMES : f \in 1 .. NFRAMES
  BY Constants DEF Slots
<1>4. At(m, d, KST) = At(m, PG_DIR0, KST)
  BY Zenon, <1>2, <1>3 DEF Linked0
<1>5. HasPage(m, PG_DIR0, KST, W - 1) /\ KPage(m) = Page(m, PG_DIR0, KST, W - 1)
  BY Zenon DEF HasPage, Paged, Stacked, KPage, Page
<1>6. /\ Phy(KPage(m)) \in b \ D
      /\ \A e \in D, k \in Slots : Own(m, e, k) => Phy(At(m, e, k)) # Phy(KPage(m))
  BY Zenon, <1>1, <1>2, <1>3, <1>5 DEF PagesUsed
<1>7. ASSUME NEW i, Leads(m, d, i)
      PROVE  Phy(KPage(m)) # Phy(At(m, d, i))
  <2>1. i \in Slots /\ \E e \in D : Own(m, e, i) /\ At(m, e, i) = At(m, d, i)
    BY Zenon, <1>7, TableOwner
  <2> QED
    BY Zenon, <1>6, <2>1
<1>8. Leads(m, d, KST)
  BY Zenon, <1>4 DEF Leads, Stacked
<1> QED
  BY Zenon, <1>1, <1>3, <1>4, <1>6, <1>7, <1>8

LEMMA SameStack ==
  ASSUME NEW m \in Mem, NEW b \in SUBSET (USER_P_START .. NFRAMES), NEW D, TreeIs(m, b, D),
         NEW n \in Mem, SameBut(m, n)
  PROVE  Stacked(m) => Stacked(n) /\ KPage(n) = KPage(m)
<1> SUFFICES ASSUME Stacked(m)
             PROVE  Stacked(n) /\ KPage(n) = KPage(m)
  BY Zenon
<1>1. PG_DIR0 \in D /\ Same(m, n, PG_DIR0)
  <2>1. PG_DIR0 \in D
    BY Zenon, TreeFrames
  <2>2. \A d \in D : Same(m, n, d)
    BY SameTree
  <2> QED
    BY Zenon, <2>1, <2>2
<1>2. Leads(m, PG_DIR0, KST) /\ PG_DIR0 \in D
  BY Zenon, <1>1 DEF Leads, Stacked
<1>3. Phy(At(m, PG_DIR0, KST)) \in 1 .. NFRAMES /\ Phy(At(m, PG_DIR0, KST)) # SYS0
  BY Zenon, <1>2, TableApart
<1>4. Same(m, n, Phy(At(m, PG_DIR0, KST)))
  BY Zenon, <1>3 DEF SameBut
<1> QED
  BY Zenon, <1>1, <1>4 DEF Stacked, KPage


-----------------------------------------------------------------------------
(* The invariant. *)

Active == pc \in {"region", "kstack", "text", "data", "ustack"}
Section == IF pc = "region" THEN r.ret ELSE pc
Tasks == [phy_dir : 1 .. NFRAMES, hdr : Headers \cup {NoProgram}, present : BOOLEAN]
Regions ==
  [dir : Slots, va : Nat, va_end : Nat, flag : {"krn", "usr"},
   ret : {"kstack", "text", "data", "ustack"}, rev_tb : Slots, new_rev : BOOLEAN,
   pt_now : Slots \cup {NULL}, new_pt : Slots \cup {NULL}]
Loads ==
  [phy_dir : 1 .. NFRAMES, hdr : Headers, new_pg_dir : Slots, rev_tb : Slots, sys_pg : Slots,
   kstack : Slots \cup {NULL}, k : Nat]

Types ==
  /\ mem \in Mem /\ busy \subseteq USER_P_START .. NFRAMES
  /\ image \in [1 .. NFRAMES -> {<<>>} \cup Nat \X Nat]
  /\ pc \in {"boot", "idle", "region", "kstack", "text", "data", "ustack", "halted"}
  /\ l.phy_dir \in 1 .. NFRAMES /\ (Active => r \in Regions) /\ (Active /\ ~Booting => l \in Loads)
  /\ tasks \in Seq(Tasks) /\ Len(tasks) <= LOADS + 1
  /\ tasks # <<>> => tasks[1].phy_dir = PG_DIR0
  /\ pc = "boot" => tasks = <<>> /\ l.phy_dir = PG_DIR0
  /\ pc = "idle" => tasks # <<>> /\ \E i \in 1 .. Len(tasks) : tasks[i].phy_dir = l.phy_dir

Tree == TreeIs(mem, busy, Dirs)

\* The directory being filled, through the pointer the loading functions share.
Caller ==
  Active => /\ Maps(mem, r.dir, l.phy_dir)
            /\ Booting => l.phy_dir = PG_DIR0 /\ Section = "kstack"

\* The locals of load_task.
Loader ==
  Active /\ ~Booting =>
    /\ l.phy_dir # PG_DIR0 /\ Len(tasks) <= LOADS
    /\ Maps(mem, l.new_pg_dir, l.phy_dir)
    /\ Maps(mem, l.rev_tb, Phy(At(mem, l.phy_dir, REV)))
    /\ Maps(mem, l.sys_pg, Phy(At(mem, l.phy_dir, SYS)))

\* The kernel stack of task 0, which all tasks share.
Stack0 ==
  /\ ~Booting => Stacked(mem)
  /\ Active /\ ~Booting /\ Section # "kstack" => Maps(mem, l.kstack, Phy(KPage(mem)))
  /\ pc = "kstack" => Stacked(mem) /\ Maps(mem, r.pt_now, Phy(At(mem, PG_DIR0, KST)))

\* alloc_kstack_and_task has a mapping of its own, and the directory no tables yet.
Fresh ==
  Active /\ ~Booting /\ Section = "kstack" =>
    /\ r.dir # l.new_pg_dir /\ l.k = 0
    /\ \A i \in 0 .. KDIR - 1 : ~PAGE_ENTRY_SET(At(mem, l.phy_dir, i))

\* The locals of request_region_vmap.
Locals ==
  pc = "region" =>
    /\ Maps(mem, r.rev_tb, Phy(At(mem, l.phy_dir, REV)))
    /\ r.new_rev => Booting
    /\ r.new_pt \in {NULL, r.pt_now}
    /\ r.pt_now # NULL => \E i \in (0 .. KDIR - 1) \cup {KST} :
         PAGE_ENTRY_SET(At(mem, l.phy_dir, i)) /\ Maps(mem, r.pt_now, Phy(At(mem, l.phy_dir, i)))

\* The two pages of the kernel stack, the second of which is not there.
InKstack ==
  pc = "region" /\ r.ret = "kstack" =>
    /\ r.va_end = KSTACK_FRAME + 1 /\ r.va \in KSTACK_FRAME .. KSTACK_FRAME + 2
    /\ r.pt_now = NULL <=> r.va = KSTACK_FRAME
    /\ r.va # KSTACK_FRAME => Stacked(mem) /\ Maps(mem, r.pt_now, Phy(At(mem, PG_DIR0, KST)))
    /\ r.va = KSTACK_FRAME + 2 => r.new_pt = NULL

InUstack ==
  pc = "region" /\ r.ret = "ustack" =>
    /\ r.va_end = USTACK_FRAME + 1 /\ r.va \in USTACK_FRAME .. USTACK_FRAME + 2
    /\ r.pt_now = NULL <=> r.va = USTACK_FRAME

\* The pages of the text or the data so far have tables.
First == IF Section = "text" THEN l.hdr.vma_text ELSE l.hdr.vma_data
Last == IF Section = "text" THEN LastPage(l.hdr.vma_text, l.hdr.text_size)
        ELSE LastPage(l.hdr.vma_data, l.hdr.data_size)
InTable(p) == PAGE_ENTRY_SET(At(mem, l.phy_dir, PAGE_DIR_INDEX(p)))

InSection ==
  /\ pc = "region" /\ r.ret \in {"text", "data"} =>
       /\ r.va_end = Last /\ r.va \in First .. Last + 1
       /\ \A p \in First .. r.va - 1 : InTable(p)
  /\ pc \in {"text", "data"} => \A p \in First .. Last : InTable(p)

\* The text is the first to get tables, so that pt_now is that of the page before.
InText ==
  pc = "region" /\ r.ret = "text" =>
    /\ l.k = 0
    /\ r.pt_now = NULL <=> r.va = First
    /\ \A i \in 0 .. KDIR - 1 : PAGE_ENTRY_SET(At(mem, l.phy_dir, i)) =>
         r.va # First /\ i <= PAGE_DIR_INDEX(r.va - 1)
    /\ r.va # First => Maps(mem, r.pt_now, TableOf(mem, l.phy_dir, r.va - 1))
    /\ r.va # First /\ r.new_pt = NULL =>
         r.va >= First + 2 /\ PAGE_DIR_INDEX(r.va - 2) = PAGE_DIR_INDEX(r.va - 1)

\* The number of mappings: two of a program stay, and load_task has four of its own.
Base == IF Booting THEN IF r.new_rev THEN 3 ELSE 2
        ELSE IF r.ret = "ustack" THEN 2 * Len(tasks) + 5 ELSE 2 * Len(tasks) + 4
CountRegion ==
  pc = "region" => Count(mem) <= Base + 1 /\ (r.pt_now = NULL => Count(mem) <= Base)

\* A mapping that copying the text will remove.
Removable ==
  \E k \in l.k .. l.hdr.text_size, s \in Slots :
    2 * k < l.hdr.text_size /\ Maps(mem, s, TableOf(mem, l.phy_dir, l.hdr.vma_text + k))

Counts ==
  /\ pc = "boot" => Count(mem) <= 1
  /\ pc = "idle" => Count(mem) <= 2 * Len(tasks)
  /\ pc = "kstack" /\ Booting => Count(mem) <= 3
  /\ pc = "kstack" /\ ~Booting => Count(mem) <= 2 * Len(tasks) + 5
  /\ pc = "text" => \/ Count(mem) <= 2 * Len(tasks) + 4
                    \/ Count(mem) <= 2 * Len(tasks) + 5 /\ Removable
  /\ pc = "data" => Count(mem) <= 2 * Len(tasks) + 5
  /\ pc = "ustack" => Count(mem) <= 2 * Len(tasks) + 6

IInv ==
  /\ Types /\ Tree /\ Caller /\ Loader /\ Stack0 /\ Fresh
  /\ Locals /\ InKstack /\ InUstack /\ InSection /\ InText /\ CountRegion /\ Counts

-----------------------------------------------------------------------------
(* Steps. *)

LEMMA Here ==
  ASSUME SetFacts, Types, Tree
  PROVE  /\ mem \in Mem /\ busy \in SUBSET (USER_P_START .. NFRAMES) /\ TreeIs(mem, busy, Dirs)
         /\ l.phy_dir \in Dirs /\ PG_DIR0 \in Dirs /\ Count(mem) \in Nat
BY Zenon, Slots0 DEF Types, Tree, Dirs

\* A step that changes nothing but mappings.
LEMMA TreeSame ==
  ASSUME SetFacts, Types, Tree, mem' \in Mem, SameBut(mem, mem'), busy' = busy, Dirs' = Dirs
  PROVE  /\ Tree' /\ \A d \in Dirs : Same(mem, mem', d)
         /\ Stacked(mem) => Stacked(mem') /\ KPage(mem') = KPage(mem)
<1>1. mem \in Mem /\ busy \in SUBSET (USER_P_START .. NFRAMES) /\ TreeIs(mem, busy, Dirs)
  BY Zenon, Here
<1>2. TreeIs(mem', busy, Dirs) /\ \A d \in Dirs : Same(mem, mem', d)
  BY <1>1, SameTree
<1>3. Stacked(mem) => Stacked(mem') /\ KPage(mem') = KPage(mem)
  BY Zenon, <1>1, SameStack
<1> QED
  BY Zenon, <1>2, <1>3 DEF Tree

\* The state after a call of request_region_vmap.
Called(m, dir, rev, first, last, flag, ret) ==
  /\ r' \in Regions /\ r'.dir = dir /\ r'.va = first /\ r'.va_end = last /\ r'.flag = flag
  /\ r'.ret = ret /\ r'.pt_now = NULL /\ r'.new_pt = NULL /\ pc' = "region"
  /\ mem' \in Mem /\ SameBut(m, mem') /\ Kept(m, mem', {})
  /\ Maps(mem', r'.rev_tb, rev) /\ r'.new_rev \in BOOLEAN
  /\ ~r'.new_rev => mem' = m
  /\ r'.new_rev => Mapping(m, rev) = {} /\ Count(mem') = Count(m) + 1

LEMMA RegionCall ==
  ASSUME SetFacts, NEW m \in Mem, NEW dir, NEW d, Maps(m, dir, d), NEW rev \in 0 .. NFRAMES,
         rev = Phy(At(m, d, REV)), Count(m) < W,
         NEW first \in Nat, NEW last \in Nat, NEW flag \in {"krn", "usr"},
         NEW ret \in {"kstack", "text", "data", "ustack"}, Region(m, dir, first, last, flag, ret)
  PROVE  Called(m, dir, rev, first, last, flag, ret)
<1>1. Phy(At(m, Deref(m, dir), REV)) = rev
  BY Zenon DEF Maps, Deref, At, Phy
<1>2. /\ mem' = get_temp_va(m, rev) /\ pc' = "region"
      /\ r' = [dir |-> dir, va |-> first, va_end |-> last, flag |-> flag, ret |-> ret,
               rev_tb |-> TempSlot(m, rev), new_rev |-> Mapping(m, rev) = {},
               pt_now |-> NULL, new_pt |-> NULL]
  BY Zenon, <1>1 DEF Region, At, Phy
<1>3. /\ r'.dir = dir /\ r'.va = first /\ r'.va_end = last /\ r'.flag = flag /\ r'.ret = ret
      /\ r'.pt_now = NULL /\ r'.new_pt = NULL /\ r'.rev_tb = TempSlot(m, rev)
  BY Zenon, <1>2
<1>4. r'.new_rev = (Mapping(m, rev) = {})
  BY Zenon, <1>2
<1>5. /\ mem' \in Mem /\ SameBut(m, mem') /\ Kept(m, mem', {})
      /\ Maps(mem', TempSlot(m, rev), rev)
      /\ Mapping(m, rev) = {} => Count(mem') = Count(m) + 1
      /\ Mapping(m, rev) # {} => mem' = m
  BY Zenon, <1>2, GetTemp
<1>6. r' \in Regions
  <2>1. dir \in Slots /\ TempSlot(m, rev) \in Slots
    BY Zenon, <1>5 DEF Maps
  <2> QED
    BY Zenon, <1>2, <2>1 DEF Regions
<1> QED
  BY Zenon, <1>2, <1>3, <1>4, <1>5, <1>6 DEF Called


\* Nothing but the state of a task, or the end of the machine.
LEMMA OverIInv ==
  ASSUME IInv, \/ OutOfFrames \/ (\E i \in 2 .. Len(tasks) : terminate_process(i))
               \/ UNCHANGED vars
  PROVE  IInv'
<1> USE DEF IInv
<1>1. CASE UNCHANGED vars
  <2>1. /\ mem' = mem /\ busy' = busy /\ image' = image /\ pc' = pc /\ r' = r /\ l' = l
        /\ tasks' = tasks
    BY Zenon, <1>1 DEF vars
  <2>2. Types' /\ Tree'
    BY Zenon, <2>1 DEF Types, Tree, Dirs, Active, Booting
  <2>3. Caller' /\ Loader' /\ Stack0' /\ Fresh'
    BY Zenon, <2>1 DEF Caller, Loader, Stack0, Fresh, Active, Section, Booting
  <2>4. Locals' /\ InKstack' /\ InUstack' /\ InSection' /\ InText'
    BY <2>1 DEF Locals, InKstack, InUstack, InSection, InText, Section, Booting, First, Last, InTable
  <2>5. CountRegion' /\ Counts'
    BY <2>1 DEF CountRegion, Counts, Base, Removable, Booting
  <2> QED
    BY Zenon, <2>2, <2>3, <2>4, <2>5
<1>2. CASE OutOfFrames
  <2>1. /\ mem' = mem /\ busy' = busy /\ image' = image /\ pc' = "halted" /\ r' = r /\ l' = l
        /\ tasks' = tasks
    BY Zenon, <1>2 DEF OutOfFrames
  <2>2. Types' /\ Tree'
    BY Zenon, <2>1 DEF Types, Tree, Dirs, Active, Booting
  <2>3. Caller' /\ Loader' /\ Stack0' /\ Fresh'
    BY Zenon, <2>1 DEF Caller, Loader, Stack0, Fresh, Active, Booting
  <2>4. Locals' /\ InKstack' /\ InUstack' /\ InSection' /\ InText' /\ CountRegion' /\ Counts'
    BY Zenon, <2>1 DEF Locals, InKstack, InUstack, InSection, InText, CountRegion, Counts
  <2> QED
    BY Zenon, <2>2, <2>3, <2>4
<1>3. ASSUME NEW i \in 2 .. Len(tasks), terminate_process(i)
      PROVE  IInv'
  <2>1. /\ mem' = mem /\ busy' = busy /\ image' = image /\ pc = "idle" /\ pc' = pc /\ r' = r
        /\ l' = l /\ tasks' = [tasks EXCEPT ![i].present = FALSE]
    BY Zenon, <1>3 DEF terminate_process, Running
  <2>2. tasks \in Seq(Tasks) /\ Len(tasks) \in Nat /\ 1 \in 1 .. Len(tasks)
    BY DEF Types
  <2>3. /\ tasks' \in Seq(Tasks) /\ Len(tasks') = Len(tasks)
        /\ \A j \in 1 .. Len(tasks) : tasks'[j].phy_dir = tasks[j].phy_dir
    <3> DEFINE t == [tasks[i] EXCEPT !.present = FALSE]
    <3>1. tasks[i] \in Tasks /\ i \in 1 .. Len(tasks)
      BY <2>2
    <3>2. t \in Tasks /\ t.phy_dir = tasks[i].phy_dir
      BY Zenon, <3>1 DEF Tasks
    <3>3. tasks' = [tasks EXCEPT ![i] = t]
      BY Zenon, <2>1
    <3> HIDE DEF t
    <3>4. /\ tasks' \in Seq(Tasks) /\ Len(tasks') = Len(tasks)
          /\ \A j \in 1 .. Len(tasks) : tasks'[j] = IF j = i THEN t ELSE tasks[j]
      BY <2>2, <3>1, <3>2, <3>3
    <3> QED
      BY Zenon, <3>2, <3>4
  <2>4. tasks # <<>> /\ tasks' # <<>>
    BY <2>2, <2>3
  <2>5. Dirs' = Dirs
    BY Zenon, <2>1, <2>3 DEF Dirs
  <2>6. Types'
    BY Zenon, <2>1, <2>2, <2>3, <2>4 DEF Types, Active
  <2>7. Tree'
    BY Zenon, <2>1, <2>5 DEF Tree
  <2>8. Caller' /\ Loader' /\ Stack0' /\ Fresh'
    BY Zenon, <2>1, <2>4 DEF Caller, Loader, Stack0, Fresh, Active, Booting
  <2>9. Locals' /\ InKstack' /\ InUstack' /\ InSection' /\ InText' /\ CountRegion' /\ Counts'
    BY Zenon, <2>1, <2>3 DEF Locals, InKstack, InUstack, InSection, InText, CountRegion, Counts
  <2> QED
    BY Zenon, <2>6, <2>7, <2>8, <2>9
<1> QED
  BY Zenon, <1>1, <1>2, <1>3

\* The slots do not run out.
LEMMA Room ==
  ASSUME SetFacts, IInv
  PROVE  /\ pc = "region" /\ (r.ret # "ustack" \/ r.pt_now = NULL) => Count(mem) < W
         /\ pc \in {"boot", "kstack", "text", "data"} => Count(mem) < W
         /\ pc = "idle" /\ Len(tasks) <= LOADS => Count(mem) + 6 <= W
<1>1. Types /\ Tree /\ Caller /\ Loader /\ CountRegion /\ Counts
  BY Zenon DEF IInv
<1>2. Count(mem) \in Nat /\ Len(tasks) \in Nat /\ W \in Nat /\ W >= 6 /\ LOADS \in Nat
      /\ 2 * LOADS + 6 <= W
  BY <1>1, Here, Constants DEF Types
<1>3. Active /\ ~Booting => Len(tasks) <= LOADS
  BY Zenon, <1>1 DEF Loader
<1>4. ASSUME pc = "region", r.ret # "ustack" \/ r.pt_now = NULL
      PROVE  Count(mem) < W
  <2>1. CASE Booting
    <3>1. Base <= 3 /\ Base \in Nat
      BY <2>1 DEF Base
    <3> QED
      BY <1>1, <1>2, <1>4, <3>1 DEF CountRegion
  <2>2. CASE ~Booting
    <3>1. Len(tasks) <= LOADS
      BY Zenon, <1>3, <1>4, <2>2 DEF Active
    <3>2. Base = IF r.ret = "ustack" THEN 2 * Len(tasks) + 5 ELSE 2 * Len(tasks) + 4
      BY Zenon, <2>2 DEF Base
    <3>3. Count(mem) <= Base + 1 /\ (r.pt_now = NULL => Count(mem) <= Base)
      BY Zenon, <1>1, <1>4 DEF CountRegion
    <3> QED
      BY <1>2, <1>4, <3>1, <3>2, <3>3
  <2> QED
    BY Zenon, <2>1, <2>2
<1>5. ASSUME pc \in {"text", "data"} \/ (pc = "kstack" /\ ~Booting)
      PROVE  Count(mem) < W
  <2>1. Count(mem) <= 2 * Len(tasks) + 5
    BY <1>1, <1>2, <1>5 DEF Counts
  <2>2. Len(tasks) <= LOADS
    BY Zenon, <1>1, <1>3, <1>5 DEF Active, Caller, Section
  <2> QED
    BY <1>2, <2>1, <2>2
<1>6. pc = "boot" \/ (pc = "kstack" /\ Booting) => Count(mem) < W
  BY <1>1, <1>2 DEF Counts
<1>7. pc = "idle" /\ Len(tasks) <= LOADS => Count(mem) + 6 <= W
  BY <1>1, <1>2 DEF Counts
<1> QED
  BY Zenon, <1>4, <1>5, <1>6, <1>7

\* From the text to the data and on to the stack.
LEMMA NextSection ==
  ASSUME SetFacts, IInv, ThenData \/ ThenStack
  PROVE  IInv'
<1>1. /\ Types /\ Tree /\ Caller /\ Loader /\ Stack0 /\ Counts
  BY Zenon DEF IInv
<1>2. pc \in {"text", "data"}
  BY Zenon DEF ThenData, ThenStack
<1>3. Active /\ Section = pc /\ ~Booting
  BY Zenon, <1>1, <1>2 DEF Active, Section, Caller
<1>4. /\ mem \in Mem /\ l.phy_dir \in Dirs /\ l.phy_dir \in 1 .. NFRAMES /\ r \in Regions
      /\ l \in Loads /\ Count(mem) < W /\ Count(mem) \in Nat /\ Len(tasks) \in Nat
  BY <1>1, <1>2, <1>3, Here, Room DEF Types
<1> DEFINE rev == Phy(At(mem, l.phy_dir, REV))
<1>5. rev \in 0 .. NFRAMES
  BY Zenon, <1>4, Constants DEF Mem, Entry, At, Phy
<1>6. Maps(mem, r.dir, l.phy_dir) /\ Maps(mem, l.rev_tb, rev) /\ Mapping(mem, rev) # {}
  BY Zenon, <1>1, <1>3, Mapped DEF Caller, Loader
<1>7. /\ l' \in Loads /\ l'.phy_dir = l.phy_dir /\ l'.hdr = l.hdr /\ l'.new_pg_dir = l.new_pg_dir
      /\ l'.rev_tb = l.rev_tb /\ l'.sys_pg = l.sys_pg /\ l'.kstack = l.kstack
  BY <1>4 DEF ThenData, ThenStack, Loads
<1>8. busy' = busy /\ image' = image /\ tasks' = tasks
  BY Zenon DEF ThenData, ThenStack
<1>9. PICK first, last, ret :
        /\ Region(mem, r.dir, first, last, "usr", ret)
        /\ \/ /\ ThenData /\ ret = "data"
              /\ first = l.hdr.vma_data /\ last = LastPage(l.hdr.vma_data, l.hdr.data_size)
           \/ ThenStack /\ ret = "ustack" /\ first = USTACK_FRAME /\ last = USTACK_FRAME + 1
  BY Zenon DEF ThenData, ThenStack
<1>12. first \in Nat /\ last \in Nat
  <2>1. l.hdr \in Headers /\ l.hdr.vma_data \in Nat /\ l.hdr.data_size \in Nat
    BY Zenon, <1>4, AddressSpaceAssumption DEF Loads
  <2>2. LastPage(l.hdr.vma_data, l.hdr.data_size) \in Nat
    BY Zenon, <2>1, LastPages
  <2>3. USTACK_FRAME \in Nat /\ USTACK_FRAME + 1 \in Nat
    BY Pages0
  <2> QED
    BY Zenon, <1>9, <2>1, <2>2, <2>3
<1>10. /\ r' \in Regions /\ r'.dir = r.dir /\ r'.va = first /\ r'.va_end = last /\ r'.flag = "usr" /\ r'.ret = ret
       /\ r'.pt_now = NULL /\ r'.new_pt = NULL /\ pc' = "region"
       /\ Maps(mem', r'.rev_tb, rev) /\ r'.new_rev \in BOOLEAN
       /\ ~r'.new_rev => mem' = mem
       /\ r'.new_rev => Mapping(mem, rev) = {}
  <2>1. ret \in {"kstack", "text", "data", "ustack"} /\ "usr" \in {"krn", "usr"}
    BY Zenon, <1>9
  <2>2. Called(mem, r.dir, rev, first, last, "usr", ret)
    BY Zenon, <1>4, <1>5, <1>6, <1>9, <1>12, <2>1, RegionCall
  <2> QED
    BY Zenon, <2>2 DEF Called
<1>11. mem' = mem /\ ~r'.new_rev
  BY Zenon, <1>6, <1>10
<1>13. Dirs' = Dirs
  BY Zenon, <1>7, <1>8 DEF Dirs
<1>14. Active' /\ ~Booting' /\ Section' = ret /\ ret \in {"data", "ustack"}
  BY Zenon, <1>3, <1>8, <1>9, <1>10 DEF Active, Booting, Section
<1>15. Types'
  BY Zenon, <1>1, <1>3, <1>7, <1>8, <1>10, <1>11, <1>14 DEF Types, Booting
<1>16. Tree'
  BY Zenon, <1>1, <1>8, <1>11, <1>13 DEF Tree
<1>17. Caller' /\ Loader'
  BY Zenon, <1>1, <1>3, <1>6, <1>7, <1>8, <1>10, <1>11, <1>14 DEF Caller, Loader
<1>18. Stack0' /\ Fresh'
  BY Zenon, <1>1, <1>2, <1>3, <1>7, <1>10, <1>11, <1>14 DEF Stack0, Fresh
<1>19. Locals' /\ InKstack' /\ InText'
  BY Zenon, <1>7, <1>9, <1>10, <1>11 DEF Locals, InKstack, InText
<1>20. InUstack'
  BY <1>9, <1>10, Pages0 DEF InUstack
<1>21. InSection'
  <2>1. CASE ret = "ustack"
    BY Zenon, <1>10, <2>1 DEF InSection
  <2>2. CASE ret = "data"
    <3>1. First' = first /\ Last' = last
      BY Zenon, <1>7, <1>9, <1>14, <2>2 DEF First, Last
    <3>2. last >= first
      <4>1. l.hdr \in Headers
        BY Zenon, <1>4 DEF Loads
      <4> QED
        BY <1>9, <2>2, <4>1, HeaderFacts, LastPages DEF ThenStack, ThenData
    <3> QED
      BY <1>10, <1>12, <3>1, <3>2 DEF InSection
  <2> QED
    BY Zenon, <1>14, <2>1, <2>2
<1>22. CountRegion'
  <2>1. Base' = IF ret = "ustack" THEN 2 * Len(tasks) + 5 ELSE 2 * Len(tasks) + 4
    BY Zenon, <1>8, <1>10, <1>14 DEF Base
  <2>2. CASE ThenStack
    <3>1. Count(mem) <= 2 * Len(tasks) + 5 /\ ret = "ustack"
      BY Zenon, <1>1, <1>9, <2>2 DEF Counts, ThenStack, ThenData
    <3> QED
      BY <1>4, <1>11, <2>1, <3>1 DEF CountRegion
  <2>3. CASE ThenData
    <3>1. pc = "text" /\ 2 * l.k >= l.hdr.text_size /\ ret = "data"
      BY Zenon, <1>9, <2>3 DEF ThenData, ThenStack
    <3>2. l.k \in Nat /\ l.hdr.text_size \in Nat
      BY Zenon, <1>4, AddressSpaceAssumption DEF Loads
    <3>3. ~Removable
      BY <3>1, <3>2 DEF Removable
    <3>4. Count(mem) <= 2 * Len(tasks) + 4
      BY Zenon, <1>1, <3>1, <3>3 DEF Counts
    <3> QED
      BY <1>4, <1>11, <2>1, <3>1, <3>4 DEF CountRegion
  <2> QED
    BY Zenon, <2>2, <2>3
<1>23. Counts'
  BY Zenon, <1>10 DEF Counts
<1> QED
  BY Zenon, <1>15, <1>16, <1>17, <1>18, <1>19, <1>20, <1>21, <1>22, <1>23 DEF IInv

\* A round of the copying loops.
LEMMA CopyIInv ==
  ASSUME SetFacts, IInv, CopyText \/ CopyData
  PROVE  IInv'
<1>1. Types /\ Tree /\ Caller /\ Loader /\ Stack0 /\ InSection /\ Counts
  BY Zenon DEF IInv
<1>2. pc \in {"text", "data"}
  BY Zenon DEF CopyText, CopyData
<1>3. Active /\ Section = pc /\ ~Booting
  BY Zenon, <1>1, <1>2 DEF Active, Section, Caller
<1>4. /\ mem \in Mem /\ l.phy_dir \in Dirs /\ busy \in SUBSET (USER_P_START .. NFRAMES)
      /\ TreeIs(mem, busy, Dirs) /\ r \in Regions
      /\ l \in Loads /\ Count(mem) < W /\ Count(mem) \in Nat /\ Len(tasks) \in Nat
  BY <1>1, <1>2, <1>3, Here, Room DEF Types
<1>5. l.hdr \in Headers /\ l.k \in Nat
  BY Zenon, <1>4 DEF Loads
<1>6. PICK vma, size :
        /\ Copy(vma, size) /\ First = vma /\ Last = LastPage(vma, size)
        /\ pc = "text" => vma = l.hdr.vma_text /\ size = l.hdr.text_size
        /\ pc = "data" => vma = l.hdr.vma_data /\ size = l.hdr.data_size
  BY Zenon, <1>3 DEF CopyText, CopyData, First, Last
<1> DEFINE p == vma + l.k
           i == PAGE_DIR_INDEX(p)
           t == Phy(At(mem, l.phy_dir, i))
<1>7. vma \in Nat /\ size \in Nat /\ p \in Nat /\ 2 * l.k < size
  <2>1. vma \in Nat /\ size \in Nat
    BY Zenon, <1>2, <1>5, <1>6, HeaderFacts
  <2>2. 2 * l.k < size
    BY Zenon, <1>6 DEF Copy
  <2> QED
    BY <1>5, <2>1, <2>2
<1>8. p \in First .. Last
  <2>1. LastPage(vma, size) \in Nat /\ vma + l.k <= LastPage(vma, size)
    BY Zenon, <1>5, <1>7, LastPages
  <2> QED
    BY <1>5, <1>6, <1>7, <2>1
<1>9. i \in 0 .. KDIR - 1
  BY <1>2, <1>5, <1>6, <1>7, <1>8, HeaderFacts
<1>10. Leads(mem, l.phy_dir, i)
  BY Zenon, <1>1, <1>2, <1>8, <1>9 DEF InSection, InTable, Leads
<1>11. Deref(mem, r.dir) = l.phy_dir /\ TableOf(mem, l.phy_dir, p) = t
  BY Zenon, <1>1, <1>3 DEF Caller, Maps, Deref, TableOf, At, Phy
<1>12. /\ mem' = After_get_phy(mem, l.phy_dir, p)
       /\ l' = [l EXCEPT !.k = @ + 1] /\ busy' = busy /\ pc' = pc /\ r' = r /\ tasks' = tasks
  BY Zenon, <1>6, <1>11 DEF Copy
<1>13. image' \in [1 .. NFRAMES -> {<<>>} \cup Nat \X Nat]
  <2>1. image \in [1 .. NFRAMES -> {<<>>} \cup Nat \X Nat]
    BY Zenon, <1>1 DEF Types
  <2>2. <<Len(tasks), vma + l.k>> \in Nat \X Nat
    BY Zenon, <1>4, <1>7
  <2>3. PICK page : image' = [image EXCEPT ![page] = <<Len(tasks), vma + l.k>>]
    BY Zenon, <1>6 DEF Copy
  <2> QED
    BY Zenon, <2>1, <2>2, <2>3
<1> HIDE DEF p, i, t
<1>14. /\ t \in 1 .. NFRAMES /\ t # l.phy_dir
       /\ t # Phy(At(mem, l.phy_dir, REV)) /\ t # Phy(At(mem, l.phy_dir, SYS))
       /\ Stacked(mem) => Phy(KPage(mem)) # t
  <2>1. Stacked(mem) => \A k : Leads(mem, l.phy_dir, k) => Phy(KPage(mem)) # Phy(At(mem, l.phy_dir, k))
    BY Zenon, <1>4, StackApart
  <2>2. /\ t \in 1 .. NFRAMES /\ t \notin Dirs
        /\ t # Phy(At(mem, l.phy_dir, REV)) /\ t # Phy(At(mem, l.phy_dir, SYS))
    BY Zenon, <1>4, <1>10, TableApart DEF t
  <2> QED
    BY Zenon, <1>4, <1>10, <2>1, <2>2 DEF t
<1>15. /\ mem' \in Mem /\ SameBut(mem, mem') /\ Count(mem') <= Count(mem)
       /\ Mapping(mem, t) # {} => Count(mem') = Count(mem) - 1
       /\ \A s, f : Maps(mem, s, f) /\ f # t => Maps(mem', s, f)
  <2>1. t \in 0 .. NFRAMES
    BY <1>14
  <2> QED
    BY Zenon, <1>4, <1>11, <1>12, <2>1, GetPhy
<1>16. /\ l' \in Loads /\ l'.phy_dir = l.phy_dir /\ l'.hdr = l.hdr /\ l'.new_pg_dir = l.new_pg_dir
       /\ l'.rev_tb = l.rev_tb /\ l'.sys_pg = l.sys_pg /\ l'.kstack = l.kstack /\ l'.k = l.k + 1
  BY <1>4, <1>12 DEF Loads
<1>17. Dirs' = Dirs
  BY Zenon, <1>12, <1>16 DEF Dirs
<1>18. /\ Tree' /\ \A d \in Dirs : Same(mem, mem', d)
       /\ Stacked(mem) => Stacked(mem') /\ KPage(mem') = KPage(mem)
  BY Zenon, <1>1, <1>12, <1>15, <1>17, TreeSame
<1>19. Same(mem, mem', l.phy_dir) /\ Stacked(mem) /\ Stacked(mem') /\ KPage(mem') = KPage(mem)
  BY Zenon, <1>1, <1>3, <1>4, <1>18 DEF Stack0
<1>20. Active' /\ ~Booting' /\ Section' = Section /\ pc' \in {"text", "data"} /\ Section' = pc
  BY Zenon, <1>2, <1>3, <1>12 DEF Active, Booting, Section
<1>21. Types'
  BY Zenon, <1>1, <1>12, <1>13, <1>15, <1>16, <1>20 DEF Types, Active
<1>22. Caller'
  BY Zenon, <1>1, <1>3, <1>12, <1>14, <1>15, <1>16, <1>20 DEF Caller
<1>23. Loader'
  <2>1. /\ l.phy_dir # PG_DIR0 /\ Len(tasks) <= LOADS /\ Maps(mem, l.new_pg_dir, l.phy_dir)
        /\ Maps(mem, l.rev_tb, Phy(At(mem, l.phy_dir, REV))) /\ Maps(mem, l.sys_pg, Phy(At(mem, l.phy_dir, SYS)))
    BY Zenon, <1>1, <1>3 DEF Loader
  <2>2. /\ Maps(mem', l.new_pg_dir, l.phy_dir) /\ Maps(mem', l.rev_tb, Phy(At(mem, l.phy_dir, REV)))
        /\ Maps(mem', l.sys_pg, Phy(At(mem, l.phy_dir, SYS)))
    BY Zenon, <1>14, <1>15, <2>1
  <2> QED
    BY Zenon, <1>12, <1>16, <1>19, <2>1, <2>2 DEF Loader
<1>24. Stack0' /\ Fresh'
  <2>1. Maps(mem', l.kstack, Phy(KPage(mem)))
    BY Zenon, <1>1, <1>2, <1>3, <1>14, <1>15, <1>19 DEF Stack0
  <2> QED
    BY Zenon, <1>2, <1>12, <1>16, <1>19, <1>20, <2>1 DEF Stack0, Fresh
<1>25. Locals' /\ InKstack' /\ InUstack' /\ InText' /\ CountRegion'
  BY Zenon, <1>20 DEF Locals, InKstack, InUstack, InText, CountRegion
<1>26. InSection'
  <2>1. First' = First /\ Last' = Last
    BY Zenon, <1>16, <1>20 DEF First, Last
  <2>2. \A q \in First .. Last : InTable(q)
    BY Zenon, <1>1, <1>2 DEF InSection
  <2>3. \A q : InTable(q)' <=> InTable(q)
    BY Zenon, <1>16, <1>19 DEF InTable
  <2> QED
    BY Zenon, <1>20, <2>1, <2>2, <2>3 DEF InSection
<1>27. Counts'
  <2>1. Count(mem') \in Nat
    BY Zenon, <1>15, Slots0
  <2>2. CASE pc = "data"
    BY <1>1, <1>4, <1>12, <1>15, <2>1, <2>2 DEF Counts
  <2>3. CASE pc = "text" /\ Count(mem') <= 2 * Len(tasks) + 4
    BY Zenon, <1>12, <2>3 DEF Counts
  <2>4. CASE pc = "text" /\ Count(mem') > 2 * Len(tasks) + 4
    <3>1. Count(mem) <= 2 * Len(tasks) + 5 /\ Removable /\ Mapping(mem, t) = {}
      BY <1>1, <1>4, <1>15, <2>1, <2>4 DEF Counts
    <3>2. PICK k \in l.k .. l.hdr.text_size, s \in Slots :
            2 * k < l.hdr.text_size /\ Maps(mem, s, TableOf(mem, l.phy_dir, l.hdr.vma_text + k))
      BY Zenon, <3>1 DEF Removable
    <3> DEFINE u == TableOf(mem, l.phy_dir, l.hdr.vma_text + k)
    <3>3. u # t
      BY Zenon, <3>1, <3>2, Mapped
    <3>4. k # l.k
      BY Zenon, <1>6, <1>11, <2>4, <3>3 DEF p
    <3>5. k \in l'.k .. l'.hdr.text_size
      BY <1>5, <1>16, <3>2, <3>4, HeaderFacts
    <3>6. TableOf(mem', l'.phy_dir, l'.hdr.vma_text + k) = u
      BY Zenon, <1>16, <1>19 DEF TableOf, At, Phy
    <3>7. Maps(mem', s, u)
      BY Zenon, <1>15, <3>2, <3>3
    <3>8. Removable'
      BY Zenon, <1>16, <3>2, <3>5, <3>6, <3>7 DEF Removable
    <3> QED
      BY <1>4, <1>12, <1>15, <2>1, <2>4, <3>1, <3>8 DEF Counts
  <2> QED
    BY <1>2, <1>4, <2>1, <2>2, <2>3, <2>4
<1> QED
  BY Zenon, <1>18, <1>21, <1>22, <1>23, <1>24, <1>25, <1>26, <1>27 DEF IInv


\* The end of a region.
LEMMA RegionEndIInv ==
  ASSUME SetFacts, IInv, RegionEnd
  PROVE  IInv'
<1>1. /\ Types /\ Tree /\ Caller /\ Loader /\ Stack0 /\ Fresh /\ Locals /\ InKstack
      /\ InSection /\ InText /\ CountRegion
  BY Zenon DEF IInv
<1>2. /\ pc = "region" /\ r.va > r.va_end /\ pc' = r.ret /\ busy' = busy /\ image' = image
      /\ r' = r /\ l' = l /\ tasks' = tasks
  BY Zenon DEF RegionEnd
<1>3. /\ mem \in Mem /\ l.phy_dir \in Dirs /\ busy \in SUBSET (USER_P_START .. NFRAMES)
      /\ TreeIs(mem, busy, Dirs) /\ r \in Regions /\ Count(mem) \in Nat /\ Len(tasks) \in Nat
  BY <1>1, <1>2, Here DEF Types, Active
<1>4. /\ r.new_pt \in Slots \cup {NULL} /\ r.rev_tb \in Slots /\ r.va \in Nat /\ r.va_end \in Nat
      /\ r.ret \in {"kstack", "text", "data", "ustack"}
  BY Zenon, <1>3 DEF Regions
<1> DEFINE m1 == IF r.new_pt # NULL THEN delete_temp_va(mem, r.new_pt) ELSE mem
           X == {s \in {r.new_pt} : r.new_pt # NULL} \cup {s \in {r.rev_tb} : r.new_rev}
           d == l.phy_dir
<1>5. /\ m1 \in Mem /\ SameBut(mem, m1) /\ Kept(mem, m1, X) /\ Count(m1) <= Count(mem)
      /\ Kept(mem, m1, {r.new_pt}) /\ (r.new_pt = NULL => m1 = mem) /\ Count(m1) \in Nat
      /\ r.new_pt # NULL /\ r.new_pt \in Used(mem) => Count(m1) = Count(mem) - 1
  <2>1. CASE r.new_pt # NULL
    <3>1. m1 = delete_temp_va(mem, r.new_pt) /\ r.new_pt \in Slots
      BY Zenon, <1>4, <2>1
    <3> HIDE DEF m1
    <3>2. /\ m1 \in Mem /\ SameBut(mem, m1) /\ Kept(mem, m1, {r.new_pt}) /\ Count(m1) <= Count(mem)
          /\ r.new_pt \in Used(mem) => Count(m1) = Count(mem) - 1
      BY Zenon, <1>3, <3>1, DeleteTemp
    <3> QED
      BY Zenon, <2>1, <3>2, Slots0 DEF Kept
  <2>2. CASE r.new_pt = NULL
    <3>1. m1 = mem
      BY Zenon, <2>2
    <3> QED
      BY <1>3, <2>2, <3>1 DEF SameBut, Kept
  <2> QED
    BY Zenon, <2>1, <2>2
<1>6. /\ mem' \in Mem /\ SameBut(mem, mem') /\ Kept(mem, mem', X) /\ Count(mem') <= Count(m1)
      /\ ~r.new_rev => mem' = m1
      /\ r.new_rev /\ r.rev_tb \in Used(m1) => Count(mem') = Count(m1) - 1
  <2>1. mem' = IF r.new_rev THEN delete_temp_va(m1, r.rev_tb) ELSE m1
    BY Zenon DEF RegionEnd
  <2> HIDE DEF m1
  <2>2. CASE r.new_rev
    <3>1. /\ mem' \in Mem /\ SameBut(m1, mem') /\ Kept(m1, mem', {r.rev_tb})
          /\ Count(mem') <= Count(m1) /\ (r.rev_tb \in Used(m1) => Count(mem') = Count(m1) - 1)
      BY Zenon, <1>4, <1>5, <2>1, <2>2, DeleteTemp
    <3>2. SameBut(mem, mem')
      BY Zenon, <1>5, <3>1 DEF SameBut
    <3>3. Kept(mem, mem', X)
      BY Zenon, <1>5, <2>2, <3>1 DEF Kept, Used
    <3> QED
      BY Zenon, <2>2, <3>1, <3>2, <3>3
  <2>3. CASE ~r.new_rev
    BY <1>5, <2>1, <2>3
  <2> QED
    BY Zenon, <2>2, <2>3
<1> HIDE DEF m1
<1>7. Active /\ Active' /\ Section = r.ret /\ Section' = r.ret /\ (Booting' <=> Booting) /\ Dirs' = Dirs
  BY Zenon, <1>2, <1>4 DEF Active, Section, Booting, Dirs
<1>8. /\ Tree' /\ \A e \in Dirs : Same(mem, mem', e)
      /\ Stacked(mem) => Stacked(mem') /\ KPage(mem') = KPage(mem)
  BY Zenon, <1>1, <1>2, <1>6, <1>7, TreeSame
<1>9. Same(mem, mem', d) /\ Same(mem, mem', PG_DIR0)
  BY Zenon, <1>1, <1>3, <1>8, Here
\* What the two mappings lead to.
<1>10. r.new_pt # NULL => \E i : Leads(mem, d, i) /\ Maps(mem, r.new_pt, Phy(At(mem, d, i)))
  BY Zenon, <1>1, <1>2 DEF Locals, Leads
<1>11. Maps(mem, r.rev_tb, Phy(At(mem, d, REV))) /\ (r.new_rev => Booting)
  BY Zenon, <1>1, <1>2 DEF Locals
<1>12. ASSUME NEW s, Maps(mem, s, d)
       PROVE  Maps(mem', s, d)
  <2>1. s # r.new_pt \/ r.new_pt = NULL
    <3>1. \A i : Leads(mem, d, i) => Phy(At(mem, d, i)) # d
      BY <1>3, TableApart
    <3> QED
      BY Zenon, <1>10, <1>12, <3>1 DEF Maps
  <2>2. s # r.rev_tb
    BY Zenon, <1>3, <1>11, <1>12, DirApart DEF Maps
  <2> QED
    BY <1>6, <1>12, <2>1, <2>2, MapsKept
<1>13. ASSUME ~Booting, NEW s, NEW f,
              f \in {Phy(At(mem, d, REV)), Phy(At(mem, d, SYS))} \/ (Stacked(mem) /\ f = Phy(KPage(mem))),
              Maps(mem, s, f)
       PROVE  Maps(mem', s, f)
  <2>1. \A i : Leads(mem, d, i) => Phy(At(mem, d, i)) # f
    <3>1. \A i : Leads(mem, d, i) => Phy(At(mem, d, i)) # Phy(At(mem, d, REV)) /\ Phy(At(mem, d, i)) # Phy(At(mem, d, SYS))
      BY Zenon, <1>3, TableApart
    <3>2. Stacked(mem) => \A i : Leads(mem, d, i) => Phy(KPage(mem)) # Phy(At(mem, d, i))
      BY Zenon, <1>3, StackApart
    <3> QED
      BY Zenon, <1>13, <3>1, <3>2
  <2>2. s # r.new_pt \/ r.new_pt = NULL
    BY Zenon, <1>10, <1>13, <2>1 DEF Maps
  <2> QED
    BY <1>6, <1>11, <1>13, <2>2, MapsKept
<1>14. Types'
  BY Zenon, <1>1, <1>2, <1>4, <1>6, <1>7 DEF Types
<1>15. Caller'
  BY Zenon, <1>1, <1>2, <1>7, <1>12 DEF Caller
<1>16. Loader'
  <2>1. CASE Booting
    BY Zenon, <1>7, <2>1 DEF Loader
  <2>2. CASE ~Booting
    <3>1. /\ d # PG_DIR0 /\ Len(tasks) <= LOADS /\ Maps(mem, l.new_pg_dir, d)
          /\ Maps(mem, l.rev_tb, Phy(At(mem, d, REV))) /\ Maps(mem, l.sys_pg, Phy(At(mem, d, SYS)))
      BY Zenon, <1>1, <1>7, <2>2 DEF Loader
    <3>2. /\ Maps(mem', l.new_pg_dir, d)
          /\ Maps(mem', l.rev_tb, Phy(At(mem, d, REV))) /\ Maps(mem', l.sys_pg, Phy(At(mem, d, SYS)))
      BY Zenon, <1>12, <1>13, <2>2, <3>1
    <3> QED
      BY Zenon, <1>2, <1>9, <3>1, <3>2 DEF Loader
  <2> QED
    BY Zenon, <2>1, <2>2
<1>17. r.ret = "kstack" => /\ r.va = KSTACK_FRAME + 2 /\ r.new_pt = NULL /\ m1 = mem
                           /\ Stacked(mem) /\ Maps(mem, r.pt_now, Phy(At(mem, PG_DIR0, KST)))
  BY <1>1, <1>2, <1>4, <1>5, Pages0 DEF InKstack
<1>18. r.ret = "kstack" => Maps(mem', r.pt_now, Phy(At(mem, PG_DIR0, KST)))
  <2> SUFFICES ASSUME r.ret = "kstack"
               PROVE  Maps(mem', r.pt_now, Phy(At(mem, PG_DIR0, KST)))
    BY Zenon
  <2>1. Leads(mem, d, KST) /\ At(mem, d, KST) = At(mem, PG_DIR0, KST)
    BY Zenon, <1>3, <1>17, StackApart
  <2>2. Phy(At(mem, d, KST)) # Phy(At(mem, d, REV))
    BY Zenon, <1>3, <2>1, TableApart
  <2>3. r.pt_now # r.rev_tb
    BY Zenon, <1>11, <1>17, <2>1, <2>2 DEF Maps
  <2> QED
    BY <1>6, <1>17, <2>3, MapsKept
<1>19. Stack0'
  <2>1. ~Booting => Stacked(mem)
    BY Zenon, <1>1 DEF Stack0
  <2>2. ~Booting /\ r.ret # "kstack" => Maps(mem', l.kstack, Phy(KPage(mem)))
    BY Zenon, <1>1, <1>7, <1>13, <2>1 DEF Stack0
  <2> QED
    BY Zenon, <1>2, <1>7, <1>8, <1>9, <1>17, <1>18, <2>1, <2>2 DEF Stack0
<1>20. Fresh'
  BY Zenon, <1>1, <1>2, <1>7, <1>9 DEF Fresh
<1>21. Locals' /\ InKstack' /\ InUstack' /\ InText' /\ CountRegion'
  BY Zenon, <1>2, <1>4 DEF Locals, InKstack, InUstack, InText, CountRegion
<1>22. InSection'
  <2>1. CASE r.ret \in {"text", "data"}
    <3>1. First' = First /\ Last' = Last
      BY Zenon, <1>2, <1>7 DEF First, Last
    <3>2. \A q : InTable(q)' <=> InTable(q)
      BY Zenon, <1>2, <1>9 DEF InTable
    <3>3. r.va - 1 = Last /\ \A p \in First .. r.va - 1 : InTable(p)
      BY <1>1, <1>2, <1>4, <2>1 DEF InSection
    <3> QED
      BY Zenon, <1>2, <1>4, <3>1, <3>2, <3>3 DEF InSection
  <2>2. CASE r.ret \notin {"text", "data"}
    BY Zenon, <1>2, <1>4, <2>2 DEF InSection
  <2> QED
    BY Zenon, <2>1, <2>2
<1>23. Count(mem') \in Nat /\ Count(mem') <= Count(mem)
  BY <1>3, <1>5, <1>6, Slots0
<1>24. Count(mem) <= Base + 1 /\ ~(r.ret # "kstack" /\ Booting)
  BY Zenon, <1>1, <1>2, <1>7 DEF CountRegion, Caller
<1>25. ASSUME r.ret = "kstack" /\ Booting
       PROVE  Counts'
  <2>1. r.rev_tb \in Used(m1)
    BY Zenon, <1>11, <1>17, <1>25, Mapped
  <2>2. Count(mem') <= 3
    BY <1>3, <1>6, <1>17, <1>24, <1>25, <2>1 DEF Base
  <2> QED
    BY Zenon, <1>2, <1>7, <1>25, <2>2 DEF Counts
<1>26. ASSUME ~Booting /\ r.ret # "text"
       PROVE  Counts'
  <2>1. Count(mem) <= IF r.ret = "ustack" THEN 2 * Len(tasks) + 6 ELSE 2 * Len(tasks) + 5
    BY <1>3, <1>24, <1>26 DEF Base
  <2> QED
    BY <1>2, <1>3, <1>4, <1>7, <1>23, <1>26, <2>1 DEF Counts
<1>27. ASSUME ~Booting /\ r.ret = "text"
       PROVE  Counts'
  <2>1. Count(mem) <= 2 * Len(tasks) + 5 /\ mem' = m1
    BY <1>3, <1>6, <1>11, <1>24, <1>27 DEF Base
  <2>2. CASE r.new_pt # NULL
    <3>1. r.new_pt \in Used(mem)
      BY Zenon, <1>10, <2>2, Mapped
    <3>2. Count(mem') <= 2 * Len(tasks) + 4
      BY <1>3, <1>5, <2>1, <2>2, <3>1
    <3> QED
      BY Zenon, <1>2, <1>27, <3>2 DEF Counts
  <2>3. CASE r.new_pt = NULL
    <3>1. l.hdr \in Headers
      BY Zenon, <1>1, <1>7, <1>27 DEF Types, Loads
    <3>2. First = l.hdr.vma_text /\ Last = LastPage(First, l.hdr.text_size)
      BY Zenon, <1>7, <1>27 DEF First, Last
    <3>3. First \in Nat /\ l.hdr.text_size \in Nat /\ Last \in Nat /\ Last >= First
          /\ 2 * (Last - First) <= l.hdr.text_size
      BY Zenon, <3>1, <3>2, HeaderFacts, LastPages
    <3>4. r.va = Last + 1
      BY <1>1, <1>2, <1>4, <1>27, <3>3 DEF InSection
    <3>5. /\ l.k = 0 /\ r.va >= First + 2 /\ PAGE_DIR_INDEX(r.va - 2) = PAGE_DIR_INDEX(r.va - 1)
          /\ Maps(mem, r.pt_now, TableOf(mem, d, r.va - 1))
      BY <1>1, <1>2, <1>27, <2>3, <3>3, <3>4 DEF InText
    <3> DEFINE k == r.va - 2 - First
    <3>6. k \in l.k .. l.hdr.text_size /\ 2 * k < l.hdr.text_size /\ l.hdr.vma_text + k = r.va - 2
      BY <3>2, <3>3, <3>4, <3>5
    <3>7. r.pt_now \in Slots /\ Maps(mem, r.pt_now, TableOf(mem, d, l.hdr.vma_text + k))
      BY Zenon, <3>5, <3>6 DEF TableOf, Maps
    <3>8. Removable'
      BY Zenon, <1>2, <1>5, <2>1, <2>3, <3>6, <3>7 DEF Removable
    <3> QED
      BY Zenon, <1>2, <1>5, <1>27, <2>1, <2>3, <3>8 DEF Counts
  <2> QED
    BY Zenon, <2>2, <2>3
<1>28. Counts'
  BY Zenon, <1>24, <1>25, <1>26, <1>27
<1> QED
  BY Zenon, <1>8, <1>14, <1>15, <1>16, <1>19, <1>20, <1>21, <1>22, <1>28 DEF IInv

\* Four mappings less.
LEMMA RemoveFour ==
  ASSUME SetFacts, NEW S, IsFiniteSet(S), NEW a \in S, NEW b \in S, NEW c \in S, NEW d \in S,
         a # b, a # c, a # d, b # c, b # d, c # d, NEW T \in SUBSET (S \ {a, b, c, d})
  PROVE  Cardinality(T) <= Cardinality(S) - 4
<1> DEFINE S1 == S \ {a}
           S2 == S1 \ {b}
           S3 == S2 \ {c}
           S4 == S3 \ {d}
<1>1. b \in S1 /\ c \in S2 /\ d \in S3 /\ T \in SUBSET S4
  BY Zenon
<1>2. IsFiniteSet(S1) /\ Cardinality(S1) = Cardinality(S) - 1
  BY Zenon DEF SetFacts
<1> HIDE DEF S1
<1>3. IsFiniteSet(S2) /\ Cardinality(S2) = Cardinality(S1) - 1
  BY Zenon, <1>1, <1>2 DEF SetFacts
<1> HIDE DEF S2
<1>4. IsFiniteSet(S3) /\ Cardinality(S3) = Cardinality(S2) - 1
  BY Zenon, <1>1, <1>3 DEF SetFacts
<1> HIDE DEF S3
<1>5. IsFiniteSet(S4) /\ Cardinality(S4) = Cardinality(S3) - 1
  BY Zenon, <1>1, <1>4 DEF SetFacts
<1> HIDE DEF S4
<1>6. Cardinality(T) <= Cardinality(S4)
  BY Zenon, <1>1, <1>5 DEF SetFacts
<1>7. Cardinality(S) \in Nat /\ Cardinality(T) \in Nat
  BY Zenon, <1>1, <1>5 DEF SetFacts
<1> QED
  BY <1>2, <1>3, <1>4, <1>5, <1>6, <1>7

\* The end of load_task.
LEMMA LoadedIInv ==
  ASSUME SetFacts, IInv, Loaded
  PROVE  IInv'
<1>1. Types /\ Tree /\ Caller /\ Loader /\ Stack0 /\ Counts
  BY Zenon DEF IInv
<1>2. /\ pc = "ustack" /\ pc' = "idle" /\ busy' = busy /\ image' = image /\ r' = r /\ l' = l
      /\ tasks' = Append(tasks, [phy_dir |-> l.phy_dir, hdr |-> l.hdr, present |-> TRUE])
  BY Zenon DEF Loaded
<1>3. Active /\ ~Booting /\ Section = "ustack" /\ ~Active'
  BY Zenon, <1>1, <1>2 DEF Active, Section, Caller
<1>4. /\ mem \in Mem /\ l.phy_dir \in Dirs /\ busy \in SUBSET (USER_P_START .. NFRAMES)
      /\ TreeIs(mem, busy, Dirs) /\ l \in Loads /\ Count(mem) \in Nat
  BY Zenon, <1>1, <1>3, Here DEF Types
<1> DEFINE d == l.phy_dir
           X == {r.dir, l.new_pg_dir, l.rev_tb, l.sys_pg, l.kstack}
<1>5. /\ Maps(mem, l.new_pg_dir, d) /\ Maps(mem, l.rev_tb, Phy(At(mem, d, REV)))
      /\ Maps(mem, l.sys_pg, Phy(At(mem, d, SYS))) /\ Stacked(mem)
      /\ Maps(mem, l.kstack, Phy(KPage(mem))) /\ Len(tasks) <= LOADS
  BY Zenon, <1>1, <1>3 DEF Loader, Stack0
<1>6. /\ d # Phy(At(mem, d, REV)) /\ d # Phy(At(mem, d, SYS)) /\ Phy(At(mem, d, REV)) # Phy(At(mem, d, SYS))
      /\ Phy(KPage(mem)) # d /\ Phy(KPage(mem)) # Phy(At(mem, d, REV)) /\ Phy(KPage(mem)) # Phy(At(mem, d, SYS))
  BY <1>4, <1>5, DirApart, StackApart
<1>7. /\ l.new_pg_dir # l.rev_tb /\ l.new_pg_dir # l.sys_pg /\ l.new_pg_dir # l.kstack
      /\ l.rev_tb # l.sys_pg /\ l.rev_tb # l.kstack /\ l.sys_pg # l.kstack
      /\ {l.new_pg_dir, l.rev_tb, l.sys_pg, l.kstack} \subseteq Used(mem)
  BY Zenon, <1>5, <1>6 DEF Maps, Used
<1>8. mem' \in Mem /\ SameBut(mem, mem') /\ Used(mem') = Used(mem) \ X
  <2> DEFINE e == [i \in Slots |-> IF i \in X THEN Unset ELSE mem[SYS0][i]]
  <2>1. SYS0 \in 1 .. NFRAMES /\ Unset \in Entry /\ ~PAGE_ENTRY_SET(Unset)
    BY Constants DEF Unset, Entry, PAGE_ENTRY_SET
  <2>2. mem' = [mem EXCEPT ![SYS0] = e]
    BY Zenon DEF Loaded
  <2>3. e \in [Slots -> Entry]
    BY Zenon, <1>4, <2>1 DEF Mem
  <2>4. \A i \in Slots : e[i] = IF i \in X THEN Unset ELSE At(mem, SYS0, i)
    BY Zenon DEF At
  <2> HIDE DEF e
  <2>5. mem' \in Mem /\ SameBut(mem, mem') /\ \A i : At(mem', SYS0, i) = e[i]
    BY Zenon, <1>4, <2>1, <2>2, <2>3 DEF Mem, SameBut, At
  <2> QED
    BY <2>1, <2>4, <2>5 DEF Used
<1>9. Count(mem') \in Nat /\ Count(mem') <= Count(mem) - 4
  <2>1. IsFiniteSet(Used(mem)) /\ Count(mem') \in Nat
    BY Zenon, <1>4, <1>8, Slots0
  <2>2. Used(mem') \in SUBSET (Used(mem) \ {l.new_pg_dir, l.rev_tb, l.sys_pg, l.kstack})
    BY Zenon, <1>8
  <2> QED
    BY Zenon, <1>7, <2>1, <2>2, RemoveFour DEF Count
<1>10. tasks \in Seq(Tasks) /\ tasks # <<>> /\ tasks[1].phy_dir = PG_DIR0 /\ Len(tasks) \in Nat
  BY <1>1, <1>3 DEF Types, Booting
<1>11. /\ tasks' \in Seq(Tasks) /\ Len(tasks') = Len(tasks) + 1 /\ tasks' # <<>>
       /\ \A i \in 1 .. Len(tasks) : tasks'[i] = tasks[i]
       /\ tasks'[Len(tasks) + 1].phy_dir = d
  <2> DEFINE t == [phy_dir |-> l.phy_dir, hdr |-> l.hdr, present |-> TRUE]
  <2>1. t \in Tasks /\ t.phy_dir = d
    BY Zenon, <1>4 DEF Tasks, Loads
  <2>2. tasks' = Append(tasks, t)
    BY Zenon, <1>2
  <2> HIDE DEF t
  <2>3. /\ tasks' \in Seq(Tasks) /\ Len(tasks') = Len(tasks) + 1
        /\ \A i \in 1 .. Len(tasks) : tasks'[i] = tasks[i] /\ tasks'[Len(tasks) + 1] = t
    BY <1>10, <2>1, <2>2
  <2> QED
    BY <1>10, <2>1, <2>2, <2>3
<1>12. 1 \in 1 .. Len(tasks) /\ Len(tasks) + 1 \in 1 .. Len(tasks')
  BY <1>10, <1>11
<1>13. Dirs' = Dirs
  <2>1. 1 .. Len(tasks') = 1 .. Len(tasks) \cup {Len(tasks) + 1}
    BY <1>10, <1>11
  <2> QED
    BY <1>2, <1>11, <2>1 DEF Dirs
<1>14. Tree' /\ Stacked(mem')
  BY Zenon, <1>1, <1>2, <1>5, <1>8, <1>13, TreeSame
<1>15. Types'
  <2>1. tasks'[1].phy_dir = PG_DIR0 /\ \E i \in 1 .. Len(tasks') : tasks'[i].phy_dir = l'.phy_dir
    BY Zenon, <1>2, <1>10, <1>11, <1>12
  <2>2. Len(tasks') <= LOADS + 1
    BY <1>5, <1>10, <1>11, Constants
  <2> QED
    BY Zenon, <1>1, <1>2, <1>3, <1>8, <1>11, <2>1, <2>2 DEF Types
<1>16. Caller' /\ Loader' /\ Stack0' /\ Fresh'
  BY Zenon, <1>2, <1>3, <1>14 DEF Caller, Loader, Stack0, Fresh
<1>17. Locals' /\ InKstack' /\ InUstack' /\ InSection' /\ InText' /\ CountRegion'
  BY Zenon, <1>2 DEF Locals, InKstack, InUstack, InSection, InText, CountRegion
<1>18. Counts'
  <2>1. Count(mem') <= 2 * Len(tasks')
    BY <1>1, <1>2, <1>4, <1>9, <1>10, <1>11 DEF Counts
  <2> QED
    BY Zenon, <1>2, <2>1 DEF Counts
<1> QED
  BY Zenon, <1>14, <1>15, <1>16, <1>17, <1>18 DEF IInv

\* alloc_kstack_and_task's call of request_region_vmap.
LEMMA KstackCall ==
  ASSUME SetFacts, NEW m \in Mem, NEW d \in 1 .. NFRAMES, d # SYS0, NEW rev \in 0 .. NFRAMES,
         rev = Phy(At(m, d, REV)), Count(m) + 1 < W, CallKstack(m, d)
  PROVE  /\ r' \in Regions /\ r'.dir \in Slots \ Used(m) /\ r'.va = KSTACK_FRAME
         /\ r'.va_end = KSTACK_FRAME + 1 /\ r'.ret = "kstack"
         /\ r'.pt_now = NULL /\ r'.new_pt = NULL /\ pc' = "region"
         /\ mem' \in Mem /\ SameBut(m, mem') /\ Kept(m, mem', {})
         /\ Maps(mem', r'.dir, d) /\ Maps(mem', r'.rev_tb, rev)
         /\ Count(mem') = IF r'.new_rev THEN Count(m) + 2 ELSE Count(m) + 1
         /\ \A s : Maps(m, s, rev) => ~r'.new_rev
<1> DEFINE n == create_temp_va(m, d)
           s == FreeSlot(m)
<1>1. Count(m) \in Nat /\ Count(m) < W
  <2>1. Count(m) \in Nat
    BY Zenon, Slots0
  <2> QED
    BY <2>1, Constants
<1>2. /\ n \in Mem /\ SameBut(m, n) /\ Kept(m, n, {}) /\ s \in Slots \ Used(m) /\ Maps(n, s, d)
      /\ Count(n) = Count(m) + 1
  <2>1. d \in 0 .. NFRAMES
    OBVIOUS
  <2> QED
    BY Zenon, <1>1, <2>1, CreateTemp
<1>3. Region(n, s, KSTACK_FRAME, KSTACK_FRAME + 1, "krn", "kstack")
  BY Zenon DEF CallKstack
<1> HIDE DEF n, s
<1>4. rev = Phy(At(n, d, REV))
  BY Zenon, <1>2 DEF SameBut
<1>5. KSTACK_FRAME \in Nat /\ KSTACK_FRAME + 1 \in Nat
  BY Pages0
<1>6. /\ r' \in Regions /\ r'.dir = s /\ r'.va = KSTACK_FRAME /\ r'.va_end = KSTACK_FRAME + 1
      /\ r'.ret = "kstack" /\ r'.pt_now = NULL /\ r'.new_pt = NULL /\ pc' = "region"
      /\ mem' \in Mem /\ SameBut(n, mem') /\ Kept(n, mem', {})
      /\ Maps(mem', r'.rev_tb, rev) /\ r'.new_rev \in BOOLEAN
      /\ ~r'.new_rev => mem' = n
      /\ r'.new_rev => Mapping(n, rev) = {} /\ Count(mem') = Count(n) + 1
  <2>1. "kstack" \in {"kstack", "text", "data", "ustack"} /\ "krn" \in {"krn", "usr"}
    BY Zenon
  <2>2. Count(n) < W
    BY <1>1, <1>2, Constants
  <2>3. Called(n, s, rev, KSTACK_FRAME, KSTACK_FRAME + 1, "krn", "kstack")
    BY Zenon, <1>2, <1>3, <1>4, <1>5, <2>1, <2>2, RegionCall
  <2> QED
    BY Zenon, <2>3 DEF Called
<1>7. SameBut(m, mem') /\ Kept(m, mem', {})
  BY <1>2, <1>6 DEF SameBut, Kept, Used
<1>8. Maps(mem', s, d)
  BY Zenon, <1>2, <1>6, MapsKept
<1>9. Count(mem') = IF r'.new_rev THEN Count(m) + 2 ELSE Count(m) + 1
  <2>1. /\ Count(n) = Count(m) + 1 /\ (~r'.new_rev => Count(mem') = Count(n))
        /\ (r'.new_rev => Count(mem') = Count(n) + 1)
    BY Zenon, <1>2, <1>6
  <2> QED
    BY <1>1, <2>1
<1>10. ASSUME NEW x, Maps(m, x, rev)
       PROVE  ~r'.new_rev
  <2>1. Maps(n, x, rev)
    BY <1>2, <1>10, MapsKept
  <2> QED
    BY Zenon, <1>6, <2>1, Mapped
<1> QED
  BY Zenon, <1>2, <1>6, <1>7, <1>8, <1>9, <1>10

\* init_task0 up to its region.
LEMMA InitTask0IInv ==
  ASSUME SetFacts, IInv, init_task0
  PROVE  IInv'
<1>1. Types /\ Tree /\ Counts
  BY Zenon DEF IInv
<1>2. /\ pc = "boot" /\ busy' = busy /\ image' = image /\ l' = l /\ tasks' = tasks
      /\ CallKstack(mem, PG_DIR0)
  BY Zenon DEF init_task0
<1>3. tasks = <<>> /\ l.phy_dir = PG_DIR0 /\ Count(mem) <= 1
  BY Zenon, <1>1, <1>2 DEF Types, Counts
<1>4. /\ mem \in Mem /\ PG_DIR0 \in Dirs /\ busy \in SUBSET (USER_P_START .. NFRAMES)
      /\ TreeIs(mem, busy, Dirs) /\ Count(mem) \in Nat
  BY Zenon, <1>1, Here
<1> DEFINE rev == Phy(At(mem, PG_DIR0, REV))
<1>5. rev \in 1 .. NFRAMES /\ PG_DIR0 # SYS0 /\ PG_DIR0 \in 1 .. NFRAMES
  BY Zenon, <1>4, DirApart, Constants
<1>6. Count(mem) + 1 < W
  BY <1>3, <1>4, Constants
<1>7. /\ r' \in Regions /\ r'.va = KSTACK_FRAME
      /\ r'.va_end = KSTACK_FRAME + 1 /\ r'.ret = "kstack"
      /\ r'.pt_now = NULL /\ r'.new_pt = NULL /\ pc' = "region"
      /\ mem' \in Mem /\ SameBut(mem, mem')
      /\ Maps(mem', r'.dir, PG_DIR0) /\ Maps(mem', r'.rev_tb, rev)
      /\ Count(mem') = IF r'.new_rev THEN Count(mem) + 2 ELSE Count(mem) + 1
  <2>1. rev \in 0 .. NFRAMES
    BY <1>5
  <2> QED
    BY Zenon, <1>2, <1>4, <1>5, <1>6, <2>1, KstackCall
<1>8. Active' /\ Booting' /\ Section' = "kstack" /\ Dirs' = Dirs
  BY Zenon, <1>2, <1>3, <1>7 DEF Active, Booting, Section, Dirs
<1>9. Tree' /\ Same(mem, mem', PG_DIR0)
  BY Zenon, <1>1, <1>2, <1>4, <1>7, <1>8, TreeSame
<1>10. Types'
  BY Zenon, <1>1, <1>2, <1>3, <1>7, <1>8 DEF Types
<1>11. Caller' /\ Loader' /\ Fresh'
  BY Zenon, <1>2, <1>3, <1>7, <1>8 DEF Caller, Loader, Fresh
<1>12. Stack0' /\ Locals' /\ InSection' /\ InText' /\ InUstack'
  BY Zenon, <1>2, <1>3, <1>7, <1>8, <1>9 DEF Stack0, Locals, InSection, InText, InUstack
<1>13. InKstack'
  BY <1>7, Pages0 DEF InKstack
<1>14. CountRegion'
  <2>1. Base' = IF r'.new_rev THEN 3 ELSE 2
    BY Zenon, <1>8 DEF Base
  <2> QED
    BY <1>3, <1>4, <1>7, <2>1 DEF CountRegion
<1>15. Counts'
  BY Zenon, <1>7 DEF Counts
<1> QED
  BY Zenon, <1>9, <1>10, <1>11, <1>12, <1>13, <1>14, <1>15 DEF IInv

\* Three mappings more.
LEMMA ThreeTemps ==
  ASSUME SetFacts, NEW m \in Mem, NEW f \in 1 .. NFRAMES, NEW g \in 1 .. NFRAMES, NEW h \in 1 .. NFRAMES,
         Count(m) + 3 <= W, NEW m1, NEW m2, NEW m3,
         m1 = create_temp_va(m, f), m2 = create_temp_va(m1, g), m3 = create_temp_va(m2, h)
  PROVE  /\ m3 \in Mem /\ SameBut(m, m3) /\ Kept(m, m3, {}) /\ Count(m3) = Count(m) + 3
         /\ Maps(m3, FreeSlot(m), f) /\ Maps(m3, FreeSlot(m1), g) /\ Maps(m3, FreeSlot(m2), h)
<1>1. /\ Count(m) \in Nat /\ W \in Nat /\ Count(m) < W
      /\ f \in 0 .. NFRAMES /\ g \in 0 .. NFRAMES /\ h \in 0 .. NFRAMES
  <2>1. Count(m) \in Nat
    BY Zenon, Slots0
  <2> QED
    BY <2>1, Constants
<1>2. /\ m1 \in Mem /\ SameBut(m, m1) /\ Kept(m, m1, {}) /\ Maps(m1, FreeSlot(m), f)
      /\ Count(m1) = Count(m) + 1
  BY Zenon, <1>1, CreateTemp
<1>3. Count(m1) < W
  BY <1>1, <1>2
<1>4. /\ m2 \in Mem /\ SameBut(m1, m2) /\ Kept(m1, m2, {}) /\ Maps(m2, FreeSlot(m1), g)
      /\ Count(m2) = Count(m1) + 1
  BY Zenon, <1>1, <1>2, <1>3, CreateTemp
<1>5. Count(m2) < W
  BY <1>1, <1>2, <1>4
<1>6. /\ m3 \in Mem /\ SameBut(m2, m3) /\ Kept(m2, m3, {}) /\ Maps(m3, FreeSlot(m2), h)
      /\ Count(m3) = Count(m2) + 1
  BY Zenon, <1>1, <1>4, <1>5, CreateTemp
<1>7. SameBut(m, m3)
  BY <1>2, <1>4, <1>6 DEF SameBut
<1>8. Kept(m, m3, {})
  BY Zenon, <1>2, <1>4, <1>6 DEF Kept, Used
<1>9. Maps(m3, FreeSlot(m1), g) /\ Maps(m2, FreeSlot(m), f)
  BY <1>2, <1>4, <1>6, MapsKept
<1>10. Maps(m3, FreeSlot(m), f)
  BY <1>6, <1>9, MapsKept
<1> QED
  BY <1>1, <1>2, <1>4, <1>6, <1>7, <1>8, <1>9, <1>10

\* Three frames can be had.
LEMMA ThreeIdle ==
  ASSUME SetFacts, NEW b, Cardinality(Idle(b)) >= 3, NEW f, NEW g, NEW h,
         f = alloc_frame(b), g = alloc_frame(b \cup {f}), h = alloc_frame(b \cup {f, g})
  PROVE  /\ f \in (USER_P_START .. NFRAMES) \ b /\ g \in (USER_P_START .. NFRAMES) \ b
         /\ h \in (USER_P_START .. NFRAMES) \ b /\ f # g /\ f # h /\ g # h
<1> DEFINE c == b \cup {f}
           x == Cardinality(Idle(b))
           y == Cardinality(Idle(c))
           z == Cardinality(Idle(c \cup {g}))
<1>1. x \in Nat /\ Idle(b) # {} /\ y = x - 1
  BY IdleFrames
<1>2. y \in Nat /\ (y >= 1 => Idle(c) # {}) /\ (Idle(c) # {} => z = y - 1)
  BY Zenon, IdleFrames
<1>3. z \in Nat /\ (z >= 1 => Idle(c \cup {g}) # {}) /\ c \cup {g} = b \cup {f, g}
  BY Zenon, IdleFrames
<1>4. x >= 3
  BY Zenon
<1> HIDE DEF c, x, y, z
<1>5. y >= 1
  BY <1>1, <1>4
<1>6. z >= 1
  BY <1>1, <1>2, <1>4, <1>5
<1>7. Idle(b) # {} /\ Idle(b \cup {f}) # {} /\ Idle(b \cup {f, g}) # {}
  BY Zenon, <1>1, <1>2, <1>3, <1>5, <1>6 DEF c
<1> QED
  BY Zenon, <1>7, AllocFrame

\* Three frames are filled.
Filled(m, f, A, g, B, h, C) == [m EXCEPT ![f] = A, ![g] = B, ![h] = C]

LEMMA ThreeFrames ==
  ASSUME NEW m \in Mem, NEW f \in 1 .. NFRAMES, NEW g \in 1 .. NFRAMES, NEW h \in 1 .. NFRAMES,
         f # g, f # h, g # h, NEW A \in [Slots -> Entry], NEW B \in [Slots -> Entry],
         NEW C \in [Slots -> Entry], NEW n, n = Filled(m, f, A, g, B, h, C)
  PROVE  /\ n \in Mem /\ \A i : At(n, f, i) = A[i] /\ At(n, g, i) = B[i]
         /\ \A e \in 1 .. NFRAMES : e \notin {f, g, h} => Same(m, n, e)
BY Zenon DEF Mem, At, Filled

\* load_task up to its first region.
LEMMA LoadTaskIInv ==
  ASSUME SetFacts, IInv, NEW h \in Headers, load_task(h)
  PROVE  IInv'
<1> DEFINE dir == alloc_frame(busy)
           rev == alloc_frame(busy \cup {dir})
           sys == alloc_frame(busy \cup {dir, rev})
           m1 == create_temp_va(mem, dir)
           m2 == create_temp_va(m1, rev)
           m3 == create_temp_va(m2, sys)
           A == [Linked EXCEPT ![REV] = To(rev, "krn"), ![SYS] = To(sys, "krn")]
           B == [Zeroed EXCEPT ![REV] = To(rev, "krn"), ![SYS] = To(sys, "krn")]
           C == [Zeroed EXCEPT ![W - 1] = To(dir, "krn")]
           n == [m3 EXCEPT ![dir] = A, ![rev] = B, ![sys] = C]
<1>1. Types /\ Tree /\ Stack0 /\ Counts
  BY Zenon DEF IInv
<1>2. /\ pc = "idle" /\ Len(tasks) <= LOADS /\ Cardinality(Idle(busy)) >= 3
      /\ busy' = busy \cup {dir, rev, sys} /\ image' = image /\ tasks' = tasks
      /\ CallKstack(n, dir)
      /\ l' = [phy_dir |-> dir, hdr |-> h, new_pg_dir |-> FreeSlot(mem),
               rev_tb |-> FreeSlot(m1), sys_pg |-> FreeSlot(m2), kstack |-> NULL, k |-> 0]
  BY Zenon DEF load_task
<1>3. /\ mem \in Mem /\ PG_DIR0 \in Dirs /\ busy \in SUBSET (USER_P_START .. NFRAMES)
      /\ TreeIs(mem, busy, Dirs) /\ Count(mem) \in Nat /\ Len(tasks) \in Nat
      /\ Count(mem) + 6 <= W /\ Count(mem) + 3 <= W /\ Count(mem) <= 2 * Len(tasks)
  <2>1. /\ mem \in Mem /\ PG_DIR0 \in Dirs /\ busy \in SUBSET (USER_P_START .. NFRAMES)
        /\ TreeIs(mem, busy, Dirs) /\ Count(mem) \in Nat
    BY Zenon, <1>1, Here
  <2>2. Count(mem) + 6 <= W
    BY Zenon, <1>1, <1>2, Room
  <2>3. Len(tasks) \in Nat
    BY <1>1 DEF Types
  <2>4. Count(mem) <= 2 * Len(tasks)
    BY Zenon, <1>1, <1>2 DEF Counts
  <2>5. Count(mem) + 3 <= W
    BY <2>1, <2>2, Constants
  <2> QED
    BY Zenon, <2>1, <2>2, <2>3, <2>4, <2>5
<1>4. ~Booting /\ Stacked(mem)
  BY Zenon, <1>1, <1>2 DEF Types, Booting, Stack0
<1>5. /\ dir \in (USER_P_START .. NFRAMES) \ busy /\ rev \in (USER_P_START .. NFRAMES) \ busy
      /\ sys \in (USER_P_START .. NFRAMES) \ busy /\ dir # rev /\ dir # sys /\ rev # sys
  BY Zenon, <1>2, ThreeIdle
<1>6. /\ A \in [Slots -> Entry] /\ A[REV] = To(rev, "krn") /\ A[SYS] = To(sys, "krn")
      /\ \A k \in KDIR .. KST : A[k] = At(mem, PG_DIR0, k)
      /\ \A k \in 0 .. KDIR - 1 : A[k] = Unset
  <2>1. Linked \in [Slots -> Entry] /\ To(rev, "krn") \in Entry /\ To(sys, "krn") \in Entry
    <3>1. Unset \in Entry /\ To(rev, "krn") \in Entry /\ To(sys, "krn") \in Entry
      BY <1>5, Constants DEF Entry, Unset, To
    <3>2. mem[PG_DIR0] \in [Slots -> Entry]
      BY Zenon, <1>3, Constants DEF Mem
    <3> QED
      BY Zenon, <3>1, <3>2 DEF Linked
  <2>2. /\ \A k \in KDIR .. KST : k \in Slots /\ k # REV /\ k # SYS /\ Linked[k] = At(mem, PG_DIR0, k)
        /\ \A k \in 0 .. KDIR - 1 : k \in Slots /\ k # REV /\ k # SYS /\ Linked[k] = Unset
    BY Constants DEF Slots, Linked, At
  <2>3. REV \in Slots /\ SYS \in Slots /\ REV # SYS
    BY Constants
  <2> QED
    BY Zenon, <2>1, <2>2, <2>3
<1>7. /\ B \in [Slots -> Entry] /\ B[REV] = To(rev, "krn") /\ B[SYS] = To(sys, "krn")
      /\ \A k \in 0 .. KDIR - 1 : B[k] = Unset
  <2>1. Zeroed \in [Slots -> Entry] /\ To(rev, "krn") \in Entry /\ To(sys, "krn") \in Entry
    BY <1>5, Constants DEF Zeroed, Entry, Unset, To
  <2>2. \A k \in 0 .. KDIR - 1 : k \in Slots /\ k # REV /\ k # SYS /\ Zeroed[k] = Unset
    BY Constants DEF Slots, Zeroed
  <2>3. REV \in Slots /\ SYS \in Slots /\ REV # SYS
    BY Constants
  <2> QED
    BY Zenon, <2>1, <2>2, <2>3
<1>8. C \in [Slots -> Entry]
  BY <1>5, Constants DEF Zeroed, Entry, Unset, To
<1>9. /\ Phy(To(rev, "krn")) = rev /\ PAGE_ENTRY_SET(To(rev, "krn"))
      /\ Phy(To(sys, "krn")) = sys /\ PAGE_ENTRY_SET(To(sys, "krn"))
  BY Zenon DEF Phy, To, PAGE_ENTRY_SET
<1>10. /\ dir \in 1 .. NFRAMES /\ rev \in 1 .. NFRAMES /\ sys \in 1 .. NFRAMES
       /\ SYS0 \notin {dir, rev, sys} /\ PG_DIR0 \notin {dir, rev, sys}
       /\ {dir, rev, sys} \cap 1 .. 5 = {}
  BY <1>5, Constants
<1> HIDE DEF dir, rev, sys
<1>11. /\ m3 \in Mem /\ SameBut(mem, m3) /\ Kept(mem, m3, {}) /\ Count(m3) = Count(mem) + 3
       /\ Maps(m3, FreeSlot(mem), dir) /\ Maps(m3, FreeSlot(m1), rev) /\ Maps(m3, FreeSlot(m2), sys)
  BY Zenon, <1>3, <1>10, ThreeTemps
<1> HIDE DEF m1, m2, m3, A, B, C
<1>12. /\ n \in Mem /\ \A i : At(n, dir, i) = A[i] /\ At(n, rev, i) = B[i]
       /\ \A e \in 1 .. NFRAMES : e \notin {dir, rev, sys} => Same(m3, n, e)
  <2>1. n = Filled(m3, dir, A, rev, B, sys, C)
    BY Zenon DEF Filled
  <2>2. A \in [Slots -> Entry] /\ B \in [Slots -> Entry] /\ m3 \in Mem
    BY Zenon, <1>6, <1>7, <1>11
  <2> HIDE DEF n
  <2> QED
    BY SMTT(30), <1>5, <1>8, <1>10, <2>1, <2>2, ThreeFrames
<1> HIDE DEF n
<1>13. DirAdded(mem, n, dir, rev, sys)
  <2>1. \A g \in 1 .. NFRAMES : g \notin {SYS0, dir, rev, sys} => Same(mem, n, g)
    BY Zenon, <1>11, <1>12 DEF SameBut
  <2> QED
    BY Zenon, <1>6, <1>7, <1>9, <1>12, <2>1 DEF DirAdded
<1>14. TreeIs(n, busy', Dirs \cup {dir})
  BY Zenon, <1>2, <1>3, <1>5, <1>12, <1>13, NewDir
<1>15. Same(m3, n, SYS0)
  BY Zenon, <1>10, <1>12, Constants
<1>16. /\ Maps(n, FreeSlot(mem), dir) /\ Maps(n, FreeSlot(m1), rev) /\ Maps(n, FreeSlot(m2), sys)
       /\ Count(n) = Count(mem) + 3
  <2>1. Used(n) = Used(m3)
    BY <1>15 DEF Used
  <2> QED
    BY Zenon, <1>11, <1>15, <2>1 DEF Maps, Count
<1>17. Phy(At(n, dir, REV)) = rev /\ Phy(At(n, dir, SYS)) = sys
  BY Zenon, <1>13 DEF DirAdded
<1>18. /\ r' \in Regions /\ r'.dir \in Slots \ Used(n) /\ r'.va = KSTACK_FRAME
       /\ r'.va_end = KSTACK_FRAME + 1 /\ r'.ret = "kstack"
       /\ r'.pt_now = NULL /\ r'.new_pt = NULL /\ pc' = "region"
       /\ mem' \in Mem /\ SameBut(n, mem') /\ Kept(n, mem', {})
       /\ Maps(mem', r'.dir, dir) /\ Maps(mem', r'.rev_tb, rev)
       /\ Count(mem') = IF r'.new_rev THEN Count(n) + 2 ELSE Count(n) + 1
       /\ \A s : Maps(n, s, rev) => ~r'.new_rev
  <2>1. Count(n) + 1 < W /\ dir \in 1 .. NFRAMES /\ rev \in 0 .. NFRAMES /\ dir # SYS0
    <3>1. Count(n) = Count(mem) + 3 /\ Count(mem) \in Nat /\ Count(mem) + 6 <= W
      BY Zenon, <1>3, <1>16
    <3>2. Count(n) + 1 < W
      BY <3>1, Constants
    <3> QED
      BY <1>10, <3>2, Constants
  <2> QED
    BY Zenon, <1>2, <1>12, <1>17, <2>1, KstackCall
<1>19. ~r'.new_rev /\ Count(mem') = Count(mem) + 4
  <2>1. ~r'.new_rev
    BY Zenon, <1>16, <1>18
  <2>2. Count(mem') = Count(n) + 1 /\ Count(n) = Count(mem) + 3 /\ Count(mem) \in Nat
    BY Zenon, <1>3, <1>16, <1>18, <2>1
  <2> QED
    BY <2>1, <2>2
<1>20. /\ l'.phy_dir = dir /\ l'.hdr = h /\ l'.new_pg_dir = FreeSlot(mem) /\ l'.rev_tb = FreeSlot(m1)
       /\ l'.sys_pg = FreeSlot(m2) /\ l'.k = 0 /\ l' \in Loads
  BY Zenon, <1>2, <1>10, <1>16 DEF Loads, Maps
<1>21. Dirs' = Dirs \cup {dir}
  <2>1. \E i \in 1 .. Len(tasks) : tasks[i].phy_dir = l.phy_dir
    BY Zenon, <1>1, <1>2 DEF Types
  <2> QED
    BY Zenon, <1>2, <1>20, <2>1 DEF Dirs
<1>22. busy' \in SUBSET (USER_P_START .. NFRAMES)
  BY Zenon, <1>2, <1>3, <1>5
<1>23. Tree' /\ \A d \in Dirs \cup {dir} : Same(n, mem', d)
  <2> DEFINE E == Dirs \cup {dir}
  <2>1. TreeIs(n, busy', E) /\ Dirs' = E
    BY Zenon, <1>14, <1>21
  <2> HIDE DEF E
  <2>2. TreeIs(mem', busy', E) /\ \A d \in E : Same(n, mem', d)
    <3>1. n \in Mem /\ mem' \in Mem /\ SameBut(n, mem')
      BY Zenon, <1>12, <1>18
    <3> QED
      BY <1>22, <2>1, <3>1, SameTree
  <2> QED
    BY Zenon, <2>1, <2>2 DEF Tree, E
<1>24. Stacked(n)
  <2>1. Leads(mem, PG_DIR0, KST)
    BY Zenon, <1>4 DEF Leads, Stacked
  <2>2. Phy(At(mem, PG_DIR0, KST)) \in 1 .. NFRAMES /\ Phy(At(mem, PG_DIR0, KST)) # SYS0
    BY Zenon, <1>3, <2>1, TableApart
  <2>3. Phy(At(mem, PG_DIR0, KST)) \in busy \cup 1 .. 5
    <3>1. Own(mem, PG_DIR0, KST) /\ KST \in Slots /\ TablesUsed(mem, busy, Dirs)
      BY Zenon, <1>3, <1>4, Constants DEF Own, Stacked, TreeIs
    <3> QED
      BY Zenon, <1>3, <3>1 DEF TablesUsed
  <2>4. Phy(At(mem, PG_DIR0, KST)) \notin {dir, rev, sys}
    BY Zenon, <1>5, <1>10, <2>3
  <2>5. Same(mem, n, PG_DIR0) /\ Same(mem, n, Phy(At(mem, PG_DIR0, KST)))
    BY <1>10, <1>13, <2>2, <2>4, Constants DEF DirAdded
  <2> QED
    BY Zenon, <1>4, <2>5 DEF Stacked, KPage
<1>25. Stacked(mem')
  BY Zenon, <1>12, <1>14, <1>18, <1>22, <1>24, SameStack
<1>26. Active' /\ ~Booting' /\ Section' = "kstack"
  BY Zenon, <1>2, <1>4, <1>18 DEF Active, Booting, Section
<1>27. Types'
  BY Zenon, <1>1, <1>2, <1>4, <1>10, <1>18, <1>20, <1>22, <1>26 DEF Types, Booting
<1>28. Caller'
  BY Zenon, <1>18, <1>20, <1>26 DEF Caller
<1>29. /\ Maps(mem', FreeSlot(mem), dir) /\ Maps(mem', FreeSlot(m1), rev) /\ Maps(mem', FreeSlot(m2), sys)
       /\ Phy(At(mem', dir, REV)) = rev /\ Phy(At(mem', dir, SYS)) = sys
  <2>1. \A s, f : Maps(n, s, f) => Maps(mem', s, f)
    <3>1. Kept(n, mem', {})
      BY Zenon, <1>18
    <3> QED
      BY <3>1, MapsKept
  <2>2. Same(n, mem', dir)
    BY Zenon, <1>23
  <2> QED
    BY Zenon, <1>16, <1>17, <2>1, <2>2
<1>30. Loader'
  BY Zenon, <1>2, <1>10, <1>20, <1>29 DEF Loader
<1>31. Fresh'
  <2>1. r'.dir # FreeSlot(mem)
    BY Zenon, <1>16, <1>18, Mapped
  <2>2. \A i \in 0 .. KDIR - 1 : ~PAGE_ENTRY_SET(At(mem', dir, i))
    <3>1. ~PAGE_ENTRY_SET(Unset)
      BY Zenon DEF Unset, PAGE_ENTRY_SET
    <3> QED
      BY Zenon, <1>13, <1>23, <3>1 DEF DirAdded
  <2> QED
    BY Zenon, <1>20, <2>1, <2>2 DEF Fresh
<1>32. Stack0' /\ InSection' /\ InText' /\ InUstack'
  BY Zenon, <1>18, <1>25, <1>26 DEF Stack0, InSection, InText, InUstack
<1>33. Locals'
  BY Zenon, <1>18, <1>19, <1>20, <1>29 DEF Locals
<1>34. InKstack'
  <2>1. KSTACK_FRAME \in KSTACK_FRAME .. KSTACK_FRAME + 2 /\ KSTACK_FRAME # KSTACK_FRAME + 2
    BY Pages0
  <2>2. r'.va = KSTACK_FRAME /\ r'.va_end = KSTACK_FRAME + 1 /\ r'.pt_now = NULL
    BY Zenon, <1>18
  <2> QED
    BY SMTT(30), <2>1, <2>2 DEF InKstack
<1>35. CountRegion'
  <2>1. Base' = 2 * Len(tasks) + 4
    BY Zenon, <1>2, <1>18, <1>26 DEF Base
  <2> QED
    BY <1>3, <1>19, <2>1 DEF CountRegion
<1>36. Counts'
  BY Zenon, <1>18 DEF Counts
<1> QED
  BY Zenon, <1>23, <1>27, <1>28, <1>30, <1>31, <1>32, <1>33, <1>34, <1>35, <1>36 DEF IInv

\* What alloc_kstack_and_task does to the mappings: that of the page table and its own of
\* the directory are gone, and the stack has one.
LEMMA KstackTemps ==
  ASSUME SetFacts, IInv, pc = "kstack", NEW m1, NEW c, NEW n,
         m1 = After_get_phy(mem, l.phy_dir, KSTACK_FRAME),
         c = create_temp_va(m1, Phy(KPage(mem))), n = delete_temp_va(c, r.dir)
  PROVE  /\ n \in Mem /\ SameBut(mem, n) /\ Count(n) = Count(mem) - 1
         /\ Maps(n, FreeSlot(m1), Phy(KPage(mem)))
         /\ \A s, f : Maps(mem, s, f) /\ s # r.dir /\ f # Phy(At(mem, l.phy_dir, KST)) => Maps(n, s, f)
<1> DEFINE d == l.phy_dir
           t == Phy(At(mem, d, KST))
           k == Phy(KPage(mem))
<1>1. Types /\ Tree /\ Caller /\ Stack0
  BY Zenon DEF IInv
<1>2. /\ mem \in Mem /\ d \in Dirs /\ busy \in SUBSET (USER_P_START .. NFRAMES)
      /\ TreeIs(mem, busy, Dirs) /\ Count(mem) \in Nat /\ Count(mem) < W
  BY Zenon, <1>1, Here, Room
<1>3. Maps(mem, r.dir, d) /\ Stacked(mem) /\ Maps(mem, r.pt_now, Phy(At(mem, PG_DIR0, KST)))
  BY Zenon, <1>1 DEF Caller, Active, Stack0
<1>4. Leads(mem, d, KST) /\ At(mem, d, KST) = At(mem, PG_DIR0, KST) /\ k \in 1 .. NFRAMES
  BY Zenon, <1>2, <1>3, StackApart
<1>5. t \in 1 .. NFRAMES /\ t \notin Dirs
  BY Zenon, <1>2, <1>4, TableApart
<1>6. TableOf(mem, d, KSTACK_FRAME) = t
  BY Zenon, Pages0 DEF TableOf, At, Phy
<1>7. Mapping(mem, t) # {}
  BY Zenon, <1>3, <1>4, Mapped
<1> HIDE DEF d, t, k
<1>8. /\ m1 \in Mem /\ SameBut(mem, m1) /\ Count(m1) = Count(mem) - 1
      /\ \A s, f : Maps(mem, s, f) /\ f # t => Maps(m1, s, f)
  <2>1. t \in 0 .. NFRAMES
    BY <1>5
  <2> QED
    BY Zenon, <1>2, <1>6, <1>7, <2>1, GetPhy DEF d
<1>9. Maps(m1, r.dir, d) /\ r.dir \in Used(m1)
  BY Zenon, <1>2, <1>3, <1>5, <1>8, Mapped
<1>10. /\ c \in Mem /\ SameBut(m1, c) /\ Kept(m1, c, {}) /\ FreeSlot(m1) \in Slots \ Used(m1)
       /\ Maps(c, FreeSlot(m1), k) /\ Count(c) = Count(m1) + 1
  <2>1. Count(m1) < W /\ k \in 0 .. NFRAMES
    BY <1>2, <1>4, <1>8, Constants
  <2> QED
    BY Zenon, <1>8, <2>1, CreateTemp DEF k
<1>11. r.dir \in Slots /\ r.dir \in Used(c) /\ FreeSlot(m1) # r.dir
  <2>1. Maps(c, r.dir, d)
    BY <1>9, <1>10, MapsKept
  <2> QED
    BY Zenon, <1>9, <1>10, <2>1, Mapped DEF Maps
<1>12. n \in Mem /\ SameBut(c, n) /\ Kept(c, n, {r.dir}) /\ Count(n) = Count(c) - 1
  BY Zenon, <1>10, <1>11, DeleteTemp
<1>13. SameBut(mem, n)
  BY <1>8, <1>10, <1>12 DEF SameBut
<1>14. Maps(n, FreeSlot(m1), k)
  <2>1. Maps(c, FreeSlot(m1), k) /\ Kept(c, n, {r.dir}) /\ FreeSlot(m1) \notin {r.dir}
    BY Zenon, <1>10, <1>11, <1>12
  <2> QED
    BY Zenon, <2>1, MapsKept
<1>15. ASSUME NEW s, NEW f, Maps(mem, s, f), s # r.dir, f # t
       PROVE  Maps(n, s, f)
  <2>1. Maps(c, s, f)
    BY <1>8, <1>10, <1>15, MapsKept
  <2> QED
    BY <1>12, <1>15, <2>1, MapsKept
<1>16. Count(n) = Count(mem) - 1
  BY <1>2, <1>8, <1>10, <1>12
<1> QED
  BY Zenon, <1>12, <1>13, <1>14, <1>15, <1>16 DEF d, t, k

LEMMA KstackIInv ==
  ASSUME SetFacts, IInv, alloc_kstack_and_task
  PROVE  IInv'
<1> DEFINE d == l.phy_dir
           k == Phy(KPage(mem))
           m1 == After_get_phy(mem, d, KSTACK_FRAME)
           n == delete_temp_va(create_temp_va(m1, k), r.dir)
           h == l.hdr
<1>1. Types /\ Tree /\ Caller /\ Loader /\ Stack0 /\ Fresh /\ Counts
  BY Zenon DEF IInv
<1>2. pc = "kstack" /\ busy' = busy /\ image' = image
  BY Zenon DEF alloc_kstack_and_task
<1>3. Active /\ Section = "kstack" /\ Maps(mem, r.dir, d) /\ Stacked(mem)
  BY Zenon, <1>1, <1>2 DEF Active, Section, Caller, Stack0
<1>4. /\ mem \in Mem /\ d \in Dirs /\ busy \in SUBSET (USER_P_START .. NFRAMES)
      /\ TreeIs(mem, busy, Dirs) /\ Count(mem) \in Nat /\ Count(mem) < W
  BY Zenon, <1>1, <1>2, Here, Room
<1>5. Deref(mem, r.dir) = d /\ get_phy_from_dir(mem, d, KSTACK_FRAME) = k
  <2>1. Deref(mem, r.dir) = d
    BY Zenon, <1>3 DEF Maps, Deref, At, Phy
  <2>2. At(mem, d, KST) = At(mem, PG_DIR0, KST)
    BY Zenon, <1>3, <1>4, StackApart
  <2> QED
    BY Zenon, <2>1, <2>2, Pages0 DEF get_phy_from_dir, TableOf, KPage, At, Phy
<1>6. /\ n \in Mem /\ SameBut(mem, n) /\ Count(n) = Count(mem) - 1 /\ Maps(n, FreeSlot(m1), k)
      /\ \A s, f : Maps(mem, s, f) /\ s # r.dir /\ f # Phy(At(mem, d, KST)) => Maps(n, s, f)
  BY Zenon, <1>2, KstackTemps
<1>7. \/ /\ Booting /\ mem' = n /\ r' = r /\ l' = l /\ pc' = "idle"
         /\ tasks' = <<[phy_dir |-> d, hdr |-> NoProgram, present |-> TRUE]>>
      \/ /\ ~Booting /\ l' = [l EXCEPT !.kstack = FreeSlot(m1)] /\ tasks' = tasks
         /\ Region(get_temp_va(n, d), TempSlot(n, d), h.vma_text,
                   LastPage(h.vma_text, h.text_size), "usr", "text")
  BY Zenon, <1>5 DEF alloc_kstack_and_task
<1> HIDE DEF m1, n
<1>8. CASE Booting
  <2>1. /\ mem' = n /\ r' = r /\ l' = l /\ pc' = "idle"
        /\ tasks' = <<[phy_dir |-> d, hdr |-> NoProgram, present |-> TRUE]>>
    BY Zenon, <1>7, <1>8
  <2>2. tasks = <<>> /\ d = PG_DIR0 /\ Count(mem) <= 3
    BY Zenon, <1>1, <1>2, <1>3, <1>8 DEF Caller, Counts, Booting
  <2>3. /\ tasks' \in Seq(Tasks) /\ Len(tasks') = 1 /\ tasks' # <<>> /\ tasks'[1].phy_dir = PG_DIR0
    <3> DEFINE x == [phy_dir |-> d, hdr |-> NoProgram, present |-> TRUE]
    <3>1. x \in Tasks /\ x.phy_dir = PG_DIR0
      BY Zenon, <1>1, <2>2 DEF Tasks, Types
    <3>2. tasks' = <<x>>
      BY Zenon, <2>1
    <3> HIDE DEF x
    <3> QED
      BY <3>1, <3>2
  <2>4. ~Active' /\ Dirs' = Dirs
    BY <2>1, <2>2, <2>3 DEF Active, Dirs
  <2>5. Tree' /\ Stacked(mem')
    BY Zenon, <1>1, <1>2, <1>3, <1>6, <2>1, <2>4, TreeSame
  <2>6. Types'
    BY <1>1, <1>2, <1>6, <2>1, <2>2, <2>3, <2>4, Constants DEF Types
  <2>7. Caller' /\ Loader' /\ Stack0' /\ Fresh'
    BY Zenon, <2>1, <2>4, <2>5 DEF Caller, Loader, Stack0, Fresh
  <2>8. Locals' /\ InKstack' /\ InUstack' /\ InSection' /\ InText' /\ CountRegion'
    BY Zenon, <2>1 DEF Locals, InKstack, InUstack, InSection, InText, CountRegion
  <2>9. Counts'
    BY <1>4, <1>6, <2>1, <2>2, <2>3 DEF Counts
  <2> QED
    BY Zenon, <2>5, <2>6, <2>7, <2>8, <2>9 DEF IInv
<1>9. CASE ~Booting
  <2> DEFINE rev == Phy(At(mem, d, REV))
             sys == Phy(At(mem, d, SYS))
  <2>1. /\ l' = [l EXCEPT !.kstack = FreeSlot(m1)] /\ tasks' = tasks
        /\ Region(get_temp_va(n, d), TempSlot(n, d), h.vma_text,
                  LastPage(h.vma_text, h.text_size), "usr", "text")
    BY Zenon, <1>7, <1>9
  <2>2. /\ d # PG_DIR0 /\ Len(tasks) <= LOADS /\ Len(tasks) \in Nat /\ Maps(mem, l.new_pg_dir, d)
        /\ Maps(mem, l.rev_tb, rev) /\ Maps(mem, l.sys_pg, sys) /\ l \in Loads /\ r.dir # l.new_pg_dir
        /\ l.k = 0 /\ (\A i \in 0 .. KDIR - 1 : ~PAGE_ENTRY_SET(At(mem, d, i)))
        /\ Count(mem) <= 2 * Len(tasks) + 5
    <3>1. /\ d # PG_DIR0 /\ Len(tasks) <= LOADS /\ Maps(mem, l.new_pg_dir, d)
          /\ Maps(mem, l.rev_tb, rev) /\ Maps(mem, l.sys_pg, sys) /\ l \in Loads
      BY Zenon, <1>1, <1>3, <1>9 DEF Types, Loader
    <3>2. /\ r.dir # l.new_pg_dir /\ l.k = 0
          /\ \A i \in 0 .. KDIR - 1 : ~PAGE_ENTRY_SET(At(mem, d, i))
      BY Zenon, <1>1, <1>3, <1>9 DEF Fresh
    <3>3. Len(tasks) \in Nat
      BY <1>1 DEF Types
    <3>4. Count(mem) <= 2 * Len(tasks) + 5
      BY Zenon, <1>1, <1>2, <1>9 DEF Counts
    <3> QED
      BY Zenon, <3>1, <3>2, <3>3, <3>4
  <2>3. /\ d # rev /\ d # sys /\ rev \in 0 .. NFRAMES /\ d \in 0 .. NFRAMES
        /\ d # Phy(At(mem, d, KST)) /\ rev # Phy(At(mem, d, KST)) /\ sys # Phy(At(mem, d, KST))
    <3>1. d # rev /\ d # sys /\ rev \in 1 .. NFRAMES
      BY Zenon, <1>4, DirApart
    <3>2. Leads(mem, d, KST)
      BY Zenon, <1>3, <1>4, StackApart
    <3>3. Phy(At(mem, d, KST)) \notin Dirs /\ Phy(At(mem, d, KST)) # rev /\ Phy(At(mem, d, KST)) # sys
      BY Zenon, <1>4, <3>2, TableApart
    <3> QED
      BY <1>1, <1>4, <3>1, <3>3 DEF Types
  <2>4. Maps(n, l.new_pg_dir, d) /\ Maps(n, l.rev_tb, rev) /\ Maps(n, l.sys_pg, sys)
    <3>1. l.rev_tb # r.dir /\ l.sys_pg # r.dir
      BY Zenon, <1>3, <2>2, <2>3 DEF Maps
    <3> QED
      BY Zenon, <1>6, <2>2, <2>3, <3>1
  <2>5. Count(n) < W /\ Same(mem, n, d)
    <3>1. TreeIs(n, busy, Dirs) /\ \A e \in Dirs : Same(mem, n, e)
      BY <1>4, <1>6, SameTree
    <3> QED
      BY <1>4, <1>6, <3>1, Constants
  <2>6. Maps(n, TempSlot(n, d), d) /\ get_temp_va(n, d) = n
    <3>1. Mapping(n, d) # {}
      BY Zenon, <2>4, Mapped
    <3> QED
      BY Zenon, <1>6, <2>3, <2>5, <3>1, GetTemp
  <2>7. h \in Headers /\ h.vma_text \in Nat /\ LastPage(h.vma_text, h.text_size) \in Nat
        /\ LastPage(h.vma_text, h.text_size) >= h.vma_text
    <3>1. h \in Headers
      BY Zenon, <2>2 DEF Loads
    <3>2. h.vma_text \in Nat /\ h.text_size \in Nat
      BY Zenon, <3>1, HeaderFacts
    <3> QED
      BY Zenon, <3>1, <3>2, LastPages
  <2>8. /\ r' \in Regions /\ r'.dir = TempSlot(n, d) /\ r'.va = h.vma_text
        /\ r'.va_end = LastPage(h.vma_text, h.text_size) /\ r'.ret = "text"
        /\ r'.pt_now = NULL /\ r'.new_pt = NULL /\ pc' = "region"
        /\ Maps(mem', r'.rev_tb, rev) /\ r'.new_rev \in BOOLEAN
        /\ ~r'.new_rev => mem' = n
        /\ r'.new_rev => Mapping(n, rev) = {}
    <3>1. rev = Phy(At(n, d, REV))
      BY Zenon, <2>5
    <3>2. Region(n, TempSlot(n, d), h.vma_text, LastPage(h.vma_text, h.text_size), "usr", "text")
      BY Zenon, <2>1, <2>6
    <3>3. "text" \in {"kstack", "text", "data", "ustack"} /\ "usr" \in {"krn", "usr"}
      BY Zenon
    <3>4. Called(n, TempSlot(n, d), rev, h.vma_text, LastPage(h.vma_text, h.text_size), "usr", "text")
      BY Zenon, <1>6, <2>3, <2>5, <2>6, <2>7, <3>1, <3>2, <3>3, RegionCall
    <3> QED
      BY Zenon, <3>4 DEF Called
  <2>9. mem' = n /\ ~r'.new_rev
    BY Zenon, <2>4, <2>8, Mapped
  <2>10. /\ l' \in Loads /\ l'.phy_dir = d /\ l'.hdr = l.hdr /\ l'.new_pg_dir = l.new_pg_dir
         /\ l'.rev_tb = l.rev_tb /\ l'.sys_pg = l.sys_pg /\ l'.kstack = FreeSlot(m1) /\ l'.k = 0
    <3>1. FreeSlot(m1) \in Slots
      BY Zenon, <1>6 DEF Maps
    <3> QED
      BY Zenon, <2>1, <2>2, <3>1 DEF Loads
  <2>11. Active' /\ ~Booting' /\ Section' = "text" /\ Dirs' = Dirs
    BY Zenon, <1>9, <2>1, <2>8, <2>10 DEF Active, Booting, Section, Dirs
  <2>12. Tree' /\ Stacked(mem') /\ KPage(mem') = KPage(mem)
    BY Zenon, <1>1, <1>2, <1>3, <1>6, <2>9, <2>11, TreeSame
  <2>13. Types'
    BY Zenon, <1>1, <1>2, <1>6, <2>1, <2>8, <2>9, <2>10, <2>11 DEF Types
  <2>14. Caller' /\ Loader' /\ Fresh'
    BY Zenon, <2>1, <2>2, <2>4, <2>5, <2>6, <2>8, <2>9, <2>10, <2>11 DEF Caller, Loader, Fresh
  <2>15. Stack0'
    BY Zenon, <1>6, <2>8, <2>9, <2>10, <2>12 DEF Stack0
  <2>16. Locals' /\ InKstack' /\ InUstack'
    BY Zenon, <2>5, <2>8, <2>9, <2>10 DEF Locals, InKstack, InUstack
  <2>17. First' = h.vma_text /\ Last' = LastPage(h.vma_text, h.text_size)
    BY Zenon, <2>10, <2>11 DEF First, Last
  <2>18. InSection'
    <3>1. /\ r'.va = First' /\ r'.va_end = Last' /\ pc' = "region"
          /\ First' \in Nat /\ Last' \in Nat /\ Last' >= First'
      BY Zenon, <2>7, <2>8, <2>17
    <3>2. \A x, y \in Nat : y >= x => x \in x .. y + 1 /\ x .. x - 1 = {}
      OBVIOUS
    <3> QED
      BY Zenon, <3>1, <3>2 DEF InSection
  <2>19. InText'
    BY Zenon, <2>2, <2>5, <2>8, <2>9, <2>10, <2>17 DEF InText
  <2>20. CountRegion'
    <3>1. Base' = 2 * Len(tasks) + 4
      BY Zenon, <2>1, <2>8, <2>11 DEF Base
    <3>2. Count(mem') <= Base' /\ Count(mem') <= Base' + 1
      <4>1. /\ Count(mem') = Count(mem) - 1 /\ Count(mem) \in Nat /\ Len(tasks) \in Nat
            /\ Count(mem) <= 2 * Len(tasks) + 5
        BY Zenon, <1>4, <1>6, <2>2, <2>9
      <4> QED
        BY <3>1, <4>1
    <3> QED
      BY Zenon, <3>2 DEF CountRegion
  <2>21. Counts'
    BY Zenon, <2>8 DEF Counts
  <2> QED
    BY Zenon, <2>12, <2>13, <2>14, <2>15, <2>16, <2>18, <2>19, <2>20, <2>21 DEF IInv
<1> QED
  BY Zenon, <1>8, <1>9

=============================================================================
