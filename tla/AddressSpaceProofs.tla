-------------------------- MODULE AddressSpaceProofs --------------------------
(***************************************************************************)
(* request_region_vmap's loop keeps the invariant of AddressSpaceInvariant,*)
(* the boot state satisfies it, and the properties that follow from it:    *)
(* theorems about AddressSpace for every value of its constants.           *)
(***************************************************************************)
EXTENDS AddressSpaceInvariant

USE DEF Same

-----------------------------------------------------------------------------
(* A page of a region. *)

di == PAGE_DIR_INDEX(r.va)
ti == PAGE_TABLE_INDEX(r.va)

\* The page is one of those the regions are made of.
AtPage ==
  /\ mem \in Mem /\ busy \in SUBSET (USER_P_START .. NFRAMES) /\ TreeIs(mem, busy, Dirs)
  /\ l.phy_dir \in Dirs /\ r \in Regions /\ r.va \in Nat /\ di \in Slots /\ ti \in Slots
  /\ Maps(mem, r.dir, l.phy_dir) /\ Maps(mem, r.rev_tb, Phy(At(mem, l.phy_dir, REV)))
  /\ NoTable <=> ~PAGE_ENTRY_SET(At(mem, l.phy_dir, di))
  /\ NoTable => /\ di < KDIR \/ (di = KST /\ Dirs = {PG_DIR0})
                /\ di \in (0 .. KDIR - 1) \cup {KST}
                /\ Count(mem) < W
  /\ r.pt_now = NULL => di \in (0 .. KDIR - 1) \cup {KST} /\ Count(mem) < W
  /\ r.pt_now # NULL => \E i : Leads(mem, l.phy_dir, i) /\ Maps(mem, r.pt_now, Phy(At(mem, l.phy_dir, i)))

LEMMA AtPageHolds ==
  ASSUME SetFacts, IInv, pc = "region", r.va <= r.va_end
  PROVE  AtPage
<1> DEFINE d == l.phy_dir
<1>1. Types /\ Tree /\ Caller /\ Loader /\ Stack0 /\ Locals /\ InKstack /\ InUstack /\ InSection
  BY Zenon DEF IInv
<1>2. /\ mem \in Mem /\ d \in Dirs /\ busy \in SUBSET (USER_P_START .. NFRAMES)
      /\ TreeIs(mem, busy, Dirs) /\ Count(mem) \in Nat /\ PG_DIR0 \in Dirs
  BY Zenon, <1>1, Here
<1>3. Active /\ Section = r.ret /\ r \in Regions /\ (~Booting => l \in Loads)
  BY Zenon, <1>1 DEF Active, Section, Types
<1>4. r.va \in Nat /\ r.va_end \in Nat /\ r.ret \in {"kstack", "text", "data", "ustack"}
  BY Zenon, <1>3 DEF Regions
<1>5. di \in Nat /\ ti \in Slots
  BY Zenon, <1>4, Indexes DEF di, ti
<1>6. Maps(mem, r.dir, d) /\ Maps(mem, r.rev_tb, Phy(At(mem, d, REV)))
  BY Zenon, <1>1, <1>3 DEF Caller, Locals
<1>7. NoTable <=> ~PAGE_ENTRY_SET(At(mem, d, di))
  BY Zenon, <1>6 DEF NoTable, Deref, Maps, At, Phy, di
<1>8. r.pt_now # NULL => \E i : Leads(mem, d, i) /\ Maps(mem, r.pt_now, Phy(At(mem, d, i)))
  BY Zenon, <1>1 DEF Locals, Leads
<1>9. PAGE_ENTRY_SET(At(mem, d, KDIR)) /\ PAGE_ENTRY_SET(At(mem, d, SYS))
  BY Zenon, <1>2 DEF TreeIs, Linked0
<1>10. 0 .. KDIR - 1 \subseteq Slots /\ {KDIR, KST, SYS} \subseteq Slots /\ \A i \in 0 .. KDIR - 1 : i < KDIR
  BY Constants
<1>11. r.ret # "ustack" \/ r.pt_now = NULL => Count(mem) < W
  BY Zenon, Room
<1>12. CASE r.ret \in {"text", "data"}
  <2>1. ~Booting
    BY Zenon, <1>1, <1>3, <1>12 DEF Caller
  <2>2. l.hdr \in Headers /\ r.va <= Last
    BY Zenon, <1>1, <1>3, <1>12, <2>1 DEF InSection, Loads
  <2>3. di \in 0 .. KDIR - 1
    BY Zenon, <1>3, <1>4, <1>12, <2>2, HeaderFacts DEF Last, di
  <2> QED
    BY Zenon, <1>2, <1>3, <1>4, <1>5, <1>6, <1>7, <1>8, <1>10, <1>11, <1>12, <2>3 DEF AtPage
<1>13. CASE r.ret = "kstack"
  <2>1. KSTACK_FRAME \in Nat
    BY Zenon, Pages0
  <2>2. /\ r.va = KSTACK_FRAME \/ r.va = KSTACK_FRAME + 1
        /\ r.pt_now = NULL <=> r.va = KSTACK_FRAME
    BY <1>1, <1>4, <1>13, <2>1 DEF InKstack
  <2>3. (r.va = KSTACK_FRAME => di = KST) /\ (r.va = KSTACK_FRAME + 1 => di = SYS)
    BY Zenon, Pages0 DEF di
  <2>4. NoTable => di = KST /\ Dirs = {PG_DIR0}
    <3>1. ~Booting => ~NoTable
      <4> SUFFICES ASSUME ~Booting
                   PROVE  ~NoTable
        BY Zenon
      <4>1. Stacked(mem)
        BY Zenon, <1>1 DEF Stack0
      <4>2. Leads(mem, d, KST)
        BY Zenon, <1>2, <4>1, StackApart
      <4> QED
        BY Zenon, <1>7, <1>9, <2>2, <2>3, <4>2 DEF Leads
    <3>2. Booting => Dirs = {PG_DIR0}
      BY <1>1, <1>3 DEF Caller, Dirs, Booting
    <3> QED
      BY Zenon, <1>7, <1>9, <2>2, <2>3, <3>1, <3>2
  <2> QED
    BY Zenon, <1>2, <1>3, <1>4, <1>5, <1>6, <1>7, <1>8, <1>10, <1>11, <1>13, <2>2, <2>3, <2>4 DEF AtPage
<1>14. CASE r.ret = "ustack"
  <2>1. USTACK_FRAME \in Nat
    BY Zenon, Pages0
  <2>2. /\ r.va = USTACK_FRAME \/ r.va = USTACK_FRAME + 1
        /\ r.pt_now = NULL <=> r.va = USTACK_FRAME
    BY <1>1, <1>4, <1>14, <2>1 DEF InUstack
  <2>3. (r.va = USTACK_FRAME => di = KDIR - 1) /\ (r.va = USTACK_FRAME + 1 => di = KDIR)
    BY Zenon, Pages0 DEF di
  <2>4. KDIR - 1 \in 0 .. KDIR - 1 /\ (NoTable => r.va = USTACK_FRAME)
    BY <1>7, <1>9, <2>2, <2>3, Constants
  <2> QED
    BY Zenon, <1>2, <1>3, <1>4, <1>5, <1>6, <1>7, <1>8, <1>10, <1>11, <2>2, <2>3, <2>4 DEF AtPage
<1> QED
  BY Zenon, <1>4, <1>12, <1>13, <1>14

\* What the table for the page is: n and b are the memory and the frames in use then,
\* p and q the new pt_now and new_pt.
TableGiven(n, b, p, q) ==
  /\ n \in Mem /\ b \in SUBSET (USER_P_START .. NFRAMES) /\ TreeIs(n, b, Dirs)
  /\ p \in Slots /\ q \in {NULL, p}
  /\ \E i : Leads(n, l.phy_dir, i) /\ Maps(n, p, Phy(At(n, l.phy_dir, i)))
  /\ PAGE_ENTRY_SET(At(n, l.phy_dir, di))
  /\ \A i \in Slots : At(n, l.phy_dir, i) = At(mem, l.phy_dir, i) \/ (NoTable /\ i = di)
  /\ \A s, f : Maps(mem, s, f) /\ s # r.pt_now => Maps(n, s, f)
  /\ Count(n) \in Nat /\ Count(n) <= Count(mem) + 1
  /\ r.pt_now # NULL => Count(n) <= Count(mem)
  /\ Stacked(mem) => Stacked(n) /\ KPage(n) = KPage(mem)
  /\ \/ q = p /\ NoTable /\ Maps(n, p, Phy(At(n, l.phy_dir, di)))
     \/ q = NULL /\ ~NoTable /\ r.pt_now = NULL /\ Maps(n, p, Phy(At(n, l.phy_dir, di)))
     \/ q = NULL /\ ~NoTable /\ r.pt_now # NULL /\ p = r.pt_now /\ n = mem

\* The table is there, mapped or not.
LEMMA OldTable ==
  ASSUME SetFacts, AtPage, ~NoTable, r.pt_now # NULL
  PROVE  TableGiven(mem, busy, r.pt_now, NULL)
<1>1. r.pt_now \in Slots
  BY Zenon DEF AtPage, Regions
<1>2. Count(mem) \in Nat
  BY Zenon, Slots0 DEF AtPage
<1> QED
  BY <1>1, <1>2 DEF AtPage, TableGiven

LEMMA MappedTable ==
  ASSUME SetFacts, AtPage, ~NoTable, r.pt_now = NULL, NEW f, f = Phy(At(mem, l.phy_dir, di))
  PROVE  TableGiven(get_temp_va(mem, f), busy, TempSlot(mem, f), NULL)
<1> DEFINE d == l.phy_dir
           n == get_temp_va(mem, f)
           s == TempSlot(mem, f)
<1>1. /\ mem \in Mem /\ busy \in SUBSET (USER_P_START .. NFRAMES) /\ TreeIs(mem, busy, Dirs)
      /\ d \in Dirs /\ Leads(mem, d, di) /\ Count(mem) < W /\ di \in Slots
  BY Zenon DEF AtPage, Leads
<1>2. f \in 0 .. NFRAMES
  <2>1. Phy(At(mem, d, di)) \in 1 .. NFRAMES
    BY Zenon, <1>1, TableApart
  <2> QED
    BY <2>1
<1>3. /\ n \in Mem /\ SameBut(mem, n) /\ Kept(mem, n, {}) /\ Maps(n, s, f)
      /\ Mapping(mem, f) = {} => Count(n) = Count(mem) + 1
      /\ Mapping(mem, f) # {} => n = mem
  BY Zenon, <1>1, <1>2, GetTemp
<1> HIDE DEF n, s
<1>4. TreeIs(n, busy, Dirs) /\ Same(mem, n, d)
  BY <1>1, <1>3, SameTree
<1>5. Stacked(mem) => Stacked(n) /\ KPage(n) = KPage(mem)
  BY Zenon, <1>1, <1>3, SameStack
<1>6. Count(mem) \in Nat /\ Count(n) \in Nat
  BY Zenon, <1>1, <1>3, Slots0
<1>7. Count(n) <= Count(mem) + 1
  BY <1>3, <1>6
<1>8. \A x, g : Maps(mem, x, g) => Maps(n, x, g)
  BY Zenon, <1>3, MapsKept
<1>9. Leads(n, d, di) /\ f = Phy(At(n, d, di)) /\ PAGE_ENTRY_SET(At(n, d, di))
  BY Zenon, <1>1, <1>4 DEF Leads
<1>10. s \in Slots /\ \A i \in Slots : At(n, d, i) = At(mem, d, i)
  BY Zenon, <1>3, <1>4 DEF Maps
<1> QED
  BY Zenon, <1>1, <1>3, <1>4, <1>5, <1>6, <1>7, <1>8, <1>9, <1>10 DEF TableGiven, n, s

\* What create_page_table writes, the mapping aside.
Tabled(c, pt, d, rv, i, flg) ==
  [c EXCEPT ![pt] = Zeroed, ![d][i] = To(pt, flg), ![rv][i] = To(pt, "krn")]

LEMMA TabledIs ==
  ASSUME NEW c \in Mem, NEW pt \in 1 .. NFRAMES, NEW d \in 1 .. NFRAMES, NEW rv \in 1 .. NFRAMES,
         pt # d, pt # rv, d # rv, NEW i \in Slots, NEW flg \in {"krn", "usr"}, NEW n,
         n = Tabled(c, pt, d, rv, i, flg)
  PROVE  /\ n \in Mem /\ \A j \in Slots : ~PAGE_ENTRY_SET(At(n, pt, j))
         /\ PAGE_ENTRY_SET(At(n, d, i)) /\ Phy(At(n, d, i)) = pt /\ Phy(At(n, rv, i)) = pt
         /\ \A k \in Slots \ {i} : At(n, d, k) = At(c, d, k) /\ At(n, rv, k) = At(c, rv, k)
         /\ \A g \in 1 .. NFRAMES : g \notin {pt, d, rv} => Same(c, n, g)
<1> DEFINE x == To(pt, flg)
           y == To(pt, "krn")
<1>1. x \in Entry /\ y \in Entry /\ Unset \in Entry
  BY Constants DEF To, Entry, Unset
<1>2. /\ PAGE_ENTRY_SET(x) /\ Phy(x) = pt /\ Phy(y) = pt /\ ~PAGE_ENTRY_SET(Unset)
  BY Zenon DEF To, Phy, PAGE_ENTRY_SET, Unset
<1>3. n = [c EXCEPT ![pt] = Zeroed, ![d] = [c[d] EXCEPT ![i] = x], ![rv] = [c[rv] EXCEPT ![i] = y]]
  BY Zenon DEF Tabled, Mem
<1>4. Zeroed \in [Slots -> Entry] /\ \A j \in Slots : Zeroed[j] = Unset
  BY Zenon, <1>1 DEF Zeroed
<1> DEFINE A == [c[d] EXCEPT ![i] = x]
           B == [c[rv] EXCEPT ![i] = y]
<1> HIDE DEF x, y
<1>5. /\ A \in [Slots -> Entry] /\ B \in [Slots -> Entry] /\ A[i] = x /\ B[i] = y
      /\ \A k \in Slots \ {i} : A[k] = c[d][k] /\ B[k] = c[rv][k]
  BY Zenon, <1>1 DEF Mem
<1>6. n = [c EXCEPT ![pt] = Zeroed, ![d] = A, ![rv] = B]
  BY Zenon, <1>3
<1> HIDE DEF A, B
<1>7. n \in Mem /\ n[pt] = Zeroed /\ n[d] = A /\ n[rv] = B /\ \A g \in 1 .. NFRAMES : g \notin {pt, d, rv} => n[g] = c[g]
  BY <1>4, <1>5, <1>6 DEF Mem
<1> QED
  BY Zenon, <1>2, <1>4, <1>5, <1>7 DEF At

\* A frame that was idle is not one of a directory or a table.
LEMMA IdleApart ==
  ASSUME NEW m \in Mem, NEW b \in SUBSET (USER_P_START .. NFRAMES), NEW D, TreeIs(m, b, D),
         NEW f \in USER_P_START .. NFRAMES, f \notin b
  PROVE  /\ f \in 1 .. NFRAMES /\ f # SYS0 /\ f \notin D
         /\ \A d \in D, i \in Slots : Own(m, d, i) => Phy(At(m, d, i)) # f
         /\ \A d \in D : Phy(At(m, d, REV)) # f
<1>1. DirsUsed(b, D) /\ TablesUsed(m, b, D) /\ REV \in Slots
  BY Zenon, Constants DEF TreeIs
<1>2. f \in 1 .. NFRAMES /\ f # SYS0 /\ f \notin 1 .. 5 /\ f # PG_DIR0
  BY Constants
<1>3. f \notin D
  BY Zenon, <1>1, <1>2 DEF DirsUsed
<1>4. \A d \in D, i \in Slots : Own(m, d, i) => Phy(At(m, d, i)) # f
  BY Zenon, <1>1, <1>2 DEF TablesUsed
<1>5. \A d \in D : Own(m, d, REV)
  BY Zenon, TreeFrames
<1> QED
  BY Zenon, <1>1, <1>2, <1>3, <1>4, <1>5

\* The kernel stack is not disturbed by a new table.
LEMMA StackTable ==
  ASSUME NEW m \in Mem, NEW b \in SUBSET (USER_P_START .. NFRAMES), NEW D, TreeIs(m, b, D),
         NEW d \in D, NEW i \in Slots, NEW pt \in USER_P_START .. NFRAMES, pt \notin b, NEW rv,
         NEW n, TableAdded(m, n, d, i, pt, rv), Stacked(m)
  PROVE  Stacked(n) /\ KPage(n) = KPage(m)
<1> DEFINE k == Phy(At(m, PG_DIR0, KST))
<1>1. PG_DIR0 \in D /\ PG_DIR0 \in 1 .. NFRAMES /\ PG_DIR0 # SYS0 /\ KST \in Slots
  BY Zenon, TreeFrames, Constants
<1>2. /\ rv = Phy(At(m, d, REV)) /\ ~PAGE_ENTRY_SET(At(m, d, i))
      /\ \A x \in Slots \ {i} : At(n, d, x) = At(m, d, x)
      /\ \A g \in 1 .. NFRAMES : g \notin {SYS0, pt, d, rv} => Same(m, n, g)
  BY Zenon DEF TableAdded
<1>3. Leads(m, d, KST) /\ At(m, d, KST) = At(m, PG_DIR0, KST)
  BY Zenon, StackApart
<1>4. k \in 1 .. NFRAMES /\ k \notin D /\ k # SYS0 /\ k # rv
  <2>1. /\ Phy(At(m, d, KST)) \in 1 .. NFRAMES /\ Phy(At(m, d, KST)) \notin D
        /\ Phy(At(m, d, KST)) # SYS0 /\ Phy(At(m, d, KST)) # Phy(At(m, d, REV))
    BY Zenon, <1>3, TableApart
  <2> QED
    BY Zenon, <1>2, <1>3, <2>1
<1>5. pt \notin D /\ k # pt
  <2>1. Own(m, PG_DIR0, KST)
    BY Zenon DEF Own, Stacked
  <2> QED
    BY Zenon, <1>1, <2>1, IdleApart
<1>6. rv \notin D
  <2>1. Own(m, d, REV) /\ REV \in Slots
    BY Zenon, TreeFrames, Constants
  <2> QED
    BY Zenon, <1>2, <2>1, TreeFrames
<1>7. At(n, PG_DIR0, KST) = At(m, PG_DIR0, KST)
  <2>1. CASE d = PG_DIR0
    <3>1. i # KST
      BY Zenon, <1>2, <2>1 DEF Stacked
    <3> QED
      BY Zenon, <1>1, <1>2, <2>1, <3>1
  <2>2. CASE d # PG_DIR0
    BY Zenon, <1>1, <1>2, <1>5, <1>6, <2>2
  <2> QED
    BY Zenon, <2>1, <2>2
<1>8. Same(m, n, k)
  BY Zenon, <1>2, <1>4, <1>5
<1> QED
  BY Zenon, <1>7, <1>8 DEF Stacked, KPage

LEMMA AddedTable ==
  ASSUME SetFacts, AtPage, NoTable, Idle(busy) # {}, NEW pt, pt = alloc_frame(busy), NEW m, NEW n,
         m = create_page_table(mem, pt),
         n = IF r.pt_now = NULL THEN m ELSE delete_temp_va(m, r.pt_now)
  PROVE  TableGiven(n, busy \cup {pt}, FreeSlot(mem), FreeSlot(mem))
<1> DEFINE d == l.phy_dir
           rv == Phy(At(mem, d, REV))
           flg == IF r.va < KERNEL_V_START THEN "usr" ELSE "krn"
           c == create_temp_va(mem, pt)
           s == FreeSlot(mem)
<1>1. /\ mem \in Mem /\ busy \in SUBSET (USER_P_START .. NFRAMES) /\ TreeIs(mem, busy, Dirs)
      /\ d \in Dirs /\ di \in Slots /\ Maps(mem, r.dir, d) /\ Maps(mem, r.rev_tb, rv)
      /\ ~PAGE_ENTRY_SET(At(mem, d, di)) /\ Count(mem) < W
      /\ di < KDIR \/ (di = KST /\ Dirs = {PG_DIR0})
      /\ di \in (0 .. KDIR - 1) \cup {KST} /\ r.pt_now \in Slots \cup {NULL}
      /\ r.pt_now # NULL => \E f : Maps(mem, r.pt_now, f)
  BY Zenon DEF AtPage, Regions
<1>2. pt \in USER_P_START .. NFRAMES /\ pt \notin busy
  BY Zenon, AllocFrame
<1>3. pt \in 1 .. NFRAMES /\ pt # SYS0 /\ pt # d /\ pt # rv
  BY <1>1, <1>2, IdleApart
<1>4. d \in 1 .. NFRAMES /\ rv \in 1 .. NFRAMES /\ d # rv /\ rv # SYS0 /\ d # SYS0
  <2>1. rv \in 1 .. NFRAMES /\ d # rv /\ rv # SYS0 /\ d # SYS0
    BY Zenon, <1>1, DirApart
  <2>2. d \in 1 .. NFRAMES
    BY Zenon, <1>1, TreeFrames
  <2> QED
    BY Zenon, <2>1, <2>2
<1>5. m = Tabled(c, pt, d, rv, di, flg)
  <2>1. Deref(mem, r.dir) = d /\ Deref(mem, r.rev_tb) = rv
    BY Zenon, <1>1 DEF Maps, Deref, At, Phy
  <2> QED
    BY Zenon, <2>1 DEF create_page_table, Tabled, di
<1>6. flg \in {"krn", "usr"}
  BY Zenon
<1> HIDE DEF d, rv, flg
<1>7. /\ c \in Mem /\ SameBut(mem, c) /\ Kept(mem, c, {}) /\ s \in Slots \ Used(mem)
      /\ Maps(c, s, pt) /\ Used(c) = Used(mem) \cup {s} /\ Count(c) = Count(mem) + 1
  <2>1. pt \in 0 .. NFRAMES
    BY <1>3
  <2> QED
    BY Zenon, <1>1, <2>1, CreateTemp
<1> HIDE DEF c, s
<1>8. /\ m \in Mem /\ \A j \in Slots : ~PAGE_ENTRY_SET(At(m, pt, j))
      /\ PAGE_ENTRY_SET(At(m, d, di)) /\ Phy(At(m, d, di)) = pt /\ Phy(At(m, rv, di)) = pt
      /\ \A k \in Slots \ {di} : At(m, d, k) = At(c, d, k) /\ At(m, rv, k) = At(c, rv, k)
      /\ \A g \in 1 .. NFRAMES : g \notin {pt, d, rv} => Same(c, m, g)
  <2>1. c \in Mem /\ di \in Slots
    BY Zenon, <1>1, <1>7
  <2> QED
    BY SMTT(30), <1>3, <1>4, <1>5, <1>6, <2>1, TabledIs
<1>9. Same(c, m, SYS0)
  BY Zenon, <1>3, <1>4, <1>8, Constants
<1>10. Kept(mem, m, {}) /\ Maps(m, s, pt) /\ Used(m) = Used(c) /\ Count(m) = Count(mem) + 1
  BY Zenon, <1>7, <1>9 DEF Kept, Maps, Used, Count
<1>11. Count(mem) \in Nat /\ Count(m) \in Nat
  BY Zenon, <1>1, <1>8, Slots0
<1>12. /\ n \in Mem /\ SameBut(m, n) /\ Kept(m, n, {r.pt_now}) /\ Count(n) <= Count(mem) + 1
       /\ r.pt_now # NULL => Count(n) <= Count(mem)
  <2>1. CASE r.pt_now = NULL
    <3>1. n = m
      BY Zenon, <2>1
    <3> QED
      BY <1>8, <1>10, <1>11, <2>1, <3>1 DEF SameBut, Kept
  <2>2. CASE r.pt_now # NULL
    <3>1. n = delete_temp_va(m, r.pt_now) /\ r.pt_now \in Slots /\ r.pt_now \in Used(m)
      BY Zenon, <1>1, <1>7, <1>10, <2>2, Mapped
    <3>2. n \in Mem /\ SameBut(m, n) /\ Kept(m, n, {r.pt_now}) /\ Count(n) = Count(m) - 1
      BY <1>8, <3>1, DeleteTemp
    <3> QED
      BY <1>10, <1>11, <3>2
  <2> QED
    BY Zenon, <2>1, <2>2
<1>13. TableAdded(mem, n, d, di, pt, rv)
  <2>1. \A g \in 1 .. NFRAMES : g \notin {SYS0, pt, d, rv} => Same(mem, n, g)
    BY <1>7, <1>8, <1>12 DEF SameBut
  <2>2. Same(m, n, d) /\ Same(m, n, rv) /\ Same(m, n, pt) /\ Same(mem, c, d) /\ Same(mem, c, rv)
    BY Zenon, <1>3, <1>4, <1>7, <1>12 DEF SameBut
  <2>3. ~PAGE_ENTRY_SET(At(mem, d, di)) /\ rv = Phy(At(mem, d, REV))
    BY Zenon, <1>1 DEF rv
  <2>4. /\ \A j \in Slots : ~PAGE_ENTRY_SET(At(n, pt, j))
        /\ PAGE_ENTRY_SET(At(n, d, di)) /\ Phy(At(n, d, di)) = pt /\ Phy(At(n, rv, di)) = pt
        /\ \A k \in Slots \ {di} : At(n, d, k) = At(mem, d, k) /\ At(n, rv, k) = At(mem, rv, k)
    BY SMTT(30), <1>8, <2>2
  <2> QED
    BY Zenon, <2>1, <2>3, <2>4 DEF TableAdded
<1>14. TreeIs(n, busy \cup {pt}, Dirs)
  BY Zenon, <1>1, <1>2, <1>12, <1>13, NewTable
<1>15. Stacked(mem) => Stacked(n) /\ KPage(n) = KPage(mem)
  BY <1>1, <1>2, <1>13, StackTable
<1>16. s # r.pt_now /\ s \in Slots
  <2>1. r.pt_now = NULL \/ r.pt_now \in Used(mem)
    BY Zenon, <1>1, Mapped
  <2>2. NULL \notin Slots
    BY DEF NULL, Slots
  <2> QED
    BY Zenon, <1>7, <2>1, <2>2
<1>17. Maps(n, s, pt)
  BY <1>10, <1>12, <1>16, MapsKept
<1>18. ASSUME NEW x, NEW f, Maps(mem, x, f), x # r.pt_now
       PROVE  Maps(n, x, f)
  <2>1. Maps(m, x, f)
    BY <1>10, <1>18, MapsKept
  <2> QED
    BY <1>12, <1>18, <2>1, MapsKept
<1>19. Leads(n, d, di) /\ Phy(At(n, d, di)) = pt /\ PAGE_ENTRY_SET(At(n, d, di))
       /\ \A i \in Slots : At(n, d, i) = At(mem, d, i) \/ i = di
  BY Zenon, <1>1, <1>13 DEF Leads, TableAdded
<1>20. busy \cup {pt} \in SUBSET (USER_P_START .. NFRAMES) /\ Count(n) \in Nat
  BY Zenon, <1>1, <1>2, <1>12, Slots0
<1> QED
  BY Zenon, <1>12, <1>14, <1>15, <1>16, <1>17, <1>18, <1>19, <1>20 DEF TableGiven, d, s


\* What request_region_vmap writes for a page.
Entered(n, pg, t, j, flg) == [n EXCEPT ![pg] = Zeroed, ![t][j] = To(pg, flg)]

LEMMA EnteredIs ==
  ASSUME NEW m \in Mem, NEW pg \in 1 .. NFRAMES, NEW t \in 1 .. NFRAMES, pg # t,
         NEW j \in Slots, NEW flg \in {"krn", "usr"}, NEW n, n = Entered(m, pg, t, j, flg)
  PROVE  /\ n \in Mem /\ PAGE_ENTRY_SET(At(n, t, j)) /\ Phy(At(n, t, j)) = pg
         /\ \A k \in Slots \ {j} : At(n, t, k) = At(m, t, k)
         /\ \A g \in 1 .. NFRAMES : g \notin {pg, t} => Same(m, n, g)
<1> DEFINE x == To(pg, flg)
<1>1. x \in Entry /\ Unset \in Entry
  BY Constants DEF To, Entry, Unset
<1>2. PAGE_ENTRY_SET(x) /\ Phy(x) = pg
  BY Zenon DEF To, Phy, PAGE_ENTRY_SET
<1>3. n = [m EXCEPT ![pg] = Zeroed, ![t] = [m[t] EXCEPT ![j] = x]]
  BY Zenon DEF Entered, Mem
<1> HIDE DEF x
<1>4. Zeroed \in [Slots -> Entry] /\ m[t] \in [Slots -> Entry]
  BY Zenon, <1>1 DEF Zeroed, Mem
<1>5. n \in Mem
  BY <1>1, <1>3, <1>4 DEF Mem
<1>6. n[t] = [m[t] EXCEPT ![j] = x] /\ \A g \in 1 .. NFRAMES : g \notin {pg, t} => n[g] = m[g]
  BY Zenon, <1>3 DEF Mem
<1> QED
  BY Zenon, <1>2, <1>4, <1>5, <1>6 DEF At

\* The page of a table that is given: it is there, or it gets a frame.
LEMMA PageEntered ==
  ASSUME SetFacts, AtPage, NEW n, NEW b, NEW p, NEW q, TableGiven(n, b, p, q), Idle(b) # {},
         NEW pg, pg = alloc_frame(b), NEW t, t = Deref(n, p), ~PAGE_ENTRY_SET(At(n, t, ti)),
         NEW m, m = Entered(n, pg, t, ti, r.flag)
  PROVE  /\ m \in Mem /\ b \cup {pg} \in SUBSET (USER_P_START .. NFRAMES)
         /\ TreeIs(m, b \cup {pg}, Dirs) /\ Same(n, m, SYS0) /\ \A e \in Dirs : Same(n, m, e)
         /\ Stacked(n) => Stacked(m) /\ KPage(m) = KPage(n)
         /\ PAGE_ENTRY_SET(At(m, t, ti))
<1> DEFINE d == l.phy_dir
<1>1. /\ n \in Mem /\ b \in SUBSET (USER_P_START .. NFRAMES) /\ TreeIs(n, b, Dirs)
      /\ d \in Dirs /\ ti \in Slots
  BY Zenon DEF AtPage, TableGiven
<1>2. PICK i : Leads(n, d, i) /\ Maps(n, p, Phy(At(n, d, i)))
  BY Zenon DEF TableGiven
<1>3. t = Phy(At(n, d, i))
  BY Zenon, <1>2 DEF Maps, Deref, At, Phy
<1>4. PICK e \in Dirs : Paged(n, e, i) /\ Own(n, e, i) /\ At(n, e, i) = At(n, d, i) /\ i \in Slots
  BY Zenon, <1>1, <1>2, TableOwner
<1>5. pg \in USER_P_START .. NFRAMES /\ pg \notin b
  BY Zenon, AllocFrame
<1>6. t \in 1 .. NFRAMES /\ t \notin Dirs /\ t # SYS0
  <2>1. Phy(At(n, d, i)) \in 1 .. NFRAMES /\ Phy(At(n, d, i)) \notin Dirs /\ Phy(At(n, d, i)) # SYS0
    BY Zenon, <1>1, <1>2, TableApart
  <2> QED
    BY Zenon, <1>3, <2>1
<1>7. pg \in 1 .. NFRAMES /\ pg # SYS0 /\ pg \notin Dirs /\ pg # t
  <2>1. /\ pg \in 1 .. NFRAMES /\ pg # SYS0 /\ pg \notin Dirs
        /\ \A x \in Dirs, k \in Slots : Own(n, x, k) => Phy(At(n, x, k)) # pg
    BY Zenon, <1>1, <1>5, IdleApart
  <2> QED
    BY Zenon, <1>3, <1>4, <2>1
<1>8. r.flag \in {"krn", "usr"}
  BY Zenon DEF AtPage, Regions
<1>9. /\ m \in Mem /\ PAGE_ENTRY_SET(At(m, t, ti)) /\ Phy(At(m, t, ti)) = pg
      /\ \A k \in Slots \ {ti} : At(m, t, k) = At(n, t, k)
      /\ \A g \in 1 .. NFRAMES : g \notin {pg, t} => Same(n, m, g)
  BY <1>1, <1>6, <1>7, <1>8, EnteredIs
<1>10. PageAdded(n, m, e, i, t, ti, pg)
  BY Zenon, <1>3, <1>4, <1>9 DEF PageAdded
<1>11. TreeIs(m, b \cup {pg}, Dirs)
  BY Zenon, <1>1, <1>4, <1>5, <1>9, <1>10, NewPage
<1>12. Dirs \subseteq 1 .. NFRAMES /\ PG_DIR0 \in Dirs
  BY Zenon, <1>1, TreeFrames
<1>13. Same(n, m, SYS0) /\ \A x \in Dirs : Same(n, m, x)
  BY Zenon, <1>6, <1>7, <1>9, <1>12, Constants
<1>14. ASSUME Stacked(n)
       PROVE  Stacked(m) /\ KPage(m) = KPage(n)
  <2> DEFINE k == Phy(At(n, PG_DIR0, KST))
  <2>1. At(m, PG_DIR0, KST) = At(n, PG_DIR0, KST)
    BY Zenon, <1>12, <1>13
  <2>2. Own(n, PG_DIR0, KST) /\ KST \in Slots /\ W - 1 \in Slots
    BY Zenon, <1>14, Constants DEF Own, Stacked, REV
  <2>3. k \in 1 .. NFRAMES
    BY Zenon, <1>1, <1>12, <2>2, TreeFrames
  <2>4. k # pg
    BY Zenon, <1>1, <1>5, <1>12, <2>2, IdleApart
  <2>5. At(m, k, W - 1) = At(n, k, W - 1)
    <3>1. CASE k = t
      <4>1. ti # W - 1
        BY Zenon, <1>14, <3>1 DEF Stacked, KPage
      <4> QED
        BY Zenon, <1>9, <2>2, <3>1, <4>1
    <3>2. CASE k # t
      BY Zenon, <1>9, <2>3, <2>4, <3>2
    <3> QED
      BY Zenon, <3>1, <3>2
  <2> QED
    BY Zenon, <1>14, <2>1, <2>5 DEF Stacked, KPage
<1> QED
  BY Zenon, <1>1, <1>5, <1>9, <1>11, <1>13, <1>14

\* The whole of the step, in terms of the table.
Stepped(n, b, p, q) ==
  /\ mem' \in Mem /\ busy' \in SUBSET (USER_P_START .. NFRAMES) /\ TreeIs(mem', busy', Dirs)
  /\ Same(n, mem', SYS0) /\ \A e \in Dirs : Same(n, mem', e)
  /\ Stacked(n) => Stacked(mem') /\ KPage(mem') = KPage(n)
  /\ PAGE_ENTRY_SET(At(mem', Deref(n, p), ti))
  /\ image' \in [1 .. NFRAMES -> {<<>>} \cup Nat \X Nat]
  /\ r' = [r EXCEPT !.va = @ + 1, !.pt_now = p, !.new_pt = q]

LEMMA TableStepGiven ==
  ASSUME SetFacts, AtPage, Enough
  PROVE  /\ TableGiven(TableStep.m, TableStep.busy, TableStep.pt_now, TableStep.new_pt)
         /\ ~PageSet(TableStep) => Idle(TableStep.busy) # {}
<1> DEFINE pt == alloc_frame(busy)
           c == Cardinality(Idle(busy))
           old == Phy(At(mem, l.phy_dir, di))
           m == create_page_table(mem, pt)
           n == IF r.pt_now = NULL THEN m ELSE delete_temp_va(m, r.pt_now)
<1>1. c \in Nat /\ (c >= 1 => Idle(busy) # {})
      /\ (Idle(busy) # {} => Cardinality(Idle(busy \cup {pt})) = c - 1)
      /\ (Cardinality(Idle(busy \cup {pt})) >= 1 => Idle(busy \cup {pt}) # {})
  BY Zenon, IdleFrames
<1>2. c >= 2 \/ (~NoTable /\ (c = 1 \/ PageSet(TableStep)))
  BY Zenon DEF Enough
<1>3. old = mem[Deref(mem, r.dir)][PAGE_DIR_INDEX(r.va)].f
  BY Zenon DEF AtPage, Maps, Deref, At, Phy, di
<1> HIDE DEF pt, c, old, m, n
<1>4. CASE NoTable
  <2>1. c >= 2
    BY Zenon, <1>2, <1>4
  <2>2. Idle(busy) # {} /\ Idle(busy \cup {pt}) # {}
    BY <1>1, <2>1
  <2>3. TableStep = [m |-> n, busy |-> busy \cup {pt}, pt_now |-> FreeSlot(mem), new_pt |-> FreeSlot(mem)]
    BY Zenon, <1>4 DEF TableStep, pt, m, n
  <2>4. TableGiven(n, busy \cup {pt}, FreeSlot(mem), FreeSlot(mem))
    BY Zenon, <1>4, <2>2, AddedTable DEF pt, m, n
  <2> QED
    BY Zenon, <2>2, <2>3, <2>4
<1>5. CASE ~NoTable /\ r.pt_now = NULL
  <2>1. TableStep = [m |-> get_temp_va(mem, old), busy |-> busy, pt_now |-> TempSlot(mem, old), new_pt |-> NULL]
    BY Zenon, <1>3, <1>5 DEF TableStep
  <2>2. TableGiven(get_temp_va(mem, old), busy, TempSlot(mem, old), NULL)
    BY Zenon, <1>5, MappedTable DEF old
  <2>3. ~PageSet(TableStep) => Idle(busy) # {}
    BY <1>1, <1>2
  <2> QED
    BY Zenon, <2>1, <2>2, <2>3
<1>6. CASE ~NoTable /\ r.pt_now # NULL
  <2>1. TableStep = [m |-> mem, busy |-> busy, pt_now |-> r.pt_now, new_pt |-> NULL]
    BY Zenon, <1>6 DEF TableStep
  <2>2. TableGiven(mem, busy, r.pt_now, NULL)
    BY Zenon, <1>6, OldTable
  <2>3. ~PageSet(TableStep) => Idle(busy) # {}
    BY <1>1, <1>2
  <2> QED
    BY Zenon, <2>1, <2>2, <2>3
<1> QED
  BY Zenon, <1>4, <1>5, <1>6

LEMMA MapPageStep ==
  ASSUME SetFacts, Types, AtPage, MapPage
  PROVE  \E n, b, p, q : TableGiven(n, b, p, q) /\ Stepped(n, b, p, q)
<1> DEFINE n == TableStep.m
           b == TableStep.busy
           p == TableStep.pt_now
           q == TableStep.new_pt
           t == Deref(n, p)
           pg == alloc_frame(b)
<1>1. Enough /\ r' = [r EXCEPT !.va = @ + 1, !.pt_now = p, !.new_pt = q]
  BY Zenon DEF MapPage
<1>2. TableGiven(n, b, p, q) /\ (~PageSet(TableStep) => Idle(b) # {})
  BY Zenon, <1>1, TableStepGiven
<1>3. PageSet(TableStep) <=> PAGE_ENTRY_SET(At(n, t, ti))
  BY Zenon DEF PageSet, At, ti
<1>4. /\ PageSet(TableStep) => mem' = n /\ busy' = b /\ image' = image
      /\ ~PageSet(TableStep) => /\ mem' = Entered(n, pg, t, ti, r.flag) /\ busy' = b \cup {pg}
                                /\ image' = [image EXCEPT ![pg] = <<>>]
  BY Zenon DEF MapPage, Entered, ti
<1> HIDE DEF n, b, p, q, t, pg
<1>5. image' \in [1 .. NFRAMES -> {<<>>} \cup Nat \X Nat]
  <2>1. image \in [1 .. NFRAMES -> {<<>>} \cup Nat \X Nat]
    BY Zenon DEF Types
  <2> QED
    BY Zenon, <1>4, <2>1
<1>6. CASE PageSet(TableStep)
  <2>1. mem' = n /\ busy' = b /\ PAGE_ENTRY_SET(At(n, t, ti))
    BY Zenon, <1>3, <1>4, <1>6
  <2>2. n \in Mem /\ b \in SUBSET (USER_P_START .. NFRAMES) /\ TreeIs(n, b, Dirs)
    BY Zenon, <1>2 DEF TableGiven
  <2>3. Stepped(n, b, p, q)
    BY Zenon, <1>1, <1>5, <2>1, <2>2 DEF Stepped, t
  <2> QED
    BY Zenon, <1>2, <2>3
<1>7. CASE ~PageSet(TableStep)
  <2>1. mem' = Entered(n, pg, t, ti, r.flag) /\ busy' = b \cup {pg} /\ Idle(b) # {}
        /\ ~PAGE_ENTRY_SET(At(n, t, ti))
    BY Zenon, <1>2, <1>3, <1>4, <1>7
  <2>2. /\ mem' \in Mem /\ busy' \in SUBSET (USER_P_START .. NFRAMES)
        /\ TreeIs(mem', busy', Dirs) /\ Same(n, mem', SYS0) /\ \A e \in Dirs : Same(n, mem', e)
        /\ Stacked(n) => Stacked(mem') /\ KPage(mem') = KPage(n)
        /\ PAGE_ENTRY_SET(At(mem', t, ti))
    BY <1>2, <2>1, PageEntered DEF t, pg
  <2> QED
    BY Zenon, <1>1, <1>2, <1>5, <2>2 DEF Stepped, t
<1> QED
  BY Zenon, <1>6, <1>7

\* The pointers that are still needed are not the one that may be deleted.
LEMMA PointersApart ==
  ASSUME AtPage, NEW s, NEW f, Maps(mem, s, f),
         \/ f = l.phy_dir \/ f = Phy(At(mem, l.phy_dir, REV)) \/ f = Phy(At(mem, l.phy_dir, SYS))
         \/ Stacked(mem) /\ f = Phy(KPage(mem))
  PROVE  s # r.pt_now
<1> DEFINE d == l.phy_dir
<1>1. /\ mem \in Mem /\ busy \in SUBSET (USER_P_START .. NFRAMES) /\ TreeIs(mem, busy, Dirs)
      /\ d \in Dirs
  BY Zenon DEF AtPage
<1>2. CASE r.pt_now = NULL
  BY <1>2 DEF Maps, NULL, Slots
<1>3. CASE r.pt_now # NULL
  <2>1. PICK i : Leads(mem, d, i) /\ Maps(mem, r.pt_now, Phy(At(mem, d, i)))
    BY Zenon, <1>3 DEF AtPage
  <2>2. /\ Phy(At(mem, d, i)) \notin Dirs /\ Phy(At(mem, d, i)) # Phy(At(mem, d, REV))
        /\ Phy(At(mem, d, i)) # Phy(At(mem, d, SYS))
    BY Zenon, <1>1, <2>1, TableApart
  <2>3. Stacked(mem) => Phy(KPage(mem)) # Phy(At(mem, d, i))
    BY Zenon, <1>1, <2>1, StackApart
  <2>4. f # Phy(At(mem, d, i))
    BY Zenon, <1>1, <2>2, <2>3
  <2> QED
    BY Zenon, <2>1, <2>4 DEF Maps
<1> QED
  BY Zenon, <1>2, <1>3

\* The step for one page, as far as the invariant tells.
TableNow(m, p) == Maps(m, p, Phy(At(m, l.phy_dir, di)))
Moved(p, q) ==
  /\ r' \in Regions /\ r'.va = r.va + 1 /\ r'.va_end = r.va_end /\ r'.dir = r.dir /\ r'.ret = r.ret
  /\ r'.rev_tb = r.rev_tb /\ r'.new_rev = r.new_rev /\ r'.pt_now = p /\ r'.new_pt = q
  /\ p \in Slots /\ p # NULL /\ q \in {NULL, p}
  /\ mem' \in Mem /\ busy' \in SUBSET (USER_P_START .. NFRAMES) /\ TreeIs(mem', busy', Dirs)
  /\ image' \in [1 .. NFRAMES -> {<<>>} \cup Nat \X Nat]
  /\ \A s, f : Maps(mem, s, f) /\ s # r.pt_now => Maps(mem', s, f)
  /\ \A i \in Slots : At(mem', l.phy_dir, i) = At(mem, l.phy_dir, i) \/ (NoTable /\ i = di)
  /\ PAGE_ENTRY_SET(At(mem', l.phy_dir, di))
  /\ \E i : Leads(mem', l.phy_dir, i) /\ Maps(mem', p, Phy(At(mem', l.phy_dir, i)))
  /\ Stacked(mem) => Stacked(mem') /\ KPage(mem') = KPage(mem)
  /\ Count(mem') \in Nat /\ Count(mem') <= Count(mem) + 1
  /\ r.pt_now # NULL => Count(mem') <= Count(mem)
  /\ \/ q = p /\ NoTable /\ TableNow(mem', p)
     \/ q = NULL /\ ~NoTable /\ r.pt_now = NULL /\ TableNow(mem', p)
     \/ /\ q = NULL /\ ~NoTable /\ r.pt_now # NULL /\ p = r.pt_now
        /\ \A f : Maps(mem, p, f) => Maps(mem', p, f)
        /\ \A e \in Dirs : Same(mem, mem', e)
  /\ TableNow(mem', p) => PAGE_ENTRY_SET(At(mem', Phy(At(mem', l.phy_dir, di)), ti))

LEMMA MapPageMoves ==
  ASSUME SetFacts, Types, AtPage, MapPage
  PROVE  \E p, q : Moved(p, q)
<1> DEFINE d == l.phy_dir
<1>1. PICK n, b, p, q : TableGiven(n, b, p, q) /\ Stepped(n, b, p, q)
  BY Zenon, MapPageStep
<1>2. r \in Regions /\ r.va \in Nat /\ d \in Dirs /\ di \in Slots
  BY Zenon DEF AtPage
<1>3. p \in Slots /\ q \in {NULL, p} /\ p # NULL
  BY <1>1 DEF TableGiven, NULL, Slots
<1>4. /\ r' \in Regions /\ r'.va = r.va + 1 /\ r'.va_end = r.va_end /\ r'.dir = r.dir
      /\ r'.ret = r.ret /\ r'.rev_tb = r.rev_tb /\ r'.new_rev = r.new_rev
      /\ r'.pt_now = p /\ r'.new_pt = q
  <2>1. r' = [r EXCEPT !.va = @ + 1, !.pt_now = p, !.new_pt = q]
    BY Zenon, <1>1 DEF Stepped
  <2>2. r.va + 1 \in Nat /\ p \in Slots \cup {NULL} /\ q \in Slots \cup {NULL}
    BY <1>2, <1>3
  <2>3. r' \in Regions
    BY Zenon, <1>2, <2>1, <2>2 DEF Regions
  <2>4. /\ r'.va = r.va + 1 /\ r'.va_end = r.va_end /\ r'.dir = r.dir
        /\ r'.ret = r.ret /\ r'.rev_tb = r.rev_tb /\ r'.new_rev = r.new_rev
        /\ r'.pt_now = p /\ r'.new_pt = q
    BY Zenon, <1>2, <2>1 DEF Regions
  <2> QED
    BY Zenon, <2>3, <2>4
<1>5. /\ mem' \in Mem /\ busy' \in SUBSET (USER_P_START .. NFRAMES) /\ TreeIs(mem', busy', Dirs)
      /\ image' \in [1 .. NFRAMES -> {<<>>} \cup Nat \X Nat]
      /\ Same(n, mem', SYS0) /\ (\A e \in Dirs : Same(n, mem', e)) /\ Same(n, mem', d)
      /\ PAGE_ENTRY_SET(At(mem', Deref(n, p), ti))
  BY Zenon, <1>1, <1>2 DEF Stepped
<1>6. \A s, f : Maps(n, s, f) <=> Maps(mem', s, f)
  BY Zenon, <1>5 DEF Maps
<1>7. Count(mem') = Count(n)
  BY Zenon, <1>5 DEF Count, Used
<1>8. \A s, f : Maps(mem, s, f) /\ s # r.pt_now => Maps(mem', s, f)
  BY Zenon, <1>1, <1>6 DEF TableGiven
<1>9. /\ \A i \in Slots : At(mem', d, i) = At(mem, d, i) \/ (NoTable /\ i = di)
      /\ PAGE_ENTRY_SET(At(mem', d, di))
  BY Zenon, <1>1, <1>5 DEF TableGiven
<1>10. \E i : Leads(mem', d, i) /\ Maps(mem', p, Phy(At(mem', d, i)))
  <2>1. PICK i : Leads(n, d, i) /\ Maps(n, p, Phy(At(n, d, i)))
    BY Zenon, <1>1 DEF TableGiven
  <2> QED
    BY Zenon, <1>5, <1>6, <2>1 DEF Leads
<1>11. Stacked(mem) => Stacked(mem') /\ KPage(mem') = KPage(mem)
  BY Zenon, <1>1 DEF TableGiven, Stepped
<1>12. /\ Count(mem') \in Nat /\ Count(mem') <= Count(mem) + 1
       /\ r.pt_now # NULL => Count(mem') <= Count(mem)
  BY Zenon, <1>1, <1>7 DEF TableGiven
<1>13. \/ q = p /\ NoTable /\ TableNow(mem', p)
       \/ q = NULL /\ ~NoTable /\ r.pt_now = NULL /\ TableNow(mem', p)
       \/ /\ q = NULL /\ ~NoTable /\ r.pt_now # NULL /\ p = r.pt_now
          /\ \A f : Maps(mem, p, f) => Maps(mem', p, f)
          /\ \A e \in Dirs : Same(mem, mem', e)
  <2>1. \/ q = p /\ NoTable /\ TableNow(n, p)
        \/ q = NULL /\ ~NoTable /\ r.pt_now = NULL /\ TableNow(n, p)
        \/ q = NULL /\ ~NoTable /\ r.pt_now # NULL /\ p = r.pt_now /\ n = mem
    BY Zenon, <1>1 DEF TableGiven, TableNow
  <2>2. TableNow(n, p) => TableNow(mem', p)
    BY Zenon, <1>5, <1>6 DEF TableNow
  <2> QED
    BY Zenon, <1>5, <1>6, <2>1, <2>2
<1>14. TableNow(mem', p) => PAGE_ENTRY_SET(At(mem', Phy(At(mem', d, di)), ti))
  <2>1. TableNow(mem', p) => Deref(n, p) = Phy(At(mem', d, di))
    BY Zenon, <1>6 DEF TableNow, Maps, Deref, At, Phy
  <2> QED
    BY Zenon, <1>5, <2>1
<1> QED
  BY Zenon, <1>3, <1>4, <1>5, <1>8, <1>9, <1>10, <1>11, <1>12, <1>13, <1>14 DEF Moved

\* What a step of request_region_vmap leaves alone.
Still == pc = "region" /\ pc' = "region" /\ l' = l /\ tasks' = tasks

LEMMA MovedTables ==
  ASSUME SetFacts, IInv, AtPage, Still, NEW p, NEW q, Moved(p, q)
  PROVE  /\ Types' /\ Tree' /\ Caller' /\ Loader' /\ Stack0' /\ Locals' /\ CountRegion' /\ Counts'
<1> DEFINE d == l.phy_dir
<1>1. Types /\ Tree /\ Caller /\ Loader /\ Stack0 /\ Locals /\ CountRegion
  BY Zenon DEF IInv
<1>2. /\ pc = "region" /\ pc' = "region" /\ l' = l /\ tasks' = tasks /\ Dirs' = Dirs
      /\ (Booting' <=> Booting) /\ Active /\ Active' /\ r'.ret = r.ret /\ Section' = Section
  BY Zenon DEF Still, Dirs, Booting, Active, Section, Moved
<1>3. Types'
  BY Zenon, <1>1, <1>2 DEF Types, Moved
<1>4. Tree'
  BY Zenon, <1>2 DEF Tree, Moved
<1>5. REV \in Slots /\ SYS \in Slots /\ d \in Dirs /\ TreeIs(mem, busy, Dirs)
  BY Zenon, Constants DEF AtPage
<1>6. At(mem', d, REV) = At(mem, d, REV) /\ At(mem', d, SYS) = At(mem, d, SYS)
  <2>1. PAGE_ENTRY_SET(At(mem, d, REV)) /\ PAGE_ENTRY_SET(At(mem, d, SYS))
    BY Zenon, <1>5 DEF TreeIs, Linked0
  <2>2. NoTable => ~PAGE_ENTRY_SET(At(mem, d, di))
    BY Zenon DEF AtPage
  <2> QED
    BY Zenon, <1>5, <2>1, <2>2 DEF Moved
<1>7. ASSUME NEW s, NEW f, Maps(mem, s, f),
             \/ f = d \/ f = Phy(At(mem, d, REV)) \/ f = Phy(At(mem, d, SYS))
             \/ Stacked(mem) /\ f = Phy(KPage(mem))
      PROVE  Maps(mem', s, f)
  <2>1. s # r.pt_now
    BY Zenon, <1>7, PointersApart
  <2> QED
    BY Zenon, <1>7, <2>1 DEF Moved
<1>8. r'.dir = r.dir /\ r'.rev_tb = r.rev_tb /\ r'.new_rev = r.new_rev /\ r'.pt_now = p /\ r'.new_pt = q
  BY Zenon DEF Moved
<1>9. Caller'
  BY Zenon, <1>1, <1>2, <1>7, <1>8 DEF Caller
<1>10. Loader'
  BY Zenon, <1>1, <1>2, <1>6, <1>7 DEF Loader
<1>11. Stacked(mem) => Stacked(mem') /\ KPage(mem') = KPage(mem)
  BY Zenon DEF Moved
<1>12. Stack0'
  BY Zenon, <1>1, <1>2, <1>7, <1>11 DEF Stack0
<1>13. Maps(mem', r.rev_tb, Phy(At(mem', d, REV)))
  BY Zenon, <1>1, <1>2, <1>6, <1>7 DEF Locals
<1>14. \E i \in (0 .. KDIR - 1) \cup {KST} :
         PAGE_ENTRY_SET(At(mem', d, i)) /\ Maps(mem', p, Phy(At(mem', d, i)))
  BY Zenon DEF Moved, Leads
<1>15. q \in {NULL, p} /\ p # NULL
  BY Zenon DEF Moved
<1>16. Locals'
  BY Zenon, <1>1, <1>2, <1>8, <1>13, <1>14, <1>15 DEF Locals
<1>17. CountRegion'
  <2>1. Base' = Base
    BY Zenon, <1>2, <1>8 DEF Base
  <2>2. Base \in Nat /\ Count(mem) \in Nat
    <3>1. Len(tasks) \in Nat
      BY <1>1 DEF Types
    <3> QED
      BY <1>1, <3>1, Here DEF Base
  <2>3. Count(mem) <= Base + 1 /\ (r.pt_now = NULL => Count(mem) <= Base)
    BY Zenon, <1>1, <1>2 DEF CountRegion
  <2>4. /\ Count(mem') \in Nat /\ Count(mem') <= Count(mem) + 1
        /\ r.pt_now # NULL => Count(mem') <= Count(mem)
    BY Zenon DEF Moved
  <2>5. Count(mem') <= Base + 1
    BY <2>2, <2>3, <2>4
  <2> QED
    BY Zenon, <1>8, <1>15, <2>1, <2>5 DEF CountRegion
<1>18. Counts'
  BY Zenon, <1>2 DEF Counts
<1> QED
  BY Zenon, <1>3, <1>4, <1>9, <1>10, <1>12, <1>16, <1>17, <1>18

LEMMA MovedStacks ==
  ASSUME IInv, AtPage, Still, r.va <= r.va_end, NEW p, NEW q, Moved(p, q)
  PROVE  Fresh' /\ InKstack' /\ InUstack'
<1> DEFINE d == l.phy_dir
<1>1. Types /\ Caller /\ Loader /\ Fresh /\ InKstack /\ InUstack /\ Stack0
  BY Zenon DEF IInv
<1>2. /\ pc = "region" /\ pc' = "region" /\ l' = l /\ tasks' = tasks
      /\ (Booting' <=> Booting) /\ Active /\ r'.ret = r.ret
      /\ Section = r.ret /\ Section' = r.ret
  BY Zenon DEF Still, Booting, Active, Section, Moved
<1>3. /\ r'.va = r.va + 1 /\ r'.va_end = r.va_end /\ r'.dir = r.dir /\ r'.pt_now = p /\ r'.new_pt = q
      /\ p # NULL /\ mem' \in Mem /\ TreeIs(mem', busy', Dirs)
  BY Zenon DEF Moved
<1>4. r.va \in Nat /\ r.va_end \in Nat /\ d \in Dirs /\ TreeIs(mem, busy, Dirs)
  BY Zenon DEF AtPage, Regions
<1>5. KSTACK_FRAME \in Nat /\ USTACK_FRAME \in Nat
  BY Zenon, Pages0
<1>6. ASSUME r.ret = "kstack"
      PROVE  /\ r.va = KSTACK_FRAME \/ r.va = KSTACK_FRAME + 1
             /\ r.va = KSTACK_FRAME => di = KST /\ ti = W - 1 /\ r.pt_now = NULL
             /\ r.va = KSTACK_FRAME + 1 =>
                  di = SYS /\ r.pt_now # NULL /\ Stacked(mem) /\ Maps(mem, r.pt_now, Phy(At(mem, PG_DIR0, KST)))
             /\ r.va_end = KSTACK_FRAME + 1
  <2>1. /\ r.va_end = KSTACK_FRAME + 1 /\ r.va \in KSTACK_FRAME .. KSTACK_FRAME + 2
        /\ r.pt_now = NULL <=> r.va = KSTACK_FRAME
        /\ r.va # KSTACK_FRAME => Stacked(mem) /\ Maps(mem, r.pt_now, Phy(At(mem, PG_DIR0, KST)))
    BY Zenon, <1>1, <1>2, <1>6 DEF InKstack
  <2>2. r.va = KSTACK_FRAME \/ r.va = KSTACK_FRAME + 1
    BY <1>4, <1>5, <2>1
  <2>3. (r.va = KSTACK_FRAME => di = KST /\ ti = W - 1) /\ (r.va = KSTACK_FRAME + 1 => di = SYS)
    BY Zenon, Pages0 DEF di, ti
  <2>4. r.va = KSTACK_FRAME + 1 => r.va # KSTACK_FRAME
    BY <1>5
  <2> QED
    BY Zenon, <2>1, <2>2, <2>3, <2>4
<1>7. Fresh'
  <2> SUFFICES ASSUME ~Booting, r.ret = "kstack"
               PROVE  /\ r.dir # l.new_pg_dir /\ l.k = 0
                      /\ \A i \in 0 .. KDIR - 1 : ~PAGE_ENTRY_SET(At(mem', d, i))
    BY Zenon, <1>2, <1>3 DEF Fresh
  <2>1. /\ r.dir # l.new_pg_dir /\ l.k = 0 /\ d # PG_DIR0
        /\ \A i \in 0 .. KDIR - 1 : ~PAGE_ENTRY_SET(At(mem, d, i))
    BY Zenon, <1>1, <1>2 DEF Fresh, Loader
  <2>2. ~(di < KDIR) /\ 0 .. KDIR - 1 \subseteq Slots
    BY <1>6, Constants
  <2>3. ~NoTable
    BY Zenon, <1>4, <2>1, <2>2 DEF AtPage
  <2> QED
    BY Zenon, <2>1, <2>2, <2>3 DEF Moved
<1>8. InKstack'
  <2> SUFFICES ASSUME r.ret = "kstack"
               PROVE  /\ r.va + 1 \in KSTACK_FRAME .. KSTACK_FRAME + 2 /\ r.va + 1 # KSTACK_FRAME
                      /\ Stacked(mem') /\ Maps(mem', p, Phy(At(mem', PG_DIR0, KST)))
                      /\ r.va + 1 = KSTACK_FRAME + 2 => q = NULL
    BY Zenon, <1>2, <1>3, <1>6 DEF InKstack
  <2>1. r.va + 1 \in KSTACK_FRAME .. KSTACK_FRAME + 2 /\ r.va + 1 # KSTACK_FRAME
        /\ (r.va + 1 = KSTACK_FRAME + 2 => r.va = KSTACK_FRAME + 1)
    BY <1>4, <1>5, <1>6
  <2>2. CASE r.va = KSTACK_FRAME
    <3>1. di = KST /\ ti = W - 1 /\ r.pt_now = NULL
      BY Zenon, <1>6, <2>2
    <3>2. TableNow(mem', p)
      BY Zenon, <3>1 DEF Moved
    <3>3. PAGE_ENTRY_SET(At(mem', d, KST)) /\ PAGE_ENTRY_SET(At(mem', Phy(At(mem', d, KST)), W - 1))
      BY Zenon, <3>1, <3>2 DEF Moved
    <3>4. At(mem', d, KST) = At(mem', PG_DIR0, KST)
      <4>1. KST \in KDIR .. KST
        BY Constants
      <4> QED
        BY Zenon, <1>3, <1>4, <4>1 DEF TreeIs, Linked0
    <3>5. r.va + 1 # KSTACK_FRAME + 2
      BY <1>5, <2>2
    <3> QED
      BY Zenon, <2>1, <3>1, <3>2, <3>3, <3>4, <3>5 DEF Stacked, KPage, TableNow
  <2>3. CASE r.va = KSTACK_FRAME + 1
    <3>1. di = SYS /\ r.pt_now # NULL /\ Stacked(mem) /\ Maps(mem, r.pt_now, Phy(At(mem, PG_DIR0, KST)))
      BY Zenon, <1>6, <2>3
    <3>2. ~NoTable /\ PG_DIR0 \in Dirs
      BY Zenon, <1>4, <3>1 DEF AtPage, TreeIs, Linked0
    <3>3. q = NULL /\ p = r.pt_now /\ Same(mem, mem', PG_DIR0) /\ Stacked(mem')
          /\ \A f : Maps(mem, p, f) => Maps(mem', p, f)
      BY Zenon, <3>1, <3>2 DEF Moved
    <3> QED
      BY Zenon, <2>1, <3>1, <3>3
  <2> QED
    BY Zenon, <1>6, <2>2, <2>3
<1>9. InUstack'
  <2> SUFFICES ASSUME r.ret = "ustack"
               PROVE  /\ r.va_end = USTACK_FRAME + 1 /\ r.va + 1 \in USTACK_FRAME .. USTACK_FRAME + 2
                      /\ r.va + 1 # USTACK_FRAME
    BY Zenon, <1>2, <1>3 DEF InUstack
  <2>1. r.va_end = USTACK_FRAME + 1 /\ r.va \in USTACK_FRAME .. USTACK_FRAME + 2
    BY Zenon, <1>1, <1>2 DEF InUstack
  <2> QED
    BY <1>4, <1>5, <2>1
<1> QED
  BY Zenon, <1>7, <1>8, <1>9


LEMMA MovedSections ==
  ASSUME IInv, AtPage, Still, r.va <= r.va_end, NEW p, NEW q, Moved(p, q)
  PROVE  InSection' /\ InText'
<1> DEFINE d == l.phy_dir
<1>1. Types /\ Caller /\ InSection /\ InText
  BY Zenon DEF IInv
<1>2. /\ pc = "region" /\ pc' = "region" /\ l' = l /\ Active /\ r'.ret = r.ret
      /\ Section = r.ret /\ Section' = r.ret /\ First' = First /\ Last' = Last
  BY Zenon DEF Still, Active, Section, Moved, First, Last
<1>3. /\ r'.va = r.va + 1 /\ r'.va_end = r.va_end /\ r'.pt_now = p /\ r'.new_pt = q /\ p # NULL
  BY Zenon DEF Moved
<1>4. r.va \in Nat /\ r.va_end \in Nat /\ di \in Slots /\ (NoTable => ~PAGE_ENTRY_SET(At(mem, d, di)))
      /\ (~NoTable => PAGE_ENTRY_SET(At(mem, d, di)))
  BY Zenon DEF AtPage, Regions
<1>5. /\ \A i \in Slots : At(mem', d, i) = At(mem, d, i) \/ (NoTable /\ i = di)
      /\ PAGE_ENTRY_SET(At(mem', d, di))
  BY Zenon DEF Moved
<1>6. CASE r.ret \notin {"text", "data"}
  BY Zenon, <1>2, <1>6 DEF InSection, InText
<1>7. CASE r.ret \in {"text", "data"}
  <2>1. l \in Loads /\ l.hdr \in Headers
    BY Zenon, <1>1, <1>2, <1>7 DEF Caller, Types, Loads
  <2>2. First \in Nat /\ Last \in Nat
    BY Zenon, <2>1, HeaderFacts, LastPages DEF First, Last
  <2>3. /\ r.va_end = Last /\ r.va \in First .. Last + 1
        /\ \A x \in First .. r.va - 1 : InTable(x)
    BY Zenon, <1>1, <1>2, <1>7 DEF InSection
  <2>4. r.va + 1 \in First .. Last + 1 /\ r.va # First - 1 /\ r.va + 1 # First
    BY <1>4, <2>2, <2>3
  <2>5. \A x \in First .. Last : PAGE_DIR_INDEX(x) \in 0 .. KDIR - 1 /\ x \in Nat
    <3> SUFFICES ASSUME NEW x \in First .. Last
                 PROVE  PAGE_DIR_INDEX(x) \in 0 .. KDIR - 1 /\ x \in Nat
      BY Zenon
    <3>1. x \in Nat /\ x <= Last
      BY <2>2
    <3> QED
      BY Zenon, <2>1, <3>1, HeaderFacts DEF Last
  <2>6. 0 .. KDIR - 1 \subseteq Slots
    BY Zenon, Constants
  <2>7. \A x \in First .. r.va : PAGE_ENTRY_SET(At(mem', d, PAGE_DIR_INDEX(x)))
    <3> SUFFICES ASSUME NEW x \in First .. r.va
                 PROVE  PAGE_ENTRY_SET(At(mem', d, PAGE_DIR_INDEX(x)))
      BY Zenon
    <3>1. CASE x = r.va
      BY Zenon, <1>5, <3>1 DEF di
    <3>2. CASE x # r.va
      <4>1. x \in First .. r.va - 1 /\ x \in First .. Last
        BY <1>4, <2>2, <2>3, <3>2
      <4>2. PAGE_ENTRY_SET(At(mem, d, PAGE_DIR_INDEX(x))) /\ PAGE_DIR_INDEX(x) \in Slots
        BY Zenon, <2>3, <2>5, <2>6, <4>1 DEF InTable
      <4> QED
        BY Zenon, <1>4, <1>5, <4>2
    <3> QED
      BY Zenon, <3>1, <3>2
  <2>8. r'.va - 1 = r.va /\ r'.va - 2 = r.va - 1
    BY <1>3, <1>4
  <2>9. InSection'
    BY Zenon, <1>2, <1>3, <2>3, <2>4, <2>7, <2>8 DEF InSection, InTable
  <2>10. CASE r.ret = "data"
    BY Zenon, <1>2, <2>9, <2>10 DEF InText
  <2>11. CASE r.ret = "text"
    <3>1. /\ l.k = 0
          /\ r.pt_now = NULL <=> r.va = First
          /\ \A i \in 0 .. KDIR - 1 : PAGE_ENTRY_SET(At(mem, d, i)) =>
               r.va # First /\ i <= PAGE_DIR_INDEX(r.va - 1)
          /\ r.va # First => Maps(mem, r.pt_now, TableOf(mem, d, r.va - 1))
      BY Zenon, <1>1, <1>2, <2>11 DEF InText
    <3>2. di \in 0 .. KDIR - 1 /\ di = PAGE_DIR_INDEX(r.va)
      <4>1. r.va \in First .. Last
        BY <1>4, <2>2, <2>3
      <4> QED
        BY Zenon, <2>5, <4>1 DEF di
    <3>3. r.va # First => /\ PAGE_DIR_INDEX(r.va - 1) <= di /\ PAGE_DIR_INDEX(r.va - 1) \in 0 .. KDIR - 1
                          /\ r.va + 1 >= First + 2
      <4> SUFFICES ASSUME r.va # First
                   PROVE  /\ PAGE_DIR_INDEX(r.va - 1) <= di /\ PAGE_DIR_INDEX(r.va - 1) \in 0 .. KDIR - 1
                          /\ r.va + 1 >= First + 2
        BY Zenon
      <4>1. r.va - 1 \in First .. Last /\ r.va - 1 \in Nat /\ r.va - 1 <= r.va /\ r.va + 1 >= First + 2
        BY <1>4, <2>2, <2>3
      <4>2. PAGE_DIR_INDEX(r.va - 1) <= PAGE_DIR_INDEX(r.va)
        BY Zenon, <1>4, <4>1, IndexGrows
      <4> QED
        BY Zenon, <2>5, <3>2, <4>1, <4>2
    <3>4. \A i \in 0 .. KDIR - 1 : PAGE_ENTRY_SET(At(mem', d, i)) => i <= di
      <4> SUFFICES ASSUME NEW i \in 0 .. KDIR - 1, PAGE_ENTRY_SET(At(mem', d, i))
                   PROVE  i <= di
        BY Zenon
      <4>1. CASE i = di
        BY <3>2, <4>1
      <4>2. CASE i # di
        <5>1. PAGE_ENTRY_SET(At(mem, d, i))
          BY Zenon, <1>5, <2>6, <4>2
        <5>2. r.va # First /\ i <= PAGE_DIR_INDEX(r.va - 1)
          BY Zenon, <3>1, <5>1
        <5> QED
          BY <3>2, <3>3, <5>2
      <4> QED
        BY Zenon, <4>1, <4>2
    <3>5. ~NoTable => r.va # First /\ PAGE_DIR_INDEX(r.va - 1) = di
      <4> SUFFICES ASSUME ~NoTable
                   PROVE  r.va # First /\ PAGE_DIR_INDEX(r.va - 1) = di
        BY Zenon
      <4>1. r.va # First /\ di <= PAGE_DIR_INDEX(r.va - 1)
        BY Zenon, <1>4, <3>1, <3>2
      <4> QED
        BY <3>2, <3>3, <4>1
    <3>6. Maps(mem', p, TableOf(mem', d, r.va))
      <4>1. CASE TableNow(mem', p)
        BY Zenon, <4>1 DEF TableNow, TableOf, At, Phy, di
      <4>2. CASE ~TableNow(mem', p)
        <5>1. /\ ~NoTable /\ p = r.pt_now
              /\ \A f : Maps(mem, p, f) => Maps(mem', p, f)
          BY Zenon, <4>2 DEF Moved
        <5>2. Maps(mem, p, Phy(At(mem, d, di)))
          BY Zenon, <3>1, <3>5, <5>1 DEF TableOf, At, Phy
        <5>3. At(mem', d, di) = At(mem, d, di)
          BY Zenon, <1>4, <1>5, <5>1
        <5> QED
          BY Zenon, <3>2, <5>1, <5>2, <5>3 DEF TableOf, At, Phy
      <4> QED
        BY Zenon, <4>1, <4>2
    <3>7. q = NULL => ~NoTable
      BY Zenon, <1>3 DEF Moved
    <3>8. q = NULL => r.va + 1 >= First + 2 /\ PAGE_DIR_INDEX(r.va - 1) = PAGE_DIR_INDEX(r.va)
      BY Zenon, <3>2, <3>3, <3>5, <3>7
    <3>9. InText'
      BY Zenon, <1>2, <1>3, <2>4, <2>8, <3>1, <3>2, <3>4, <3>6, <3>8 DEF InText
    <3> QED
      BY Zenon, <2>9, <3>9
  <2> QED
    BY Zenon, <1>7, <2>10, <2>11
<1> QED
  BY Zenon, <1>6, <1>7

\* A page of a region.
LEMMA MapPageIInv ==
  ASSUME SetFacts, IInv, MapPage
  PROVE  IInv'
<1>1. Types /\ pc = "region" /\ r.va <= r.va_end /\ Still
  BY Zenon DEF IInv, MapPage, Still
<1>2. AtPage
  BY Zenon, <1>1, AtPageHolds
<1>3. PICK p, q : Moved(p, q)
  BY Zenon, <1>1, <1>2, MapPageMoves
<1>4. /\ Types' /\ Tree' /\ Caller' /\ Loader' /\ Stack0' /\ Locals' /\ CountRegion' /\ Counts'
  BY Zenon, <1>1, <1>2, <1>3, MovedTables
<1>5. Fresh' /\ InKstack' /\ InUstack'
  BY Zenon, <1>1, <1>2, <1>3, MovedStacks
<1>6. InSection' /\ InText'
  BY Zenon, <1>1, <1>2, <1>3, MovedSections
<1> QED
  BY Zenon, <1>4, <1>5, <1>6 DEF IInv


\* The state init_pg_dir0_vmap leaves.
LEMMA BootEntries ==
  /\ Boot \in Mem
  /\ \A i \in Slots : At(Boot, PG_DIR0, i) = CASE i = 0 -> To(LOW_PT, "krn")
                                               [] i = KDIR -> To(KERNEL_PT, "krn")
                                               [] i = SYS -> To(SYS0, "krn")
                                               [] i = REV -> To(REV0, "krn")
                                               [] OTHER -> Unset
  /\ \A i \in Slots : At(Boot, REV0, i) = At(Boot, PG_DIR0, i) /\ At(Boot, LOW_PT, i) = Unset
  /\ \A i \in Slots : PAGE_ENTRY_SET(At(Boot, SYS0, i)) => i = W - 1
<1> DEFINE own == [Zeroed EXCEPT ![0] = To(LOW_PT, "krn"), ![KDIR] = To(KERNEL_PT, "krn"),
                                 ![SYS] = To(SYS0, "krn"), ![REV] = To(REV0, "krn")]
           sys == [Zeroed EXCEPT ![W - 1] = To(PG_DIR0, "krn")]
<1>1. /\ {0, KDIR, SYS, REV, W - 1} \subseteq Slots /\ 0 # KDIR /\ 0 # SYS /\ 0 # REV /\ KDIR # SYS
      /\ KDIR # REV /\ SYS # REV
      /\ {PG_DIR0, REV0, SYS0, KERNEL_PT, LOW_PT} \subseteq 1 .. NFRAMES
      /\ SYS0 \notin {PG_DIR0, REV0} /\ LOW_PT \notin {PG_DIR0, REV0, SYS0}
  BY Constants
<1>2. \A f \in 1 .. NFRAMES : To(f, "krn") \in Entry
  BY Constants DEF To, Entry
<1>3. Unset \in Entry /\ ~PAGE_ENTRY_SET(Unset)
  BY Constants DEF Unset, Entry, PAGE_ENTRY_SET
<1>4. Zeroed \in [Slots -> Entry] /\ \A i \in Slots : Zeroed[i] = Unset
  BY Zenon, <1>3 DEF Zeroed
<1>5. own \in [Slots -> Entry] /\ sys \in [Slots -> Entry]
  BY Zenon, <1>1, <1>2, <1>4
<1>6. \A i \in Slots : own[i] = CASE i = 0 -> To(LOW_PT, "krn")
                                  [] i = KDIR -> To(KERNEL_PT, "krn")
                                  [] i = SYS -> To(SYS0, "krn")
                                  [] i = REV -> To(REV0, "krn")
                                  [] OTHER -> Unset
  BY Zenon, <1>1, <1>4
<1>7. \A i \in Slots : PAGE_ENTRY_SET(sys[i]) => i = W - 1
  BY Zenon, <1>1, <1>3, <1>4
<1>8. Boot = [f \in 1 .. NFRAMES |-> IF f \in {PG_DIR0, REV0} THEN own
                                    ELSE IF f = SYS0 THEN sys ELSE Zeroed]
  BY Zenon DEF Boot
<1> HIDE DEF own, sys
<1>9. Boot \in Mem
  BY Zenon, <1>4, <1>5, <1>8 DEF Mem
<1>10. Boot[PG_DIR0] = own /\ Boot[REV0] = own /\ Boot[SYS0] = sys /\ Boot[LOW_PT] = Zeroed
  BY Zenon, <1>1, <1>8
<1> QED
  BY Zenon, <1>4, <1>6, <1>7, <1>9, <1>10 DEF At

LEMMA BootTree == TreeIs(Boot, {}, {PG_DIR0})
<1> DEFINE m == Boot
           T == {0, KDIR, SYS, REV}
<1>1. /\ {0, KDIR, KST, SYS, REV} \subseteq Slots /\ 0 # KDIR /\ 0 # SYS /\ 0 # REV /\ KDIR # SYS
      /\ KDIR # REV /\ SYS # REV /\ KST \notin T
      /\ \A i \in T : i < KDIR => i = 0
  BY Constants
<1>2. PG_DIR0 = 1 /\ REV0 = 2 /\ SYS0 = 3 /\ KERNEL_PT = 4 /\ LOW_PT = 5
  BY Zenon, Constants
<1>3. /\ \A i \in Slots : PAGE_ENTRY_SET(At(m, PG_DIR0, i)) <=> i \in T
      /\ Phy(At(m, PG_DIR0, 0)) = LOW_PT /\ Phy(At(m, PG_DIR0, KDIR)) = KERNEL_PT
      /\ Phy(At(m, PG_DIR0, SYS)) = SYS0 /\ Phy(At(m, PG_DIR0, REV)) = REV0
  BY <1>1, BootEntries DEF To, Unset, PAGE_ENTRY_SET, Phy
<1>4. \A i \in Slots : At(m, REV0, i) = At(m, PG_DIR0, i) /\ ~PAGE_ENTRY_SET(At(m, LOW_PT, i))
  BY BootEntries DEF Unset, PAGE_ENTRY_SET
<1> HIDE DEF m
<1>5. \A i, j \in Slots : ~HasPage(m, PG_DIR0, i, j)
  BY Zenon, <1>1, <1>3, <1>4 DEF HasPage, Paged, Page
<1>6. DirsUsed({}, {PG_DIR0}) /\ Covered(m, {}, {PG_DIR0})
  BY Zenon DEF DirsUsed, Covered
<1>7. TablesUsed(m, {}, {PG_DIR0})
  BY <1>2, <1>3 DEF TablesUsed, Own
<1>8. TablesApart(m, {PG_DIR0})
  BY <1>2, <1>3 DEF TablesApart, Own
<1>9. PagesUsed(m, {}, {PG_DIR0}) /\ PagesApart(m, {PG_DIR0})
  BY Zenon, <1>5 DEF PagesUsed, PagesApart
<1>10. Linked0(m, {PG_DIR0})
  BY Zenon, <1>1, <1>3 DEF Linked0
<1>11. Reversed(m, {PG_DIR0})
  <2>1. (0 .. KDIR - 1) \cup {SYS, REV} \subseteq Slots
    BY Zenon, Constants
  <2> QED
    BY Zenon, <1>3, <1>4, <2>1 DEF Reversed
<1> QED
  BY Zenon, <1>6, <1>7, <1>8, <1>9, <1>10, <1>11 DEF TreeIs, m

LEMMA InitIInv ==
  ASSUME SetFacts, Init
  PROVE  IInv
<1>1. /\ mem = Boot /\ busy = {} /\ image = [f \in 1 .. NFRAMES |-> <<>>] /\ pc = "boot"
      /\ l.phy_dir = PG_DIR0 /\ tasks = <<>> /\ Booting /\ ~Active
  BY Zenon DEF Init, Booting, Active
<1>2. Dirs = {PG_DIR0}
  BY <1>1 DEF Dirs
<1>3. Tree
  BY Zenon, <1>1, <1>2, BootTree DEF Tree
<1>4. Types
  <2>1. tasks \in Seq(Tasks) /\ Len(tasks) = 0 /\ LOADS \in Nat /\ PG_DIR0 \in 1 .. NFRAMES
    BY <1>1, Constants
  <2>2. mem \in Mem /\ image \in [1 .. NFRAMES -> {<<>>} \cup Nat \X Nat]
    BY Zenon, <1>1, BootEntries
  <2> QED
    BY <1>1, <2>1, <2>2 DEF Types
<1>5. Count(mem) <= 1
  <2>1. Used(mem) \subseteq {W - 1}
    BY Zenon, <1>1, BootEntries DEF Used
  <2>2. IsFiniteSet({W - 1}) /\ Cardinality({W - 1}) = 1
    <3> DEFINE x == W - 1
    <3>1. {x} = x .. x /\ x \in Nat /\ x <= x /\ x - x + 1 = 1
      BY Constants
    <3> HIDE DEF x
    <3>2. IsFiniteSet(x .. x) /\ Cardinality(x .. x) = x - x + 1
      BY Zenon, <3>1 DEF SetFacts
    <3> QED
      BY Zenon, <3>1, <3>2 DEF x
  <2>3. Cardinality(Used(mem)) <= Cardinality({W - 1})
    BY Zenon, <2>1, <2>2 DEF SetFacts
  <2> QED
    BY Zenon, <2>2, <2>3 DEF Count
<1>6. Caller /\ Loader /\ Stack0 /\ Fresh /\ Locals /\ InKstack /\ InUstack /\ InSection /\ InText
  BY Zenon, <1>1 DEF Caller, Loader, Stack0, Fresh, Locals, InKstack, InUstack, InSection, InText
<1>7. CountRegion /\ Counts
  BY Zenon, <1>1, <1>5 DEF CountRegion, Counts
<1> QED
  BY Zenon, <1>3, <1>4, <1>6, <1>7 DEF IInv

LEMMA NextIInv ==
  ASSUME SetFacts, IInv, [Next]_vars
  PROVE  IInv'
<1>1. CASE init_task0
  BY Zenon, <1>1, InitTask0IInv
<1>2. ASSUME NEW h \in Headers, load_task(h)
      PROVE  IInv'
  BY Zenon, <1>2, LoadTaskIInv
<1>3. CASE MapPage
  BY Zenon, <1>3, MapPageIInv
<1>4. CASE RegionEnd
  BY Zenon, <1>4, RegionEndIInv
<1>5. CASE OutOfFrames \/ (\E i \in 2 .. Len(tasks) : terminate_process(i)) \/ Over \/ UNCHANGED vars
  BY Zenon, <1>5, OverIInv DEF Over
<1>6. CASE alloc_kstack_and_task
  BY Zenon, <1>6, KstackIInv
<1>7. CASE CopyText \/ CopyData
  BY Zenon, <1>7, CopyIInv
<1>8. CASE ThenData \/ ThenStack
  BY Zenon, <1>8, NextSection
<1>9. CASE Loaded
  BY Zenon, <1>9, LoadedIInv
<1> QED
  BY Zenon, <1>1, <1>2, <1>3, <1>4, <1>5, <1>6, <1>7, <1>8, <1>9 DEF Next

\* What the frames are used for.
LEMMA UsesAre ==
  ASSUME NEW d
  PROVE  \A u : u \in Uses(d) <=>
           \/ u = <<"dir", d, 0, 0, d>>
           \/ \E i \in Slots : Own(mem, d, i) /\ u = <<"table", d, i, 0, Phy(At(mem, d, i))>>
           \/ \E i, j \in Slots : HasPage(mem, d, i, j) /\ u = <<"page", d, i, j, Phy(Page(mem, d, i, j))>>
<1> SUFFICES ASSUME NEW u
             PROVE  u \in Uses(d) <=>
                      \/ u = <<"dir", d, 0, 0, d>>
                      \/ \E i \in Slots : Own(mem, d, i) /\ u = <<"table", d, i, 0, Phy(At(mem, d, i))>>
                      \/ \E i, j \in Slots : HasPage(mem, d, i, j) /\ u = <<"page", d, i, j, Phy(Page(mem, d, i, j))>>
  BY Zenon
<1> DEFINE A == {<<"table", d, i, 0, mem[d][i].f>> :
                   i \in {i \in Slots : PAGE_ENTRY_SET(mem[d][i]) /\ (i < KDIR \/ i > KST \/ d = PG_DIR0)}}
           B(i) == {<<"page", d, i, j, mem[mem[d][i].f][j].f>> :
                      j \in {j \in Slots : PAGE_ENTRY_SET(mem[mem[d][i].f][j])}}
           I == {i \in Slots : PAGE_ENTRY_SET(mem[d][i]) /\ (i < KDIR \/ (i = KST /\ d = PG_DIR0))}
<1>1. Uses(d) = {<<"dir", d, 0, 0, d>>} \cup A \cup UNION {B(i) : i \in I}
  BY Zenon DEF Uses
<1>2. u \in A <=> \E i \in Slots : Own(mem, d, i) /\ u = <<"table", d, i, 0, Phy(At(mem, d, i))>>
  BY Zenon DEF Own, At, Phy
<1>3. \A i : i \in I <=> i \in Slots /\ Paged(mem, d, i)
  BY Zenon DEF Paged, At
<1>4. \A i : u \in B(i) <=> \E j \in Slots : PAGE_ENTRY_SET(Page(mem, d, i, j))
                                              /\ u = <<"page", d, i, j, Phy(Page(mem, d, i, j))>>
  BY Zenon DEF Page, At, Phy
<1> HIDE DEF A, B, I
<1>5. u \in UNION {B(i) : i \in I} <=> \E i \in I : u \in B(i)
  BY Zenon
<1>6. u \in UNION {B(i) : i \in I} <=>
        \E i, j \in Slots : HasPage(mem, d, i, j) /\ u = <<"page", d, i, j, Phy(Page(mem, d, i, j))>>
  BY <1>3, <1>4, <1>5, Zenon DEF HasPage
<1> QED
  BY <1>1, <1>2, <1>6, Zenon

\* No two uses of a frame.
LEMMA OneUse ==
  ASSUME SetFacts, Types, Tree, NEW d \in Dirs, NEW e \in Dirs, NEW u \in Uses(d), NEW v \in Uses(e), u[5] = v[5]
  PROVE  u = v
<1>1. mem \in Mem /\ busy \in SUBSET (USER_P_START .. NFRAMES) /\ TreeIs(mem, busy, Dirs)
  BY Zenon, Here
<1>2. /\ \A x \in Dirs, i \in Slots : Own(mem, x, i) => Phy(At(mem, x, i)) \notin Dirs
      /\ \A x, y \in Dirs, i, k \in Slots :
           Own(mem, x, i) /\ Own(mem, y, k) /\ Phy(At(mem, x, i)) = Phy(At(mem, y, k)) => x = y /\ i = k
  BY Zenon, <1>1 DEF TreeIs, TablesUsed, TablesApart
<1>3. /\ \A x \in Dirs, i, j \in Slots : HasPage(mem, x, i, j) =>
           /\ Phy(Page(mem, x, i, j)) \notin Dirs
           /\ \A y \in Dirs, k \in Slots : Own(mem, y, k) => Phy(At(mem, y, k)) # Phy(Page(mem, x, i, j))
      /\ \A x, y \in Dirs, i, j, k, z \in Slots :
           HasPage(mem, x, i, j) /\ HasPage(mem, y, k, z) /\ Phy(Page(mem, x, i, j)) = Phy(Page(mem, y, k, z))
             => x = y /\ i = k /\ j = z
  BY Zenon, <1>1 DEF TreeIs, PagesUsed, PagesApart
<1>4. CASE u = <<"dir", d, 0, 0, d>>
  <2>1. u[5] = d
    BY Zenon, <1>4
  <2>2. v = <<"dir", e, 0, 0, e>>
    <3>1. ASSUME NEW i \in Slots, Own(mem, e, i), v = <<"table", e, i, 0, Phy(At(mem, e, i))>>
          PROVE  FALSE
      <4>1. d = Phy(At(mem, e, i))
        BY Zenon, <2>1, <3>1
      <4>2. d \notin Dirs
        BY <1>2, <3>1, <4>1, Zenon
      <4> QED
        BY Zenon, <4>2
    <3>2. ASSUME NEW i \in Slots, NEW j \in Slots, HasPage(mem, e, i, j),
                 v = <<"page", e, i, j, Phy(Page(mem, e, i, j))>>
          PROVE  FALSE
      <4>1. d = Phy(Page(mem, e, i, j))
        BY Zenon, <2>1, <3>2
      <4>2. d \notin Dirs
        BY <1>3, <3>2, <4>1, Zenon
      <4> QED
        BY Zenon, <4>2
    <3> QED
      BY <3>1, <3>2, UsesAre, Zenon
  <2>3. v[5] = e
    BY Zenon, <2>2
  <2> QED
    BY Zenon, <1>4, <2>1, <2>2, <2>3
<1>5. ASSUME NEW i \in Slots, Own(mem, d, i), u = <<"table", d, i, 0, Phy(At(mem, d, i))>>
      PROVE  u = v
  <2>1. u[5] = Phy(At(mem, d, i))
    BY Zenon, <1>5
  <2>2. v # <<"dir", e, 0, 0, e>>
    <3> SUFFICES ASSUME v = <<"dir", e, 0, 0, e>>
                 PROVE  FALSE
      BY Zenon
    <3>1. v[5] = e
      BY Zenon
    <3> QED
      BY <1>2, <1>5, <2>1, <3>1
  <2>3. ASSUME NEW k \in Slots, NEW j \in Slots, HasPage(mem, e, k, j),
               v = <<"page", e, k, j, Phy(Page(mem, e, k, j))>>
        PROVE  FALSE
    <3>1. v[5] = Phy(Page(mem, e, k, j))
      BY Zenon, <2>3
    <3> QED
      BY <1>3, <1>5, <2>1, <2>3, <3>1
  <2>4. PICK k \in Slots : Own(mem, e, k) /\ v = <<"table", e, k, 0, Phy(At(mem, e, k))>>
    BY <2>2, <2>3, UsesAre, Zenon
  <2>5. v[5] = Phy(At(mem, e, k))
    BY Zenon, <2>4
  <2>6. d = e /\ i = k
    BY Zenon, <1>2, <1>5, <2>1, <2>4, <2>5
  <2> QED
    BY Zenon, <1>5, <2>4, <2>6
<1>6. ASSUME NEW i \in Slots, NEW j \in Slots, HasPage(mem, d, i, j),
             u = <<"page", d, i, j, Phy(Page(mem, d, i, j))>>
      PROVE  u = v
  <2>1. u[5] = Phy(Page(mem, d, i, j))
    BY Zenon, <1>6
  <2>2. v # <<"dir", e, 0, 0, e>>
    <3> SUFFICES ASSUME v = <<"dir", e, 0, 0, e>>
                 PROVE  FALSE
      BY Zenon
    <3>1. v[5] = e
      BY Zenon
    <3> QED
      BY <1>3, <1>6, <2>1, <3>1
  <2>3. ASSUME NEW k \in Slots, Own(mem, e, k), v = <<"table", e, k, 0, Phy(At(mem, e, k))>>
        PROVE  FALSE
    <3>1. v[5] = Phy(At(mem, e, k))
      BY Zenon, <2>3
    <3> QED
      BY <1>3, <1>6, <2>1, <2>3, <3>1
  <2>4. PICK k \in Slots, z \in Slots :
          HasPage(mem, e, k, z) /\ v = <<"page", e, k, z, Phy(Page(mem, e, k, z))>>
    BY <2>2, <2>3, UsesAre, Zenon
  <2>5. v[5] = Phy(Page(mem, e, k, z))
    BY Zenon, <2>4
  <2>6. d = e /\ i = k /\ j = z
    BY <1>3, <1>6, <2>1, <2>4, <2>5
  <2> QED
    BY Zenon, <1>6, <2>4, <2>6
<1> QED
  BY <1>4, <1>5, <1>6, UsesAre, Zenon

\* A frame of an address space was handed out, or is one of the kernel's.
LEMMA UsesBusy ==
  ASSUME SetFacts, Types, Tree, NEW d \in Dirs, NEW u \in Uses(d)
  PROVE  u[5] \in busy \/ u[5] < USER_P_START
<1>1. DirsUsed(busy, Dirs) /\ TablesUsed(mem, busy, Dirs) /\ PagesUsed(mem, busy, Dirs)
  BY Zenon, Here DEF TreeIs
<1>2. PG_DIR0 < USER_P_START /\ \A x \in 1 .. 5 : x < USER_P_START
  BY Constants
<1>3. CASE u = <<"dir", d, 0, 0, d>>
  <2>1. u[5] = d
    BY Zenon, <1>3
  <2> QED
    BY Zenon, <1>1, <1>2, <2>1 DEF DirsUsed
<1>4. ASSUME NEW i \in Slots, Own(mem, d, i), u = <<"table", d, i, 0, Phy(At(mem, d, i))>>
      PROVE  u[5] \in busy \/ u[5] < USER_P_START
  <2>1. u[5] = Phy(At(mem, d, i))
    BY Zenon, <1>4
  <2> QED
    BY Zenon, <1>1, <1>2, <1>4, <2>1 DEF TablesUsed
<1>5. ASSUME NEW i \in Slots, NEW j \in Slots, HasPage(mem, d, i, j),
             u = <<"page", d, i, j, Phy(Page(mem, d, i, j))>>
      PROVE  u[5] \in busy \/ u[5] < USER_P_START
  <2>1. u[5] = Phy(Page(mem, d, i, j))
    BY Zenon, <1>5
  <2> QED
    BY Zenon, <1>1, <1>5, <2>1 DEF PagesUsed
<1> QED
  BY <1>3, <1>4, <1>5, UsesAre, Zenon

\* The invariant says what the properties say.
LEMMA Exclusive == ASSUME SetFacts, IInv PROVE FramesExclusive
<1> DEFINE all == UNION {Uses(d) : d \in Dirs}
<1>1. Types /\ Tree
  BY Zenon DEF IInv
<1>2. \A u \in all : \E d \in Dirs : u \in Uses(d)
  BY Zenon
<1> HIDE DEF all
<1>3. \A u, v \in all : u[5] = v[5] => u = v
  <2> SUFFICES ASSUME NEW u \in all, NEW v \in all, u[5] = v[5]
               PROVE  u = v
    BY Zenon
  <2>1. PICK d \in Dirs, e \in Dirs : u \in Uses(d) /\ v \in Uses(e)
    BY Zenon, <1>2
  <2> QED
    BY Zenon, <1>1, <2>1, OneUse
<1>4. \A u \in all : u[5] \in busy \/ u[5] < USER_P_START
  <2> SUFFICES ASSUME NEW u \in all
               PROVE  u[5] \in busy \/ u[5] < USER_P_START
    BY Zenon
  <2>1. PICK d \in Dirs : u \in Uses(d)
    BY Zenon, <1>2
  <2> QED
    BY Zenon, <1>1, <2>1, UsesBusy
<1> QED
  BY Zenon, <1>3, <1>4 DEF FramesExclusive, all

LEMMA Sound == ASSUME IInv PROVE TablesSound
<1>1. Types /\ TreeIs(mem, busy, Dirs)
  BY Zenon DEF IInv, Tree
<1>2. TypeOK
  BY Zenon, <1>1 DEF Types, TypeOK, Mem
<1>3. ASSUME NEW d \in Dirs
      PROVE  /\ \A i \in KDIR .. KST : mem[d][i] = mem[PG_DIR0][i]
             /\ \A i \in (0 .. KDIR - 1) \cup {SYS, REV} : mem[mem[d][REV].f][i].f = mem[d][i].f
  BY Zenon, <1>1 DEF TreeIs, Linked0, Reversed, At, Phy
<1> QED
  BY Zenon, <1>2, <1>3 DEF TablesSound

LEMMA Live == ASSUME IInv PROVE MappingsLive
<1>1. Caller /\ Locals
  BY Zenon DEF IInv
<1>2. Active => Deref(mem, r.dir) = l.phy_dir
  BY Zenon, <1>1 DEF Caller, Maps, Deref, At, Phy
<1>3. pc = "region" => Deref(mem, r.rev_tb) = mem[l.phy_dir][REV].f
  BY Zenon, <1>1 DEF Locals, Maps, Deref, At, Phy
<1>4. ASSUME pc = "region", r.pt_now # NULL
      PROVE  \E i \in Slots : PAGE_ENTRY_SET(mem[l.phy_dir][i]) /\ mem[l.phy_dir][i].f = Deref(mem, r.pt_now)
  <2>1. (0 .. KDIR - 1) \cup {KST} \subseteq Slots
    BY Zenon, Constants
  <2>2. PICK i \in (0 .. KDIR - 1) \cup {KST} :
          PAGE_ENTRY_SET(At(mem, l.phy_dir, i)) /\ Maps(mem, r.pt_now, Phy(At(mem, l.phy_dir, i)))
    BY Zenon, <1>1, <1>4 DEF Locals
  <2> QED
    BY Zenon, <2>1, <2>2 DEF Maps, Deref, At, Phy
<1> QED
  BY Zenon, <1>2, <1>3, <1>4 DEF MappingsLive, Active

LEMMA Bounded == ASSUME IInv PROVE TempsBounded
BY Zenon DEF IInv, Counts, Count, Used, At, TempsBounded

LEMMA LoseNothing == ASSUME IInv PROVE LoadsLoseNothing
<1> SUFFICES ASSUME pc = "idle", Present = 1 .. Len(tasks), NEW f \in busy
             PROVE  f \in InUse
  BY Zenon DEF LoadsLoseNothing
<1>1. Types /\ TreeIs(mem, busy, Dirs)
  BY Zenon DEF IInv, Tree
<1>2. \A d \in Dirs : \E i \in Present : tasks[i].phy_dir = d
  <2>1. /\ tasks \in Seq(Tasks) /\ tasks # <<>> /\ tasks[1].phy_dir = PG_DIR0
        /\ \E i \in 1 .. Len(tasks) : tasks[i].phy_dir = l.phy_dir
    BY Zenon, <1>1 DEF Types
  <2>2. 1 \in 1 .. Len(tasks)
    BY <2>1
  <2> QED
    BY Zenon, <2>1, <2>2 DEF Dirs
<1>3. \E d \in Dirs : \E u \in Uses(d) : u[5] = f
  <2>1. CASE f \in Dirs
    <3>1. <<"dir", f, 0, 0, f>> \in Uses(f)
      BY UsesAre, Zenon
    <3>2. <<"dir", f, 0, 0, f>>[5] = f
      BY Zenon
    <3> QED
      BY <2>1, <3>1, <3>2, Zenon
  <2>2. ASSUME NEW d \in Dirs, NEW i \in Slots, Own(mem, d, i), Phy(At(mem, d, i)) = f
        PROVE  \E u \in Uses(d) : u[5] = f
    <3>1. <<"table", d, i, 0, Phy(At(mem, d, i))>> \in Uses(d)
      BY <2>2, UsesAre, Zenon
    <3>2. <<"table", d, i, 0, Phy(At(mem, d, i))>>[5] = Phy(At(mem, d, i))
      BY Zenon
    <3> QED
      BY <2>2, <3>1, <3>2, Zenon
  <2>3. ASSUME NEW d \in Dirs, NEW i \in Slots, NEW j \in Slots, HasPage(mem, d, i, j),
               Phy(Page(mem, d, i, j)) = f
        PROVE  \E u \in Uses(d) : u[5] = f
    <3>1. <<"page", d, i, j, Phy(Page(mem, d, i, j))>> \in Uses(d)
      BY <2>3, UsesAre, Zenon
    <3>2. <<"page", d, i, j, Phy(Page(mem, d, i, j))>>[5] = Phy(Page(mem, d, i, j))
      BY Zenon
    <3> QED
      BY <2>3, <3>1, <3>2, Zenon
  <2>4. Covered(mem, busy, Dirs)
    BY Zenon, <1>1 DEF TreeIs
  <2> QED
    BY <2>1, <2>2, <2>3, <2>4, Zenon DEF Covered
<1>4. PICK d \in Dirs : \E u \in Uses(d) : u[5] = f
  BY Zenon, <1>3
<1>5. PICK u \in Uses(d) : u[5] = f
  BY Zenon, <1>4
<1>6. PICK i \in Present : tasks[i].phy_dir = d
  BY Zenon, <1>2
<1>7. u \in UNION {Uses(tasks[k].phy_dir) : k \in Present}
  BY <1>6, Zenon
<1> QED
  BY <1>5, <1>7, Zenon DEF InUse

-----------------------------------------------------------------------------
(* Theorems. *)

INSTANCE FiniteSetTheorems
INSTANCE WellFoundedInduction

LEMMA SetFactsHold == SetFacts
<1>1. ASSUME NEW S \in SUBSET Nat, S # {}
      PROVE  \E x \in S : \A y \in S : x <= y
  <2>1. PICK x \in S : \A y \in S : ~(<<y, x>> \in OpToRel(<, Nat))
    BY Zenon, <1>1, WFMin, NatLessThanWellFounded
  <2>2. ASSUME NEW y \in S
        PROVE  x <= y
    <3>1. <<y, x>> \in Nat \X Nat /\ <<y, x>>[1] = y /\ <<y, x>>[2] = x
      BY Zenon
    <3>2. y < x => <<y, x>> \in OpToRel(<, Nat)
      BY Zenon, <3>1 DEF OpToRel
    <3>3. ~(y < x)
      BY Zenon, <2>1, <3>2
    <3> QED
      BY <3>3
  <2> QED
    BY Zenon, <2>2
<1>2. \A i, j \in Nat : IsFiniteSet(i .. j) /\ (i <= j => Cardinality(i .. j) = j - i + 1)
  BY FS_Interval
<1>3. \A S : IsFiniteSet(S) => Cardinality(S) \in Nat /\ (Cardinality(S) = 0 <=> S = {})
  BY Zenon, FS_CardinalityType, FS_EmptySet
<1>4. \A S, x : IsFiniteSet(S) /\ x \notin S =>
        IsFiniteSet(S \cup {x}) /\ Cardinality(S \cup {x}) = Cardinality(S) + 1
  BY Zenon, FS_AddElement
<1>5. \A S, x : IsFiniteSet(S) =>
        /\ IsFiniteSet(S \ {x})
        /\ Cardinality(S \ {x}) = IF x \in S THEN Cardinality(S) - 1 ELSE Cardinality(S)
  BY Zenon, FS_RemoveElement
<1>6. \A S : IsFiniteSet(S) =>
        \A T \in SUBSET S : IsFiniteSet(T) /\ Cardinality(T) <= Cardinality(S)
  BY Zenon, FS_Subset
<1> QED
  BY Zenon, <1>1, <1>2, <1>3, <1>4, <1>5, <1>6 DEF SetFacts

\* IInv is inductive: it holds when init_pg_dir0_vmap has set up the kernel's address
\* space, and every page request_region_vmap enters, every mapping it makes, keeps or
\* deletes, every program load_task loads preserves it.
THEOREM Inductive == Spec => []IInv
<1>1. Init => IInv
  BY Zenon, SetFactsHold, InitIInv
<1>2. IInv /\ [Next]_vars => IInv'
  BY Zenon, SetFactsHold, NextIInv
<1> QED
  BY <1>1, <1>2, PTL DEF Spec

\* Whatever is loaded, no frame serves two purposes, and every frame in use is marked
\* in the bitmap or is one of the kernel's: however many frames and table entries there
\* are, and wherever below the kernel the programs are linked, also where
\* request_region_vmap enters a page into the wrong table.
THEOREM FramesStayExclusive == Spec => []FramesExclusive
<1>1. IInv => FramesExclusive
  BY Zenon, SetFactsHold, Exclusive
<1> QED
  BY <1>1, Inductive, PTL

\* Every address space has the kernel's directory entries and a reverse table with the
\* tables of its own, at each step of load_task.
THEOREM TablesStaySound == Spec => []TablesSound
<1>1. IInv => TablesSound
  BY Zenon, Sound
<1> QED
  BY <1>1, Inductive, PTL

\* get_phy_from_dir and delete_temp_va never remove a mapping whose pointer is in use.
THEOREM MappingsStayLive == Spec => []MappingsLive
<1>1. IInv => MappingsLive
  BY Zenon, Live
<1> QED
  BY <1>1, Inductive, PTL

\* A program leaves at most two mappings behind, whatever its sections are.
THEOREM TempsStayBounded == Spec => []TempsBounded
<1>1. IInv => TempsBounded
  BY Zenon, Bounded
<1> QED
  BY <1>1, Inductive, PTL

\* Every frame that alloc_frame handed out for a task can be reached from a directory.
THEOREM NothingLost == Spec => []LoadsLoseNothing
<1>1. IInv => LoadsLoseNothing
  BY Zenon, LoseNothing
<1> QED
  BY <1>1, Inductive, PTL

=============================================================================
