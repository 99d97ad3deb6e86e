----------------------------- MODULE HeapProofs -----------------------------
(***************************************************************************)
(* Proofs about Heap, for every heap size, header size and request size.   *)
(***************************************************************************)
EXTENDS Heap, SequenceTheorems, TLAPS

-----------------------------------------------------------------------------
(* The list operations. *)

\* del_free_region drops one element and closes the gap.
LEMMA DelFacts ==
  ASSUME NEW S, NEW s \in Seq(S), NEW i \in 1 .. Len(s)
  PROVE  /\ del_free_region(s, i) \in Seq(S)
         /\ Len(del_free_region(s, i)) = Len(s) - 1
         /\ \A k \in 1 .. Len(s) - 1 :
              del_free_region(s, i)[k] = IF k < i THEN s[k] ELSE s[k + 1]
<1> DEFINE p == SubSeq(s, 1, i - 1)
           q == SubSeq(s, i + 1, Len(s))
<1>1. p \in Seq(S) /\ Len(p) = i - 1 /\ \A k \in 1 .. i - 1 : p[k] = s[k]
  OBVIOUS
<1>2. q \in Seq(S) /\ Len(q) = Len(s) - i /\ \A k \in 1 .. Len(s) - i : q[k] = s[i + k]
  OBVIOUS
<1>3. del_free_region(s, i) = p \o q
  BY DEF del_free_region
<1> HIDE DEF p, q
<1>4. /\ p \o q \in Seq(S)
      /\ Len(p \o q) = Len(p) + Len(q)
      /\ \A k \in 1 .. Len(p) + Len(q) : (p \o q)[k] = IF k <= Len(p) THEN p[k] ELSE q[k - Len(p)]
  BY <1>1, <1>2, ConcatProperties
<1> QED
  BY SMTT(30), <1>1, <1>2, <1>3, <1>4

\* add_free_region opens a gap and fills it.
LEMMA AddFacts ==
  ASSUME NEW S, NEW s \in Seq(S), NEW j \in 1 .. Len(s) + 1, NEW e \in S
  PROVE  /\ add_free_region(s, j, e) \in Seq(S)
         /\ Len(add_free_region(s, j, e)) = Len(s) + 1
         /\ \A k \in 1 .. Len(s) + 1 :
              add_free_region(s, j, e)[k] = IF k < j THEN s[k] ELSE IF k = j THEN e ELSE s[k - 1]
<1> DEFINE p == SubSeq(s, 1, j - 1)
           q == SubSeq(s, j, Len(s))
<1>1. p \in Seq(S) /\ Len(p) = j - 1 /\ \A k \in 1 .. j - 1 : p[k] = s[k]
  OBVIOUS
<1>2. q \in Seq(S) /\ Len(q) = Len(s) - j + 1 /\ \A k \in 1 .. Len(s) - j + 1 : q[k] = s[j + k - 1]
  OBVIOUS
<1> DEFINE pe == p \o <<e>>
<1>3. add_free_region(s, j, e) = pe \o q
  BY DEF add_free_region
<1> HIDE DEF p, q
<1>4. /\ pe \in Seq(S)
      /\ Len(pe) = j
      /\ \A k \in 1 .. j : pe[k] = IF k <= j - 1 THEN p[k] ELSE e
  <2>1. <<e>> \in Seq(S) /\ Len(<<e>>) = 1 /\ <<e>>[1] = e
    OBVIOUS
  <2> QED
    BY <1>1, <2>1, ConcatProperties
<1> HIDE DEF pe
<1>5. /\ pe \o q \in Seq(S)
      /\ Len(pe \o q) = Len(pe) + Len(q)
      /\ \A k \in 1 .. Len(pe) + Len(q) : (pe \o q)[k] = IF k <= Len(pe) THEN pe[k] ELSE q[k - Len(pe)]
  BY <1>2, <1>4, ConcatProperties
<1> QED
  BY <1>1, <1>2, <1>3, <1>4, <1>5

\* Taking a region out of a free list leaves a list of the others.
LEMMA RemoveLists ==
  ASSUME NEW list, NEW R \in SUBSET Addr, NEW sz, Lists(list, R, sz),
         NEW i \in 1 .. Len(list)
  PROVE  Lists(del_free_region(list, i), R \ {list[i]}, sz)
<1> DEFINE new == del_free_region(list, i)
           n == Len(list)
<1>1. list \in Seq(Addr) /\ n \in Nat /\ i \in 1 .. n
  BY DEF Lists
<1>2. new \in Seq(Addr)
  BY <1>1, DelFacts
<1>3. /\ Len(new) = n - 1
      /\ \A k \in 1 .. n - 1 : new[k] = IF k < i THEN list[k] ELSE list[k + 1]
  BY <1>1, DelFacts
<1>4. /\ \A k \in 1 .. n : list[k] \in R
      /\ \A k, l \in 1 .. n : list[k] = list[l] => k = l
      /\ \A a \in R : \E k \in 1 .. n : list[k] = a
      /\ \A k, l \in 1 .. n : k <= l => sz[list[k]] <= sz[list[l]]
  BY DEF Lists
<1>5. n \in Nat /\ i \in 1 .. n
  BY <1>1
<1> HIDE DEF new, n
<1>6. \A k \in 1 .. n - 1 : \E m \in 1 .. n : m # i /\ new[k] = list[m] /\ m = IF k < i THEN k ELSE k + 1
  BY <1>3, <1>5
<1>7. \A k \in 1 .. n - 1 : new[k] \in R \ {list[i]}
  BY <1>4, <1>5, <1>6
<1>8. \A k, l \in 1 .. n - 1 : new[k] = new[l] => k = l
  BY <1>4, <1>5, <1>6
<1>9. \A a \in R \ {list[i]} : \E k \in 1 .. n - 1 : new[k] = a
  <2> SUFFICES ASSUME NEW a \in R \ {list[i]}
               PROVE  \E k \in 1 .. n - 1 : new[k] = a
    OBVIOUS
  <2>1. PICK k \in 1 .. n : list[k] = a
    BY <1>4
  <2>2. CASE k < i
    BY <1>3, <1>5, <2>1, <2>2
  <2>3. CASE k > i
    <3>1. k - 1 \in 1 .. n - 1 /\ new[k - 1] = a
      BY <1>3, <1>5, <2>1, <2>3
    <3> QED
      BY <3>1
  <2> QED
    BY <1>5, <2>1, <2>2, <2>3
<1>10. \A k, l \in 1 .. n - 1 : k <= l => sz[new[k]] <= sz[new[l]]
  <2> SUFFICES ASSUME NEW k \in 1 .. n - 1, NEW l \in 1 .. n - 1, k <= l
               PROVE  sz[new[k]] <= sz[new[l]]
    OBVIOUS
  <2>1. PICK m \in 1 .. n : new[k] = list[m] /\ m = IF k < i THEN k ELSE k + 1
    BY <1>6
  <2>2. PICK p \in 1 .. n : new[l] = list[p] /\ p = IF l < i THEN l ELSE l + 1
    BY <1>6
  <2>3. m <= p
    BY <1>5, <2>1, <2>2
  <2> QED
    BY SMTT(30), <1>4, <2>1, <2>2, <2>3
<1> QED
  BY <1>2, <1>3, <1>7, <1>8, <1>9, <1>10 DEF Lists, new

\* The same for the region that kfree looks up.
LEMMA UnlinkLists ==
  ASSUME NEW list, NEW R \in SUBSET Addr, NEW sz, Lists(list, R, sz), NEW r \in R
  PROVE  Lists(Unlink(list, r), R \ {r}, sz)
<1>1. \E p \in 1 .. Len(list) : list[p] = r
  BY DEF Lists
<1> DEFINE p == CHOOSE p \in 1 .. Len(list) : list[p] = r
<1>2. p \in 1 .. Len(list) /\ list[p] = r
  BY <1>1
<1>3. Unlink(list, r) = del_free_region(list, p)
  BY DEF Unlink
<1> HIDE DEF p
<1>4. Lists(del_free_region(list, p), R \ {list[p]}, sz)
  BY <1>2, RemoveLists
<1> QED
  BY <1>2, <1>3, <1>4

\* Putting a new region where the walk for its size stops keeps the list sorted.
LEMMA InsertLists ==
  ASSUME NEW list, NEW R \in SUBSET Addr, NEW sz \in [Addr -> Int],
         NEW sz2 \in [Addr -> Int],
         Lists(list, R, sz), NEW new \in Addr \ R, NEW j,
         \A a \in R : sz2[a] = sz[a],
         StopsAt(list, sz, sz2[new], j)
  PROVE  Lists(add_free_region(list, j, new), R \cup {new}, sz2)
<1> DEFINE res == add_free_region(list, j, new)
           n == Len(list)
<1>1. list \in Seq(Addr) /\ n \in Nat /\ j \in 1 .. n + 1
  BY DEF Lists, StopsAt
<1>2. res \in Seq(Addr)
  BY <1>1, AddFacts
<1>3. /\ Len(res) = n + 1
      /\ \A k \in 1 .. n + 1 :
           res[k] = IF k < j THEN list[k] ELSE IF k = j THEN new ELSE list[k - 1]
  BY <1>1, AddFacts
<1>4. /\ \A k \in 1 .. n : list[k] \in R
      /\ \A k, l \in 1 .. n : list[k] = list[l] => k = l
      /\ \A a \in R : \E k \in 1 .. n : list[k] = a
      /\ \A k, l \in 1 .. n : k <= l => sz[list[k]] <= sz[list[l]]
  BY DEF Lists
<1>5. /\ \A k \in 1 .. j - 1 : sz[list[k]] < sz2[new]
      /\ j <= n => sz[list[j]] >= sz2[new]
  BY DEF StopsAt
<1>6. n \in Nat /\ j \in 1 .. n + 1
  BY <1>1
<1> HIDE DEF res, n
<1>7. \A k \in 1 .. n + 1 :
        \/ k < j /\ k \in 1 .. n /\ res[k] = list[k]
        \/ k = j /\ res[k] = new
        \/ k > j /\ k - 1 \in 1 .. n /\ res[k] = list[k - 1]
  BY <1>3, <1>6
<1>8. \A k \in 1 .. n + 1 : res[k] \in R \cup {new}
  BY <1>4, <1>7
<1>9. \A k, l \in 1 .. n + 1 : res[k] = res[l] => k = l
  BY <1>4, <1>6, <1>7
<1>10. \A a \in R \cup {new} : \E k \in 1 .. n + 1 : res[k] = a
  <2>1. ASSUME NEW a \in R PROVE \E k \in 1 .. n + 1 : res[k] = a
    <3>1. PICK k \in 1 .. n : list[k] = a
      BY <1>4
    <3>2. CASE k < j
      BY <1>3, <1>6, <3>1, <3>2
    <3>3. CASE k >= j
      <4>1. k + 1 \in 1 .. n + 1 /\ res[k + 1] = a
        BY <1>3, <1>6, <3>1, <3>3
      <4> QED
        BY <4>1
    <3> QED
      BY <1>6, <3>1, <3>2, <3>3
  <2>2. j \in 1 .. n + 1 /\ res[j] = new
    BY <1>3, <1>6
  <2> QED
    BY <2>1, <2>2
<1>11. \A k, l \in 1 .. n + 1 : k <= l => sz2[res[k]] <= sz2[res[l]]
  <2>1. \A k \in 1 .. n : sz2[list[k]] = sz[list[k]] /\ sz[list[k]] \in Int
    BY <1>4
  <2>2. \A k \in j .. n : sz[list[k]] >= sz2[new]
    BY <1>4, <1>5, <1>6, <2>1
  <2> SUFFICES ASSUME NEW k \in 1 .. n + 1, NEW l \in 1 .. n + 1, k <= l
               PROVE  sz2[res[k]] <= sz2[res[l]]
    OBVIOUS
  <2>3. sz2[new] \in Int
    OBVIOUS
  <2>4. CASE l < j
    <3>1. k \in 1 .. n /\ l \in 1 .. n /\ res[k] = list[k] /\ res[l] = list[l]
      BY <1>6, <1>7, <2>4
    <3> QED
      BY <1>4, <2>1, <3>1
  <2>5. CASE l = j /\ k < j
    <3>1. k \in 1 .. n /\ k \in 1 .. j - 1 /\ res[k] = list[k] /\ res[l] = new
      BY <1>6, <1>7, <2>5
    <3> QED
      BY <1>5, <2>1, <2>3, <3>1
  <2>6. CASE l = j /\ k = j
    BY <1>7, <2>3, <2>6
  <2>7. CASE l > j /\ k < j
    <3>1. k \in 1 .. n /\ l - 1 \in 1 .. n /\ k <= l - 1 /\ res[k] = list[k] /\ res[l] = list[l - 1]
      BY <1>6, <1>7, <2>7
    <3> QED
      BY <1>4, <2>1, <3>1
  <2>8. CASE l > j /\ k = j
    <3>1. l - 1 \in 1 .. n /\ l - 1 \in j .. n /\ res[k] = new /\ res[l] = list[l - 1]
      BY <1>6, <1>7, <2>8
    <3> QED
      BY <2>1, <2>2, <2>3, <3>1
  <2>9. CASE l > j /\ k > j
    <3>1. k - 1 \in 1 .. n /\ l - 1 \in 1 .. n /\ res[k] = list[k - 1] /\ res[l] = list[l - 1]
      BY <1>6, <1>7, <2>9
    <3> QED
      BY <1>4, <2>1, <3>1
  <2> QED
    BY <1>6, <2>4, <2>5, <2>6, <2>7, <2>8, <2>9
<1> QED
  BY SMTT(30), <1>2, <1>3, <1>8, <1>9, <1>10, <1>11 DEF Lists, res

-----------------------------------------------------------------------------
(* The regions. *)

\* Every region ends inside the heap, and distinct regions do not overlap.
LEMMA RegionFacts ==
  ASSUME TypeOK, Tiling
  PROVE  /\ Regions \subseteq Addr
         /\ FreeRegions \subseteq Regions /\ AllocRegions \subseteq Regions
         /\ FreeRegions \cap AllocRegions = {}
         /\ \A a \in Regions : /\ a \in Int /\ HEAP_START <= a /\ a < HEAP_END
                               /\ size[a] \in Nat
                               /\ End(a) = a + size[a] + R_HEADER_SIZE
                               /\ End(a) \in Int /\ a < End(a) /\ End(a) <= HEAP_END
                               /\ End(a) < HEAP_END => End(a) \in Regions
         /\ \A a, b \in Regions : a < b => End(a) <= b
         /\ \A a, b \in Regions : End(a) = End(b) => a = b
         /\ \A a \in Regions : a \in FreeRegions \/ a \in AllocRegions
<1>1. /\ Regions \subseteq Addr
      /\ FreeRegions \subseteq Regions /\ AllocRegions \subseteq Regions
      /\ FreeRegions \cap AllocRegions = {}
      /\ \A a \in Regions : a \in FreeRegions \/ a \in AllocRegions
  BY DEF TypeOK, Regions, FreeRegions, AllocRegions
<1>2. \A a \in Addr : /\ a \in Int /\ HEAP_START <= a /\ a < HEAP_END
                      /\ size[a] \in Nat
                      /\ End(a) = a + size[a] + R_HEADER_SIZE
                      /\ End(a) \in Int /\ a < End(a)
  BY SMTT(30), HeapAssumption DEF TypeOK, Addr, End, GET_NEXT_HEADER
<1>3. \A a \in Regions : End(a) \in Regions \cup {HEAP_END}
  BY DEF Tiling
<1>4. \A a \in Regions : End(a) <= HEAP_END /\ (End(a) < HEAP_END => End(a) \in Regions)
  BY <1>1, <1>2, <1>3, HeapAssumption
<1>5. \A a, b \in Regions : a < b => End(a) <= b
  BY DEF Tiling
<1>6. \A a, b \in Regions : End(a) = End(b) => a = b
  BY <1>1, <1>2, <1>5
<1> QED
  BY <1>1, <1>2, <1>4, <1>5, <1>6

LEMMA InitIInv == Init => IInv
<1> SUFFICES ASSUME Init PROVE IInv
  OBVIOUS
<1>1. HEAP_START \in Addr
  BY HeapAssumption DEF Addr
<1>2. TypeOK
  BY <1>1, HeapAssumption DEF Init, TypeOK, NULL
<1>3. Regions = {HEAP_START} /\ FreeRegions = {HEAP_START} /\ AllocRegions = {}
  BY <1>1 DEF Init, Regions, FreeRegions, AllocRegions
<1>4. End(HEAP_START) = HEAP_END
  BY <1>1, HeapAssumption DEF Init, End, GET_NEXT_HEADER
<1>5. Tiling
  BY <1>3, <1>4, HeapAssumption DEF Tiling, Addr
<1>6. Coalesced /\ BackLinks
  BY <1>3, <1>4, HeapAssumption DEF Coalesced, BackLinks, Addr
<1>7. FreeListExact
  <2>1. index = <<HEAP_START>> /\ Len(index) = 1 /\ index[1] = HEAP_START /\ index \in Seq(Addr)
    BY <1>1 DEF Init
  <2>2. size[HEAP_START] \in Nat
    BY <1>1, <1>2 DEF TypeOK
  <2> QED
    BY <1>3, <2>1, <2>2 DEF FreeListExact, Lists
<1> QED
  BY <1>2, <1>5, <1>6, <1>7 DEF IInv

-----------------------------------------------------------------------------
(* One step of kmalloc. *)

\* A successful kmalloc splits the free region cur at alloc_hd.
LEMMA KmallocEffect ==
  ASSUME IInv, NEW n \in Sizes, kmalloc(n),
         ~(ret' = NULL /\ UNCHANGED <<type, size, link, index>>)
  PROVE  \E cur \in FreeRegions, hd \in Addr :
           /\ cur < hd /\ hd \notin Regions
           /\ size[cur] >= n + R_HEADER_SIZE
           /\ hd + n + R_HEADER_SIZE = End(cur)
           /\ type' = [type EXCEPT ![hd] = "alloc"]
           /\ size' = [size EXCEPT ![cur] = hd - cur - R_HEADER_SIZE, ![hd] = n]
           /\ link' = [x \in Addr |-> IF x = hd THEN cur ELSE IF x = End(cur) THEN hd ELSE link[x]]
           /\ ret' = hd + R_HEADER_SIZE
           /\ Lists(index', FreeRegions, size')
           /\ \A f \in FreeRegions : size[f] >= n + R_HEADER_SIZE => size[f] >= size[cur]
<1> DEFINE Fit(i) == StopsAt(index, size, Need(n), i)
<1>0. n \in Nat
  BY HeapAssumption
<1>1. PICK i \in 1 .. Len(index) + 1 :
        /\ Fit(i)
        /\ i <= Len(index)
        /\ LET cur      == index[i]
               left     == size[cur] - n - R_HEADER_SIZE
               others   == del_free_region(index, i)
               alloc_hd == cur + left + R_HEADER_SIZE
           IN  /\ size' = [size EXCEPT ![cur] = left, ![alloc_hd] = n]
               /\ \E j \in 1 .. Len(others) + 1 :
                    /\ StopsAt(others, size, left, j)
                    /\ index' = add_free_region(others, j, cur)
               /\ type' = [type EXCEPT ![alloc_hd] = "alloc"]
               /\ link' = add_alloc_region([link EXCEPT ![alloc_hd] = cur], alloc_hd)
               /\ ret' = alloc_hd + R_HEADER_SIZE
  BY DEF kmalloc
<1> DEFINE cur == index[i]
           left == size[cur] - n - R_HEADER_SIZE
           others == del_free_region(index, i)
           hd == cur + left + R_HEADER_SIZE
<1>2. /\ size' = [size EXCEPT ![cur] = left, ![hd] = n]
      /\ type' = [type EXCEPT ![hd] = "alloc"]
      /\ link' = add_alloc_region([link EXCEPT ![hd] = cur], hd)
      /\ ret' = hd + R_HEADER_SIZE
  BY SMTT(30), <1>1
<1>3. PICK j \in 1 .. Len(others) + 1 :
        StopsAt(others, size, left, j) /\ index' = add_free_region(others, j, cur)
  BY SMTT(30), <1>1
<1>4. index \in Seq(Addr) /\ Len(index) \in Nat /\ i \in 1 .. Len(index)
  BY <1>1 DEF IInv, TypeOK
<1>5. cur \in FreeRegions
  BY <1>4 DEF IInv, FreeListExact, Lists
<1>6. size[cur] >= n + R_HEADER_SIZE
  BY <1>1, <1>4 DEF StopsAt, Need
<1>7. \A f \in FreeRegions : size[f] >= n + R_HEADER_SIZE => size[f] >= size[cur]
  <2> SUFFICES ASSUME NEW f \in FreeRegions, size[f] >= n + R_HEADER_SIZE
               PROVE  size[f] >= size[cur]
    OBVIOUS
  <2>1. PICK k \in 1 .. Len(index) : index[k] = f
    BY DEF IInv, FreeListExact, Lists
  <2>2. size[f] \in Nat /\ size[cur] \in Nat
    BY <1>5 DEF IInv, TypeOK, FreeRegions
  <2>3. ~(k < i)
    <3>1. k < i => k \in 1 .. i - 1
      BY <1>4, <2>1
    <3>2. k \in 1 .. i - 1 => size[f] < n + R_HEADER_SIZE
      BY <1>1, <2>1 DEF StopsAt, Need
    <3> QED
      BY SMTT(30), <1>0, <2>2, <3>1, <3>2, HeapAssumption
  <2>4. i <= k
    BY <1>4, <2>1, <2>3
  <2> QED
    BY SMTT(30), <1>4, <2>1, <2>2, <2>4 DEF IInv, FreeListExact, Lists
<1>8. cur \in Regions /\ cur \in Int /\ size[cur] \in Nat /\ HEAP_START <= cur
      /\ End(cur) = cur + size[cur] + R_HEADER_SIZE /\ End(cur) <= HEAP_END
      /\ (End(cur) < HEAP_END => End(cur) \in Regions)
  BY <1>5, RegionFacts DEF IInv
<1> HIDE DEF cur
<1>9. left \in Nat /\ hd \in Int /\ cur < hd /\ hd < End(cur)
      /\ hd + n + R_HEADER_SIZE = End(cur) /\ left = hd - cur - R_HEADER_SIZE
  <2>1. cur \in Int /\ size[cur] \in Nat /\ R_HEADER_SIZE \in Nat /\ R_HEADER_SIZE > 0
        /\ End(cur) = cur + size[cur] + R_HEADER_SIZE
    BY <1>8, HeapAssumption
  <2>2. left \in Nat
    BY ONLY <1>0, <1>6, <2>1 DEF left
  <2>3. size[cur] = left + n + R_HEADER_SIZE
    BY ONLY SMTT(30), <1>0, <2>1 DEF left
  <2> HIDE DEF left
  <2>4. hd \in Int /\ cur < hd /\ left = hd - cur - R_HEADER_SIZE
    BY ONLY SMTT(30), <2>1, <2>2 DEF hd
  <2> HIDE DEF hd
  <2>5. End(cur) = hd + n + R_HEADER_SIZE
    BY ONLY SMTT(30), <1>0, <2>1, <2>2, <2>3, <2>4
  <2> QED
    BY ONLY SMTT(30), <1>0, <2>1, <2>2, <2>4, <2>5
<1> HIDE DEF hd, left
<1>10. hd \in Addr /\ hd < End(cur)
  BY SMTT(30), <1>0, <1>8, <1>9, HeapAssumption DEF Addr
<1>11. hd \notin Regions
  <2>1. hd \in Regions => End(cur) <= hd
    BY SMTT(30), <1>8, <1>9, RegionFacts DEF IInv
  <2>2. End(cur) \in Int
    BY <1>5, RegionFacts DEF IInv
  <2> QED
    BY ONLY <1>9, <2>1, <2>2
<1>12. link' = [x \in Addr |-> IF x = hd THEN cur ELSE IF x = End(cur) THEN hd ELSE link[x]]
  <2>1. GET_NEXT_HEADER(size', hd) = End(cur)
    <3>1. size'[hd] = n
      BY <1>2, <1>10 DEF IInv, TypeOK
    <3> QED
      BY <1>9, <1>0, <1>10, <3>1, HeapAssumption DEF GET_NEXT_HEADER
  <2>2. link = [x \in Addr |-> link[x]] /\ End(cur) # hd
    BY <1>8, <1>9 DEF IInv, TypeOK
  <2>3. CASE End(cur) < HEAP_END
    <3>1. End(cur) \in Addr /\ type[End(cur)] # "free"
      BY <1>5, <1>8, <2>3, RegionFacts DEF IInv, Coalesced, FreeRegions
    <3>2. link' = [[link EXCEPT ![hd] = cur] EXCEPT ![End(cur)] = hd]
      BY <1>2, <2>1, <2>3, <3>1 DEF add_alloc_region
    <3> QED
      BY ONLY <1>10, <2>2, <3>1, <3>2
  <2>4. CASE ~(End(cur) < HEAP_END)
    <3>1. link' = [link EXCEPT ![hd] = cur]
      BY <1>2, <2>1, <2>4 DEF add_alloc_region
    <3>2. End(cur) \notin Addr
      BY SMTT(30), <1>9, <2>4, HeapAssumption DEF Addr
    <3> QED
      BY ONLY <1>10, <2>2, <3>1, <3>2
  <2> QED
    BY <2>3, <2>4
<1>13. Lists(index', FreeRegions, size')
  <2>1. Lists(others, FreeRegions \ {cur}, size)
    BY <1>4, RemoveLists DEF IInv, FreeListExact, FreeRegions, cur
  <2>2. size \in [Addr -> Int] /\ size' \in [Addr -> Int] /\ size'[cur] = left
    <3>1. size \in [Addr -> Nat] /\ cur \in Addr
      BY <1>5 DEF IInv, TypeOK, FreeRegions
    <3>2. cur # hd
      BY ONLY <1>8, <1>9
    <3>3. left \in Nat /\ hd \in Addr /\ size' = [size EXCEPT ![cur] = left, ![hd] = n]
      BY <1>2, <1>9, <1>10
    <3>4. size' \in [Addr -> Nat] /\ size'[cur] = left
      BY ONLY SMTT(30), <1>0, <3>1, <3>2, <3>3
    <3> QED
      BY ONLY <3>1, <3>4
  <2>3. \A a \in FreeRegions \ {cur} : size'[a] = size[a]
    BY <1>2, <1>10, <1>11 DEF IInv, TypeOK, FreeRegions, Regions
  <2>4. cur \in Addr \ (FreeRegions \ {cur}) /\ FreeRegions \ {cur} \in SUBSET Addr
    BY <1>5 DEF FreeRegions
  <2>5. StopsAt(others, size, size'[cur], j)
    BY <1>3, <2>2
  <2>6. Lists(add_free_region(others, j, cur), (FreeRegions \ {cur}) \cup {cur}, size')
    BY SMTT(30), <2>1, <2>2, <2>3, <2>4, <2>5, InsertLists
  <2>7. (FreeRegions \ {cur}) \cup {cur} = FreeRegions
    BY <1>5
  <2> QED
    BY <1>3, <2>6, <2>7
<1>14. size' = [size EXCEPT ![cur] = hd - cur - R_HEADER_SIZE, ![hd] = n]
  BY <1>2, <1>9
<1> QED
  BY <1>2, <1>5, <1>6, <1>7, <1>9, <1>10, <1>11, <1>12, <1>13, <1>14

\* kmalloc preserves the inductive invariant.
LEMMA KmallocIInv ==
  ASSUME IInv, NEW n \in Sizes, kmalloc(n)
  PROVE  IInv'
<1>1. CASE ret' = NULL /\ UNCHANGED <<type, size, link, index>>
  BY SMTT(30), <1>1 DEF IInv, TypeOK, Tiling, Coalesced, BackLinks, FreeListExact, Lists,
              Regions, FreeRegions, AllocRegions, End, GET_NEXT_HEADER
<1>2. CASE ~(ret' = NULL /\ UNCHANGED <<type, size, link, index>>)
  <2>1. PICK cur \in FreeRegions, hd \in Addr :
           /\ cur < hd /\ hd \notin Regions
           /\ size[cur] >= n + R_HEADER_SIZE
           /\ hd + n + R_HEADER_SIZE = End(cur)
           /\ type' = [type EXCEPT ![hd] = "alloc"]
           /\ size' = [size EXCEPT ![cur] = hd - cur - R_HEADER_SIZE, ![hd] = n]
           /\ link' = [x \in Addr |-> IF x = hd THEN cur ELSE IF x = End(cur) THEN hd ELSE link[x]]
           /\ ret' = hd + R_HEADER_SIZE
           /\ Lists(index', FreeRegions, size')
    BY <1>2, KmallocEffect
  <2> DEFINE end == End(cur)
  <2>2. /\ n \in Nat /\ R_HEADER_SIZE \in Nat /\ R_HEADER_SIZE > 0
        /\ HEAP_START \in Nat /\ HEAP_END \in Nat
    BY HeapAssumption
  <2>3. /\ cur \in Addr /\ cur \in Regions /\ cur \in Int /\ cur # hd
        /\ end \in Int /\ end <= HEAP_END /\ hd \in Int /\ HEAP_START <= cur /\ hd < HEAP_END
        /\ end = cur + size[cur] + R_HEADER_SIZE /\ size[cur] \in Nat
        /\ (end < HEAP_END => end \in Regions)
    <3>1. cur \in Regions
      BY RegionFacts DEF IInv
    <3> QED
      BY <2>1, <2>2, <3>1, RegionFacts DEF IInv, Addr
  <2>4. hd < end /\ hd - cur - R_HEADER_SIZE \in Nat
    BY <2>1, <2>2, <2>3
  <2> HIDE DEF end
  <2>5. TypeOK'
    <3>1. type' \in [Addr -> {"free", "alloc", "none"}]
      BY <2>1 DEF IInv, TypeOK
    <3>2. size' \in [Addr -> Nat]
      BY <2>1, <2>2, <2>3, <2>4 DEF IInv, TypeOK
    <3>3. link' \in [Addr -> Addr \cup {NULL}]
      BY <2>1, <2>3 DEF IInv, TypeOK
    <3>4. index' \in Seq(Addr)
      BY <2>1 DEF Lists
    <3>5. ret' \in Addr \cup {HEAP_END}
      BY <2>1, <2>2, <2>3, <2>4 DEF Addr, end
    <3> QED
      BY <3>1, <3>2, <3>3, <3>4, <3>5 DEF TypeOK
  <2>6. /\ Regions' = Regions \cup {hd}
        /\ FreeRegions' = FreeRegions
        /\ AllocRegions' = AllocRegions \cup {hd}
    BY <2>1 DEF IInv, TypeOK, Regions, FreeRegions, AllocRegions
  <2>7. /\ \A a \in Regions \ {cur} : GET_NEXT_HEADER(size', a) = End(a)
        /\ GET_NEXT_HEADER(size', cur) = hd
        /\ GET_NEXT_HEADER(size', hd) = end
    <3>1. \A a \in Regions \ {cur} : size'[a] = size[a]
      BY <2>1 DEF IInv, TypeOK, Regions
    <3>2. size'[cur] = hd - cur - R_HEADER_SIZE /\ size'[hd] = n
      BY <2>1, <2>3 DEF IInv, TypeOK
    <3>3. GET_NEXT_HEADER(size', cur) = cur + (hd - cur - R_HEADER_SIZE) + R_HEADER_SIZE
      BY <3>2 DEF End, GET_NEXT_HEADER
    <3>4. GET_NEXT_HEADER(size', hd) = hd + n + R_HEADER_SIZE
      BY <3>2 DEF End, GET_NEXT_HEADER
    <3>5. GET_NEXT_HEADER(size', cur) = hd
      BY <2>2, <2>3, <3>3
    <3> QED
      BY <2>1, <3>1, <3>4, <3>5 DEF End, GET_NEXT_HEADER, end
  <2>8. \A a \in Regions : /\ a \in Int /\ End(a) \in Int /\ a < End(a)
                           /\ HEAP_START <= a /\ End(a) <= HEAP_END
                           /\ (a < cur => End(a) <= cur) /\ (a > cur => end <= a)
    BY <2>3, RegionFacts DEF IInv, end
  <2>9. Tiling'
    <3>1. HEAP_START \in Regions'
      BY <2>6 DEF IInv, Tiling
    <3>2. \A a \in Regions' : GET_NEXT_HEADER(size', a) \in Regions' \cup {HEAP_END}
      BY <2>2, <2>3, <2>6, <2>7 DEF IInv, Tiling
    <3>3. \A a, b \in Regions' : a < b => GET_NEXT_HEADER(size', a) <= b
      <4> SUFFICES ASSUME NEW a \in Regions \cup {hd}, NEW b \in Regions \cup {hd}, a < b
                   PROVE  GET_NEXT_HEADER(size', a) <= b
        BY <2>6
      <4>1. CASE a \in Regions \ {cur} /\ b \in Regions
        BY <2>7, <4>1 DEF IInv, Tiling
      <4>2. CASE a = cur /\ b \in Regions
        BY <2>3, <2>4, <2>7, <2>8, <4>2
      <4>3. CASE a = cur /\ b = hd
        BY <2>3, <2>7, <4>3
      <4>4. CASE a \in Regions \ {cur} /\ b = hd
        <5>1. GET_NEXT_HEADER(size', a) = End(a) /\ End(a) \in Int /\ a \in Int
          BY <2>7, <2>8, <4>4
        <5>2. a < cur
          BY <2>3, <2>4, <2>8, <4>4, <5>1
        <5> QED
          BY <2>1, <2>3, <2>8, <4>4, <5>1, <5>2
      <4>5. CASE a = hd /\ b \in Regions
        BY <2>1, <2>3, <2>4, <2>7, <2>8, <4>5
      <4>6. ~(a = hd /\ b = hd)
        BY <2>3
      <4> QED
        BY <4>1, <4>2, <4>3, <4>4, <4>5, <4>6
    <3>4. ASSUME NEW x \in Addr PROVE \E a \in Regions' : a <= x /\ x < GET_NEXT_HEADER(size', a)
      <4>1. PICK a \in Regions : a <= x /\ x < End(a)
        BY DEF IInv, Tiling
      <4>2. CASE a # cur
        BY <2>6, <2>7, <4>1, <4>2
      <4>3. CASE a = cur
        <5>1. x \in Int
          BY <2>2 DEF Addr
        <5>2. CASE x < hd
          BY <2>3, <2>6, <2>7, <4>1, <4>3, <5>2
        <5>3. CASE x >= hd
          BY <2>6, <2>7, <4>1, <4>3, <5>3 DEF end
        <5> QED
          BY <2>3, <5>1, <5>2, <5>3
      <4> QED
        BY <4>2, <4>3
    <3> QED
      BY <3>1, <3>2, <3>3, <3>4 DEF Tiling, End
  <2>10. Coalesced'
    <3>1. hd \notin FreeRegions /\ FreeRegions \subseteq Regions
      BY <2>1 DEF Regions, FreeRegions
    <3>2. \A a \in FreeRegions : GET_NEXT_HEADER(size', a) \notin FreeRegions
      BY <2>7, <3>1 DEF IInv, Coalesced
    <3> QED
      BY <2>6, <3>2 DEF Coalesced, End
  <2>11. BackLinks'
    <3> SUFFICES ASSUME NEW a \in AllocRegions \cup {hd}
                 PROVE  link'[a] \in Regions' /\ GET_NEXT_HEADER(size', link'[a]) = a
      BY <2>6 DEF BackLinks, End
    <3>1. AllocRegions \subseteq Regions /\ Regions \subseteq Addr /\ cur \notin AllocRegions
      BY DEF Regions, AllocRegions, FreeRegions
    <3>2. CASE a = hd
      <4>1. link'[a] = cur
        BY <2>1, <3>2
      <4> QED
        BY <2>3, <2>6, <2>7, <3>2, <4>1
    <3>3. CASE a # hd /\ a = end
      <4>1. link'[a] = hd
        BY SMTT(30), <2>1, <3>1, <3>3 DEF end
      <4> QED
        BY <2>6, <2>7, <3>3, <4>1
    <3>4. CASE a # hd /\ a # end
      <4>1. link'[a] = link[a] /\ a \in AllocRegions
        BY SMTT(30), <2>1, <3>1, <3>4 DEF end
      <4>2. link[a] \in Regions /\ End(link[a]) = a
        BY <4>1 DEF IInv, BackLinks
      <4>3. link[a] # cur
        BY <3>4, <4>2 DEF end
      <4> QED
        BY <2>6, <2>7, <4>1, <4>2, <4>3
    <3> QED
      BY <3>2, <3>3, <3>4
  <2>12. FreeListExact'
    BY <2>1, <2>6 DEF FreeListExact
  <2> QED
    BY <2>5, <2>9, <2>10, <2>11, <2>12 DEF IInv
<1> QED
  BY <1>1, <1>2

-----------------------------------------------------------------------------
(* One step of kfree. *)

\* The step that frees the region a leaves one free region u of total bytes that
\* ends at e, made of u and the regions in absorbed; no free region borders on it.
Merges(a, u, absorbed, total, e) ==
  /\ u \in Regions /\ absorbed \subseteq Regions /\ total \in Nat /\ e \in Int
  /\ a \in AllocRegions /\ (absorbed \cup {u}) \cap AllocRegions = {a}
  /\ e = u + total + R_HEADER_SIZE
  /\ e \in (Regions \ FreeRegions) \cup {HEAP_END}
  /\ \A r \in absorbed : u < r
  /\ \A r \in absorbed \cup {u} : End(r) <= e /\ End(r) \in absorbed \cup {e}
  /\ \A r \in Regions \ (absorbed \cup {u}) : End(r) <= u \/ e <= r
  /\ \A r \in FreeRegions \ (absorbed \cup {u}) : End(r) # u
  /\ type' = [x \in Addr |-> IF x = u THEN "free"
                             ELSE IF x \in absorbed THEN "none" ELSE type[x]]
  /\ size' = [x \in Addr |-> IF x = u THEN total
                             ELSE IF x \in absorbed THEN 0 ELSE size[x]]
  /\ link' = [x \in Addr |-> IF x = e THEN u
                             ELSE IF x \in absorbed \cup {u} THEN NULL ELSE link[x]]
  /\ Lists(index', (FreeRegions \ absorbed) \cup {u}, size')
  /\ ret' = ret

LEMMA KfreeEffect ==
  ASSUME IInv, NEW a \in Addr, kfree(a)
  PROVE  \E u, absorbed, total, e : Merges(a, u, absorbed, total, e)
<1> DEFINE prev     == link[a]
           next     == End(a)
           list1    == IF PrevFree(a) THEN Unlink(index, prev) ELSE index
           list2    == IF NextFree(a) THEN Unlink(list1, next) ELSE list1
           u        == IF PrevFree(a) THEN prev ELSE a
           absorbed == (IF PrevFree(a) THEN {a} ELSE {}) \cup (IF NextFree(a) THEN {next} ELSE {})
           total    == size[u] + (IF PrevFree(a) THEN Gain(a) ELSE 0)
                               + (IF NextFree(a) THEN Gain(next) ELSE 0)
           e        == u + total + R_HEADER_SIZE
<1>1. /\ type[a] = "alloc"
      /\ type' = [x \in Addr |-> IF x = u THEN "free"
                                 ELSE IF x \in absorbed THEN "none" ELSE type[x]]
      /\ size' = [x \in Addr |-> IF x = u THEN total
                                 ELSE IF x \in absorbed THEN 0 ELSE size[x]]
      /\ link' = [x \in Addr |-> IF x = e THEN u
                                 ELSE IF x \in absorbed \cup {u} THEN NULL ELSE link[x]]
      /\ \E j \in 1 .. Len(list2) + 1 :
           /\ StopsAt(list2, size, total, j)
           /\ index' = add_free_region(list2, j, u)
      /\ ret' = ret
  BY SMTT(30) DEF kfree, End
<1> HIDE DEF list2, list1, u, absorbed, total, e
<1>2. a \in AllocRegions /\ a \in Regions /\ a \notin FreeRegions
  BY <1>1 DEF AllocRegions, Regions, FreeRegions
<1>3. prev \in Regions /\ End(prev) = a
  BY <1>2 DEF IInv, BackLinks
<1>4. /\ prev \in Int /\ a \in Int /\ next \in Int /\ prev < a /\ a < next
      /\ HEAP_START <= prev /\ next <= HEAP_END /\ HEAP_END \in Int /\ R_HEADER_SIZE \in Nat
      /\ size[prev] \in Nat /\ size[a] \in Nat
      /\ a = prev + size[prev] + R_HEADER_SIZE
      /\ next = a + size[a] + R_HEADER_SIZE
      /\ (next < HEAP_END => next \in Regions)
  BY <1>2, <1>3, RegionFacts, HeapAssumption DEF IInv
<1>5. PrevFree(a) <=> prev \in FreeRegions
  BY <1>3 DEF PrevFree, FreeRegions, Regions
<1>6. NextFree(a) <=> next \in FreeRegions
  <2>1. next < HEAP_END => next \in Addr
    BY <1>4 DEF Regions
  <2>2. next \in Addr => next < HEAP_END
    BY <1>4 DEF Addr
  <2> QED
    BY <2>1, <2>2 DEF NextFree, FreeRegions, End
<1>7. NextFree(a) => /\ next \in Regions /\ size[next] \in Nat /\ End(next) \in Int
                     /\ End(next) = next + size[next] + R_HEADER_SIZE
                     /\ next < End(next) /\ End(next) <= HEAP_END
                     /\ End(next) < HEAP_END => End(next) \in Regions
                     /\ End(next) \notin FreeRegions
  <2>1. SUFFICES ASSUME NextFree(a)
                 PROVE  next \in Regions /\ End(next) \notin FreeRegions
    BY RegionFacts DEF IInv
  <2>2. next \in FreeRegions
    BY <1>6, <2>1
  <2> QED
    BY <2>2, RegionFacts DEF IInv, Coalesced
<1>8. u \in Regions /\ u \in Int
  BY <1>2, <1>3, <1>4 DEF u
<1>9. absorbed \in SUBSET Regions
  BY <1>2, <1>7 DEF absorbed
<1>10. total \in Nat /\ e \in Int /\ e = u + total + R_HEADER_SIZE
       /\ e = IF NextFree(a) THEN End(next) ELSE next
  <2>1. CASE PrevFree(a) /\ NextFree(a)
    <3>1. u = prev /\ total = size[prev] + (R_HEADER_SIZE + size[a]) + (R_HEADER_SIZE + size[next])
      BY <2>1 DEF u, total, Gain
    <3> QED
      BY <1>4, <1>7, <2>1, <3>1 DEF e
  <2>2. CASE PrevFree(a) /\ ~NextFree(a)
    <3>1. u = prev /\ total = size[prev] + (R_HEADER_SIZE + size[a]) + 0
      BY <2>2 DEF u, total, Gain
    <3> QED
      BY <1>4, <2>2, <3>1 DEF e
  <2>3. CASE ~PrevFree(a) /\ NextFree(a)
    <3>1. u = a /\ total = size[a] + 0 + (R_HEADER_SIZE + size[next])
      BY <2>3 DEF u, total, Gain
    <3> QED
      BY <1>4, <1>7, <2>3, <3>1 DEF e
  <2>4. CASE ~PrevFree(a) /\ ~NextFree(a)
    <3>1. u = a /\ total = size[a] + 0 + 0
      BY <2>4 DEF u, total, Gain
    <3> QED
      BY <1>4, <2>4, <3>1 DEF e
  <2> QED
    BY <2>1, <2>2, <2>3, <2>4
<1>11. a \in absorbed \cup {u} /\ (absorbed \cup {u}) \cap AllocRegions = {a}
  <2>1. FreeRegions \cap AllocRegions = {}
    BY RegionFacts DEF IInv
  <2>2. a \in absorbed \cup {u}
    BY DEF absorbed, u
  <2>3. absorbed \cup {u} \subseteq FreeRegions \cup {a}
    BY <1>5, <1>6 DEF absorbed, u
  <2> QED
    BY <1>2, <2>1, <2>2, <2>3
<1>12. e \in (Regions \ FreeRegions) \cup {HEAP_END}
  <2>1. CASE NextFree(a)
    <3>1. e = End(next) /\ End(next) \notin FreeRegions
      BY <1>7, <1>10, <2>1
    <3>2. End(next) \in Regions \/ End(next) = HEAP_END
      BY <1>4, <1>7, <2>1
    <3> QED
      BY <3>1, <3>2
  <2>2. CASE ~NextFree(a)
    <3>1. e = next /\ next \notin FreeRegions
      BY <1>6, <1>10, <2>2
    <3>2. next \in Regions \/ next = HEAP_END
      BY <1>4
    <3> QED
      BY <3>1, <3>2
  <2> QED
    BY <2>1, <2>2
<1>13. \A r \in absorbed : u < r
  BY <1>4, <1>7 DEF absorbed, u
<1>14. \A r \in absorbed \cup {u} : End(r) <= e /\ End(r) \in absorbed \cup {e}
  <2>1. CASE PrevFree(a) /\ NextFree(a)
    BY <1>3, <1>4, <1>7, <1>10, <2>1 DEF absorbed, u
  <2>2. CASE PrevFree(a) /\ ~NextFree(a)
    BY <1>3, <1>4, <1>10, <2>2 DEF absorbed, u
  <2>3. CASE ~PrevFree(a) /\ NextFree(a)
    BY <1>4, <1>7, <1>10, <2>3 DEF absorbed, u
  <2>4. CASE ~PrevFree(a) /\ ~NextFree(a)
    BY <1>4, <1>10, <2>4 DEF absorbed, u
  <2> QED
    BY SMTT(30), <2>1, <2>2, <2>3, <2>4
<1>15. ASSUME NEW r \in Regions \ (absorbed \cup {u})
       PROVE  End(r) <= u \/ e <= r
  <2>1. /\ r \in Int /\ End(r) \in Int
        /\ (r < u => End(r) <= u)
        /\ (r > prev => r >= a) /\ (r > a => r >= next)
        /\ (NextFree(a) => (r > next => r >= End(next)))
    BY <1>2, <1>3, <1>4, <1>7, <1>8, RegionFacts DEF IInv
  <2>2. r > u => r > a
    <3>1. CASE PrevFree(a)
      BY <1>4, <2>1, <3>1 DEF u, absorbed
    <3>2. CASE ~PrevFree(a)
      BY <3>2 DEF u
    <3> QED
      BY <3>1, <3>2
  <2>3. r > a => r >= e
    <3>1. CASE NextFree(a)
      BY <1>4, <1>10, <2>1, <3>1 DEF absorbed
    <3>2. CASE ~NextFree(a)
      BY <1>10, <2>1, <3>2
    <3> QED
      BY <3>1, <3>2
  <2> QED
    BY SMTT(30), <1>8, <1>10, <2>1, <2>2, <2>3
<1>16. ASSUME NEW r \in FreeRegions \ (absorbed \cup {u})
       PROVE  End(r) # u
  <2>1. CASE PrevFree(a)
    BY <1>5, <2>1 DEF u, IInv, Coalesced
  <2>2. CASE ~PrevFree(a)
    <3>1. r \in Regions /\ r # prev
      BY <1>5, <2>2, RegionFacts DEF IInv
    <3> QED
      BY <1>3, <2>2, <3>1, RegionFacts DEF u, IInv
  <2> QED
    BY <2>1, <2>2
<1>17. Lists(list2, FreeRegions \ (absorbed \cup {u}), size)
  <2>1. FreeRegions \in SUBSET Addr
    BY DEF FreeRegions
  <2> DEFINE R1 == IF PrevFree(a) THEN FreeRegions \ {prev} ELSE FreeRegions
  <2>2. Lists(list1, R1, size)
    BY <1>5, <2>1, UnlinkLists DEF list1, IInv, FreeListExact
  <2>3. NextFree(a) => next \in R1
    BY <1>4, <1>6
  <2>4. R1 \in SUBSET Addr
    BY <2>1
  <2> DEFINE R2 == IF NextFree(a) THEN R1 \ {next} ELSE R1
  <2> HIDE DEF R1
  <2>5. Lists(list2, R2, size)
    BY <2>2, <2>3, <2>4, UnlinkLists DEF list2
  <2>6. R2 = FreeRegions \ (absorbed \cup {u})
    BY <1>2 DEF R1, absorbed, u
  <2> QED
    BY <2>5, <2>6
<1>18. Lists(index', (FreeRegions \ absorbed) \cup {u}, size')
  <2> DEFINE R == FreeRegions \ (absorbed \cup {u})
  <2>1. PICK j \in 1 .. Len(list2) + 1 :
          StopsAt(list2, size, total, j) /\ index' = add_free_region(list2, j, u)
    BY <1>1
  <2>2. R \in SUBSET Addr /\ u \in Addr \ R
    BY <1>8 DEF FreeRegions, Regions
  <2>3. size \in [Addr -> Int] /\ size' \in [Addr -> Int]
    BY <1>1, <1>10 DEF IInv, TypeOK
  <2>4. size'[u] = total /\ \A x \in R : size'[x] = size[x]
    BY <1>1, <2>2
  <2>5. Lists(list2, R, size)
    BY <1>17
  <2>6. R \cup {u} = (FreeRegions \ absorbed) \cup {u}
    OBVIOUS
  <2> HIDE DEF R
  <2>7. Lists(add_free_region(list2, j, u), R \cup {u}, size')
    BY SMTT(30), <2>1, <2>2, <2>3, <2>4, <2>5, InsertLists
  <2> QED
    BY <2>1, <2>6, <2>7
<1>19. Merges(a, u, absorbed, total, e)
  BY <1>1, <1>2, <1>8, <1>9, <1>10, <1>11, <1>12, <1>13, <1>14, <1>15, <1>16, <1>18 DEF Merges
<1> QED
  BY SMTT(30), <1>19

\* kfree preserves the inductive invariant.
LEMMA KfreeIInv ==
  ASSUME IInv, NEW a \in Addr, kfree(a)
  PROVE  IInv'
<1>1. PICK u, absorbed, total, e : Merges(a, u, absorbed, total, e)
  BY KfreeEffect
<1> DEFINE Gone == absorbed \cup {u}
<1>2. /\ u \in Regions /\ absorbed \subseteq Regions /\ total \in Nat /\ e \in Int
      /\ a \in AllocRegions /\ Gone \cap AllocRegions = {a}
      /\ e = u + total + R_HEADER_SIZE
      /\ e \in (Regions \ FreeRegions) \cup {HEAP_END}
      /\ \A r \in absorbed : u < r
      /\ \A r \in Gone : End(r) <= e /\ End(r) \in absorbed \cup {e}
      /\ \A r \in Regions \ Gone : End(r) <= u \/ e <= r
      /\ \A r \in FreeRegions \ Gone : End(r) # u
  BY <1>1 DEF Merges
<1>3. /\ type' = [x \in Addr |-> IF x = u THEN "free"
                                 ELSE IF x \in absorbed THEN "none" ELSE type[x]]
      /\ size' = [x \in Addr |-> IF x = u THEN total
                                 ELSE IF x \in absorbed THEN 0 ELSE size[x]]
      /\ link' = [x \in Addr |-> IF x = e THEN u ELSE IF x \in Gone THEN NULL ELSE link[x]]
      /\ Lists(index', (FreeRegions \ absorbed) \cup {u}, size')
      /\ ret' = ret
  BY <1>1 DEF Merges
<1>4. /\ u \in Addr /\ u \notin absorbed /\ u \in Int /\ u < e
      /\ HEAP_START \in Int /\ HEAP_START <= u /\ absorbed \subseteq Addr
      /\ FreeRegions \subseteq Regions /\ AllocRegions \subseteq Regions /\ Regions \subseteq Addr
      /\ \A r \in Regions : r \in Int /\ End(r) \in Int /\ r < End(r)
  BY <1>2, RegionFacts, HeapAssumption DEF IInv
<1>5. /\ Regions' = Regions \ absorbed
      /\ FreeRegions' = (FreeRegions \ absorbed) \cup {u}
      /\ AllocRegions' = AllocRegions \ {a}
  <2>1. \A x \in Addr : type'[x] = IF x = u THEN "free"
                                   ELSE IF x \in absorbed THEN "none" ELSE type[x]
    BY <1>3
  <2>2. Regions' = Regions \ absorbed
    BY <1>2, <1>4, <2>1 DEF Regions
  <2>3. FreeRegions' = (FreeRegions \ absorbed) \cup {u}
    BY <1>2, <1>4, <2>1 DEF FreeRegions
  <2>4. AllocRegions' = AllocRegions \ Gone
    BY <1>2, <1>4, <2>1 DEF AllocRegions
  <2> QED
    BY SMTT(30), <1>2, <2>2, <2>3, <2>4
<1>6. /\ GET_NEXT_HEADER(size', u) = e
      /\ \A r \in Regions \ Gone : GET_NEXT_HEADER(size', r) = End(r)
  BY <1>2, <1>3, <1>4 DEF End, GET_NEXT_HEADER
<1>7. TypeOK'
  <2>1. type' \in [Addr -> {"free", "alloc", "none"}]
    BY <1>3 DEF IInv, TypeOK
  <2>2. size' \in [Addr -> Nat]
    BY <1>2, <1>3 DEF IInv, TypeOK
  <2>3. link' \in [Addr -> Addr \cup {NULL}]
    BY <1>3, <1>4 DEF IInv, TypeOK
  <2> QED
    BY <1>3, <2>1, <2>2, <2>3 DEF IInv, TypeOK, Lists
<1>8. Tiling'
  <2>1. HEAP_START \in Regions'
    BY <1>2, <1>4, <1>5 DEF IInv, Tiling
  <2>2. \A r \in absorbed : r < e
    BY <1>2, <1>4
  <2>3. ASSUME NEW r \in Regions' PROVE GET_NEXT_HEADER(size', r) \in Regions' \cup {HEAP_END}
    <3>1. CASE r = u
      <4>1. e \notin absorbed
        BY <1>2, <1>4, <2>2
      <4> QED
        BY <1>2, <1>5, <1>6, <3>1, <4>1
    <3>2. CASE r # u
      <4>1. r \in Regions \ Gone
        BY <1>5, <3>2
      <4>2. End(r) <= u \/ End(r) > e
        BY <1>2, <1>4, <4>1
      <4>3. End(r) \notin absorbed
        BY <1>2, <1>4, <2>2, <4>1, <4>2
      <4>4. End(r) \in Regions \cup {HEAP_END}
        BY <4>1 DEF IInv, Tiling
      <4> QED
        BY <1>5, <1>6, <4>1, <4>3, <4>4
    <3> QED
      BY <3>1, <3>2
  <2>4. ASSUME NEW r \in Regions', NEW s \in Regions', r < s
        PROVE  GET_NEXT_HEADER(size', r) <= s
    <3>1. r \in Regions /\ s \in Regions /\ r \notin absorbed /\ s \notin absorbed
      BY <1>5
    <3>2. CASE r = u
      <4>1. End(s) <= u \/ e <= s
        BY <1>2, <1>4, <2>4, <3>1, <3>2
      <4> QED
        BY <1>4, <1>6, <2>4, <3>1, <3>2, <4>1
    <3>3. CASE r # u
      BY <1>6, <2>4, <3>1, <3>3 DEF IInv, Tiling
    <3> QED
      BY <3>2, <3>3
  <2>5. ASSUME NEW x \in Addr PROVE \E r \in Regions' : r <= x /\ x < GET_NEXT_HEADER(size', r)
    <3>1. PICK r \in Regions : r <= x /\ x < End(r)
      BY DEF IInv, Tiling
    <3>2. CASE r \in Gone
      <4>1. x \in Int /\ u <= r /\ End(r) <= e
        BY <1>2, <1>4, <3>2, HeapAssumption DEF Addr
      <4>2. u <= x /\ x < e
        BY <1>2, <1>4, <3>1, <4>1
      <4> QED
        BY <1>2, <1>4, <1>5, <1>6, <4>2
    <3>3. CASE r \notin Gone
      BY <1>5, <1>6, <3>1, <3>3
    <3> QED
      BY <3>2, <3>3
  <2> QED
    BY <2>1, <2>3, <2>4, <2>5 DEF Tiling, End
<1>9. Coalesced'
  <2>1. GET_NEXT_HEADER(size', u) \notin FreeRegions'
    BY <1>2, <1>4, <1>5, <1>6, RegionFacts DEF IInv, Addr
  <2>2. ASSUME NEW r \in FreeRegions \ Gone PROVE GET_NEXT_HEADER(size', r) \notin FreeRegions'
    BY <1>2, <1>4, <1>5, <1>6 DEF IInv, Coalesced
  <2> QED
    BY <1>5, <2>1, <2>2 DEF Coalesced, End
<1>10. BackLinks'
  <2> SUFFICES ASSUME NEW x \in AllocRegions \ {a}
               PROVE  link'[x] \in Regions' /\ GET_NEXT_HEADER(size', link'[x]) = x
    BY <1>5 DEF BackLinks, End
  <2>1. x \in Addr /\ x \notin Gone
    BY SMTT(30), <1>2, <1>4
  <2>2. CASE x = e
    <3>1. link'[x] = u
      BY SMTT(30), <1>3, <2>1, <2>2
    <3> QED
      BY SMTT(30), <1>2, <1>4, <1>5, <1>6, <2>2, <3>1
  <2>3. CASE x # e
    <3>1. link'[x] = link[x]
      BY <1>3, <2>1, <2>3
    <3>2. link[x] \in Regions /\ End(link[x]) = x
      BY DEF IInv, BackLinks
    <3>3. link[x] \notin Gone
      BY <1>2, <2>1, <2>3, <3>2
    <3> QED
      BY SMTT(30), <1>5, <1>6, <3>1, <3>2, <3>3
  <2> QED
    BY <2>2, <2>3
<1>11. FreeListExact'
  BY <1>3, <1>5 DEF FreeListExact
<1> QED
  BY <1>7, <1>8, <1>9, <1>10, <1>11 DEF IInv

-----------------------------------------------------------------------------
(* The heap, for every size of heap, header and request. *)

\* The inductive invariant holds in every state that calls of kmalloc and kfree
\* reach, in whatever order (malloc.c:348-447).
THEOREM HeapSafe == Spec => []IInv
<1>1. IInv /\ [Next]_vars => IInv'
  <2> SUFFICES ASSUME IInv, [Next]_vars PROVE IInv'
    OBVIOUS
  <2>1. CASE \E n \in Sizes : kmalloc(n)
    BY <2>1, KmallocIInv
  <2>2. CASE \E a \in Addr : kfree(a)
    BY SMTT(30), <2>2, KfreeIInv
  <2>3. CASE UNCHANGED vars
    BY <2>3 DEF IInv, TypeOK, Tiling, Coalesced, BackLinks, FreeListExact, Lists,
                Regions, FreeRegions, AllocRegions, End, GET_NEXT_HEADER, vars
  <2> QED
    BY <2>1, <2>2, <2>3 DEF Next
<1> QED
  BY <1>1, InitIInv, PTL DEF Spec

\* Header fields, free list and return value keep their types: no size of a cut or
\* merged region ever goes below zero (malloc.c:367, 431-438).
THEOREM HeapTypeOK == Spec => []TypeOK
  BY HeapSafe, PTL DEF IInv

\* kmalloc's cut and kfree's merge lose no byte and double none.
THEOREM HeapTiles == Spec => []Tiling
  BY HeapSafe, PTL DEF IInv

\* kfree never leaves two free regions side by side.
THEOREM HeapCoalesced == Spec => []Coalesced
  BY HeapSafe, PTL DEF IInv

\* The region kfree merges with is always the physical predecessor.
THEOREM HeapBackLinks == Spec => []BackLinks
  BY HeapSafe, PTL DEF IInv

\* The free list never loses a region, lists one twice or gets out of order.
THEOREM HeapFreeList == Spec => []FreeListExact
  BY HeapSafe, PTL DEF IInv

\* Nothing on the free list fits only if nothing fits at all: a stretch free of
\* allocated regions lies in one free region, as free neighbours are merged.
LEMMA IInvFull == IInv => FailsOnlyWhenFull
<1> SUFFICES ASSUME IInv, NEW n \in Sizes,
                    \A i \in 1 .. Len(index) : size[index[i]] < n + R_HEADER_SIZE,
                    NEW lo \in Addr,
                    lo + n + 2 * R_HEADER_SIZE <= HEAP_END,
                    \A a \in AllocRegions : End(a) <= lo \/ lo + n + 2 * R_HEADER_SIZE <= a
             PROVE  FALSE
  BY DEF FailsOnlyWhenFull
<1>1. lo \in Int /\ n \in Nat /\ R_HEADER_SIZE \in Nat /\ R_HEADER_SIZE > 0 /\ HEAP_END \in Int
  BY HeapAssumption DEF Addr
<1>2. PICK r \in Regions : r <= lo /\ lo < End(r)
  BY DEF IInv, Tiling
<1>3. r \in Int /\ End(r) \in Int /\ size[r] \in Nat /\ End(r) = r + size[r] + R_HEADER_SIZE
      /\ (End(r) < HEAP_END => End(r) \in Regions)
  BY RegionFacts DEF IInv
<1>4. r \notin AllocRegions
  <2> SUFFICES ASSUME r \in AllocRegions PROVE FALSE
    OBVIOUS
  <2>1. End(r) <= lo \/ lo + n + 2 * R_HEADER_SIZE <= r
    OBVIOUS
  <2> QED
    BY <1>1, <1>2, <1>3, <2>1
<1>5. r \in FreeRegions
  BY <1>4, RegionFacts DEF IInv
<1>6. size[r] < n + R_HEADER_SIZE
  BY <1>5 DEF IInv, FreeListExact, Lists
<1>7. End(r) < lo + n + 2 * R_HEADER_SIZE
  BY <1>1, <1>2, <1>3, <1>6
<1>8. End(r) \in Regions
  BY SMTT(30), <1>1, <1>3, <1>7
<1>9. End(r) \in AllocRegions
  BY <1>5, <1>8, RegionFacts DEF IInv, Coalesced
<1>10. End(End(r)) \in Int /\ End(r) < End(End(r))
  BY <1>8, RegionFacts DEF IInv
<1> QED
  BY SMTT(30), <1>1, <1>2, <1>3, <1>7, <1>9, <1>10

\* With no allocated region left, one free region spans the heap.
LEMMA IInvInitial == IInv => AllFreedIsInitial
<1> SUFFICES ASSUME IInv, AllocRegions = {}
             PROVE  Regions = {HEAP_START} /\ index = <<HEAP_START>> /\ End(HEAP_START) = HEAP_END
  BY DEF AllFreedIsInitial
<1>1. HEAP_START \in Regions /\ \A a \in Regions : a \in FreeRegions
  BY RegionFacts DEF IInv, Tiling
<1>2. End(HEAP_START) = HEAP_END
  BY <1>1 DEF IInv, Tiling, Coalesced
<1>3. \A a \in Regions : a = HEAP_START
  BY <1>1, <1>2, RegionFacts, HeapAssumption DEF IInv
<1>4. FreeRegions = {HEAP_START}
  BY <1>1, <1>3, RegionFacts DEF IInv
<1>5. /\ index \in Seq(Addr) /\ Len(index) \in Nat
      /\ \A i \in 1 .. Len(index) : index[i] = HEAP_START
      /\ \A i, j \in 1 .. Len(index) : index[i] = index[j] => i = j
      /\ \E i \in 1 .. Len(index) : index[i] = HEAP_START
  BY <1>4 DEF IInv, FreeListExact, Lists
<1>6. Len(index) = 1
  <2>1. Len(index) >= 1
    BY <1>5
  <2>2. ~(Len(index) >= 2)
    <3> SUFFICES ASSUME Len(index) >= 2 PROVE FALSE
      OBVIOUS
    <3>1. 1 \in 1 .. Len(index) /\ 2 \in 1 .. Len(index)
      BY <1>5
    <3>2. index[1] = index[2] /\ 1 # 2
      BY <1>5, <3>1
    <3> QED
      BY <1>5, <3>1, <3>2
  <2>3. Len(index) \in Nat
    BY <1>5
  <2> DEFINE n == Len(index)
  <2> HIDE DEF n
  <2>4. n \in Nat /\ n >= 1 /\ ~(n >= 2)
    BY <2>1, <2>2, <2>3 DEF n
  <2>5. n = 1
    BY ONLY <2>4
  <2> QED
    BY <2>5 DEF n
<1>7. index = <<HEAP_START>>
  BY <1>5, <1>6
<1> QED
  BY <1>1, <1>2, <1>3, <1>7

\* kmalloc returns NULL only when the heap is full (malloc.c:363-365).
THEOREM HeapFailsOnlyWhenFull == Spec => []FailsOnlyWhenFull
  BY HeapSafe, IInvFull, PTL

\* Giving every block back restores the heap of init_heap, in whatever order
\* kfree is called.
THEOREM HeapAllFreed == Spec => []AllFreedIsInitial
  BY HeapSafe, IInvInitial, PTL

\* Every successful kmalloc takes a smallest region that fits (malloc.c:355-361).
THEOREM HeapBestFit == Spec => BestFit
<1> DEFINE Fits == \A a \in Addr : type[a] = "none" /\ type'[a] = "alloc" =>
                     \A f \in FreeRegions :
                       size[f] >= size'[a] + R_HEADER_SIZE => size[f] >= size[link'[a]]
<1>1. IInv /\ [Next]_vars => [Fits]_vars
  <2> SUFFICES ASSUME IInv, Next, NEW a \in Addr, type[a] = "none", type'[a] = "alloc",
                      NEW f \in FreeRegions, size[f] >= size'[a] + R_HEADER_SIZE
               PROVE  size[f] >= size[link'[a]]
    BY DEF vars
  <2>1. CASE \E n \in Sizes : kmalloc(n)
    <3>1. PICK n \in Sizes : kmalloc(n)
      BY <2>1
    <3>2. ~(ret' = NULL /\ UNCHANGED <<type, size, link, index>>)
      OBVIOUS
    <3>3. PICK cur \in FreeRegions, hd \in Addr :
            /\ type' = [type EXCEPT ![hd] = "alloc"]
            /\ size' = [size EXCEPT ![cur] = hd - cur - R_HEADER_SIZE, ![hd] = n]
            /\ link' = [x \in Addr |-> IF x = hd THEN cur ELSE IF x = End(cur) THEN hd ELSE link[x]]
            /\ \A g \in FreeRegions : size[g] >= n + R_HEADER_SIZE => size[g] >= size[cur]
      BY <3>1, <3>2, KmallocEffect
    <3>4. a = hd
      BY <3>3 DEF IInv, TypeOK
    <3>5. size'[a] = n /\ link'[a] = cur
      BY SMTT(30), <3>3, <3>4 DEF IInv, TypeOK
    <3> QED
      BY <3>3, <3>5
  <2>2. CASE \E b \in Addr : kfree(b)
    <3>1. PICK b \in Addr : kfree(b)
      BY SMTT(30), <2>2
    <3>2. PICK u, absorbed, total, e : Merges(b, u, absorbed, total, e)
      BY <3>1, KfreeEffect
    <3>3. type'[a] = IF a = u THEN "free" ELSE IF a \in absorbed THEN "none" ELSE type[a]
      BY <3>2 DEF Merges
    <3> QED
      BY SMTT(30), <3>3
  <2> QED
    BY <2>1, <2>2 DEF Next
<1>2. BestFit <=> [][Fits]_vars
  BY DEF BestFit
<1> QED
  BY <1>1, <1>2, HeapSafe, PTL DEF Spec

-----------------------------------------------------------------------------
(* The heap implements the allocator it promises. *)

\* A step of the heap is a step of the allocator.
LEMMA HeapStep == IInv /\ Next => Promise!Next
<1> SUFFICES ASSUME IInv, Next PROVE Promise!Next
  OBVIOUS
<1>1. /\ R_HEADER_SIZE \in Nat /\ R_HEADER_SIZE > 0 /\ HEAP_START \in Nat /\ HEAP_END \in Nat
      /\ AllocRegions \subseteq Regions /\ Regions \subseteq Addr
      /\ \A r \in Regions : /\ r \in Int /\ size[r] \in Nat /\ HEAP_START <= r
                            /\ End(r) = r + size[r] + R_HEADER_SIZE
  BY RegionFacts, HeapAssumption DEF IInv
<1>2. ASSUME NEW n \in Sizes, kmalloc(n), ret' = NULL, UNCHANGED <<type, size, link, index>>
      PROVE  Promise!Fail(n)
  <2>1. \A i \in 1 .. Len(index) : size[index[i]] < n + R_HEADER_SIZE
    <3>1. PICK i \in 1 .. Len(index) + 1 :
            /\ StopsAt(index, size, Need(n), i)
            /\ \/ i = Len(index) + 1
               \/ /\ i <= Len(index)
                  /\ type' = [type EXCEPT ![index[i] + (size[index[i]] - n - R_HEADER_SIZE)
                                               + R_HEADER_SIZE] = "alloc"]
                  /\ ret' = index[i] + (size[index[i]] - n - R_HEADER_SIZE)
                                + R_HEADER_SIZE + R_HEADER_SIZE
      BY <1>2 DEF kmalloc
    <3>2. CASE i = Len(index) + 1
      <4>1. index \in Seq(Addr) /\ Len(index) \in Nat
        BY DEF IInv, TypeOK
      <4> QED
        BY <3>1, <3>2, <4>1 DEF StopsAt, Need
    <3>3. CASE i <= Len(index)
      <4>0. Len(index) \in Nat
        BY DEF IInv, TypeOK
      <4>1. i \in 1 .. Len(index)
        BY ONLY SMTT(30), <3>3, <4>0, i \in 1 .. Len(index) + 1
      <4>2. index[i] \in Regions /\ size[index[i]] >= n + R_HEADER_SIZE
        BY <3>1, <3>3, <4>1, RegionFacts DEF StopsAt, Need, IInv, FreeListExact, Lists
      <4>3. index[i] \in Nat /\ size[index[i]] \in Nat /\ n \in Nat
        BY <1>1, <4>2, HeapAssumption
      <4> DEFINE c == index[i]
                 z == size[c]
      <4>4. ret' = c + (z - n - R_HEADER_SIZE) + R_HEADER_SIZE + R_HEADER_SIZE
        BY <3>1, <3>3, <4>1
      <4>5. c \in Nat /\ z \in Nat /\ z >= n + R_HEADER_SIZE
        BY <4>2, <4>3
      <4> HIDE DEF c, z
      <4>6. ret' > 0
        BY <1>1, <4>3, <4>4, <4>5
      <4>7. ret' = 0
        BY <1>2 DEF NULL
      <4> QED
        BY ONLY <4>6, <4>7
    <3> QED
      BY SMTT(30), <3>1, <3>2, <3>3
  <2>2. ASSUME NEW lo \in HEAP_START .. HEAP_END,
               Promise!Unused(lo, lo + n + 2 * R_HEADER_SIZE)
        PROVE  FALSE
    <3> DEFINE hi == lo + n + 2 * R_HEADER_SIZE
    <3>1. lo \in Int /\ n \in Nat /\ hi \in Int /\ lo < hi /\ hi <= HEAP_END /\ HEAP_START <= lo
      BY <1>1, <2>2, HeapAssumption DEF Promise!Unused
    <3>2. ASSUME NEW a \in AllocRegions PROVE End(a) <= lo \/ hi <= a
      <4>1. <<a + R_HEADER_SIZE, size[a]>> \in Blocks
        BY DEF Blocks
      <4> DEFINE b == <<a + R_HEADER_SIZE, size[a]>>
      <4>2. b[1] = a + R_HEADER_SIZE /\ b[2] = size[a]
        OBVIOUS
      <4>3. b[1] + b[2] <= lo \/ hi <= b[1] - R_HEADER_SIZE
        <5> HIDE DEF b, hi
        <5> QED
          BY <2>2, <4>1 DEF Promise!Unused, b, hi
      <4>4. a \in Int /\ size[a] \in Nat /\ End(a) = a + size[a] + R_HEADER_SIZE
        BY <1>1
      <4> HIDE DEF b, hi
      <4> QED
        BY <1>1, <3>1, <4>2, <4>3, <4>4
    <3>3. lo \in Addr
      BY <1>1, <3>1 DEF Addr
    <3> QED
      BY <2>1, <3>1, <3>2, <3>3, IInvFull DEF FailsOnlyWhenFull
  <2>3. UNCHANGED Blocks
    BY <1>2 DEF Blocks, AllocRegions
  <2> QED
    BY <1>2, <2>2, <2>3 DEF Promise!Fail, Promise!NULL, NULL
<1>3. ASSUME NEW n \in Sizes, kmalloc(n), ~(ret' = NULL /\ UNCHANGED <<type, size, link, index>>)
      PROVE  Promise!Alloc(n)
  <2>1. PICK cur \in FreeRegions, hd \in Addr :
           /\ cur < hd /\ hd \notin Regions
           /\ hd + n + R_HEADER_SIZE = End(cur)
           /\ type' = [type EXCEPT ![hd] = "alloc"]
           /\ size' = [size EXCEPT ![cur] = hd - cur - R_HEADER_SIZE, ![hd] = n]
           /\ ret' = hd + R_HEADER_SIZE
    BY <1>3, KmallocEffect
  <2>2. /\ cur \in Regions /\ cur \notin AllocRegions /\ cur \in Int /\ hd \in Int /\ n \in Nat
        /\ HEAP_START <= cur /\ End(cur) <= HEAP_END
        /\ \A a \in AllocRegions : End(a) <= cur \/ End(cur) <= a
    <3>1. cur \in Regions /\ cur \notin AllocRegions
      BY RegionFacts DEF IInv
    <3> QED
      BY <3>1, RegionFacts, HeapAssumption DEF IInv, Addr
  <2>3. hd + R_HEADER_SIZE \in HEAP_START .. HEAP_END
    BY <1>1, <2>1, <2>2
  <2> DEFINE new == hd + R_HEADER_SIZE
  <2>4. Promise!Unused(new - R_HEADER_SIZE, new + n)
    <3>1. HEAP_START <= new - R_HEADER_SIZE /\ new + n <= HEAP_END
      BY <1>1, <2>1, <2>2
    <3>2. ASSUME NEW b \in Blocks
          PROVE  \/ b[1] + b[2] <= new - R_HEADER_SIZE
                 \/ new + n <= b[1] - R_HEADER_SIZE
      <4>1. PICK a \in AllocRegions : b = <<a + R_HEADER_SIZE, size[a]>>
        BY DEF Blocks
      <4>2. b[1] = a + R_HEADER_SIZE /\ b[2] = size[a]
        BY <4>1
      <4>3. a \in Int /\ size[a] \in Nat /\ End(a) = a + size[a] + R_HEADER_SIZE
        BY <1>1
      <4>4. End(a) <= cur \/ hd + n + R_HEADER_SIZE <= a
        BY <2>1, <2>2
      <4>5. /\ new - R_HEADER_SIZE = hd
            /\ b[1] - R_HEADER_SIZE = a
            /\ b[1] + b[2] = End(a)
            /\ new + n = hd + n + R_HEADER_SIZE
        BY <1>1, <2>2, <4>2, <4>3
      <4>6. End(a) <= hd \/ hd + n + R_HEADER_SIZE <= a
        BY <1>1, <2>1, <2>2, <4>3, <4>4
      <4> QED
        BY ONLY <4>5, <4>6
    <3> HIDE DEF new
    <3> QED
      BY <3>1, <3>2 DEF Promise!Unused
  <2>5. Blocks' = Blocks \cup {<<hd + R_HEADER_SIZE, n>>}
    <3>1. AllocRegions' = AllocRegions \cup {hd}
      BY <2>1 DEF IInv, TypeOK, AllocRegions
    <3>2. size'[hd] = n /\ \A a \in AllocRegions : size'[a] = size[a]
      BY SMTT(30), <1>1, <2>1, <2>2 DEF IInv, TypeOK
    <3>3. Blocks' = {<<a + R_HEADER_SIZE, size'[a]>> : a \in AllocRegions'}
      BY DEF Blocks
    <3> QED
      BY <3>1, <3>2, <3>3 DEF Blocks
  <2>6. new \in HEAP_START .. HEAP_END
    BY <2>3
  <2>7. Blocks' = Blocks \cup {<<new, n>>}
    BY <2>5
  <2>8. ret' = new
    BY <2>1
  <2> HIDE DEF new
  <2> QED
    BY <2>4, <2>6, <2>7, <2>8 DEF Promise!Alloc
<1>4. ASSUME NEW a \in Addr, kfree(a)
      PROVE  \E b \in Blocks : Promise!Free(b)
  <2>1. PICK u, absorbed, total, e : Merges(a, u, absorbed, total, e)
    BY SMTT(30), <1>4, KfreeEffect
  <2>2. /\ a \in AllocRegions /\ (absorbed \cup {u}) \cap AllocRegions = {a}
        /\ u \in Regions /\ absorbed \subseteq Regions
        /\ \A x \in Addr : /\ type'[x] = IF x = u THEN "free"
                                         ELSE IF x \in absorbed THEN "none" ELSE type[x]
                           /\ size'[x] = IF x = u THEN total
                                         ELSE IF x \in absorbed THEN 0 ELSE size[x]
        /\ ret' = ret
    BY <2>1 DEF Merges
  <2>3. AllocRegions' = AllocRegions \ {a}
    BY <2>2 DEF AllocRegions
  <2>4. \A x \in AllocRegions \ {a} : size'[x] = size[x]
    BY <1>1, <2>2
  <2>5. Blocks' = {<<x + R_HEADER_SIZE, size'[x]>> : x \in AllocRegions'}
    BY DEF Blocks
  <2>6. \A x \in AllocRegions : x + R_HEADER_SIZE = a + R_HEADER_SIZE => x = a
    BY <1>1, <2>2
  <2>7. \A x \in AllocRegions : <<x + R_HEADER_SIZE, size[x]>> = <<a + R_HEADER_SIZE, size[a]>> => x = a
    BY SMTT(30), <2>6
  <2>8. Blocks' = Blocks \ {<<a + R_HEADER_SIZE, size[a]>>}
    BY SMTT(30), <2>2, <2>3, <2>4, <2>5, <2>7 DEF Blocks
  <2>9. <<a + R_HEADER_SIZE, size[a]>> \in Blocks
    BY <2>2 DEF Blocks
  <2> QED
    BY <2>2, <2>8, <2>9 DEF Promise!Free
<1> QED
  BY <1>2, <1>3, <1>4 DEF Next, Promise!Next

\* kmalloc and kfree implement Allocator: the bytes of live blocks are disjoint,
\* kfree gives back one block and touches no other, and NULL means full.
THEOREM HeapImplementsAllocator == Spec => ImplementsAllocator
<1>1. Init => Promise!Init
  BY ZenonT(30) DEF Init, Promise!Init, Blocks, AllocRegions, Promise!NULL, NULL
<1>2. IInv /\ [Next]_vars => [Promise!Next]_(Promise!vars)
  BY HeapStep DEF vars, Promise!vars, Blocks, AllocRegions
<1> QED
  BY <1>1, <1>2, HeapSafe, PTL DEF Spec, ImplementsAllocator, Promise!Spec

=============================================================================
