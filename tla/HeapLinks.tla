----------------------------- MODULE HeapLinks -----------------------------
(***************************************************************************)
(* kernel/malloc.c at the level of its pointers: one link field per header *)
(* is both the "next greater free region" of a free region and the         *)
(* "physically previous region" of an allocated one (malloc.h:18-20), the  *)
(* free list is the chain of links from index_head.  A header that a merge *)
(* swallows becomes payload, to be overwritten by whoever gets the bytes:  *)
(* the model clears it, so that a later use of it would show.  Each call   *)
(* is one step, as in Heap; HeapLevels relates the two modules.             *)
(***************************************************************************)
EXTENDS Integers, Sequences

CONSTANTS HEAP_START, HEAP_END, R_HEADER_SIZE, Sizes

NULL == 0

Addr == HEAP_START .. HEAP_END - 1

VARIABLES mem, \* the header fields type, size and link, and index_head
          ret

vars == <<mem, ret>>

Init ==
  /\ mem = [type |-> [a \in Addr |-> IF a = HEAP_START THEN "free" ELSE "none"],
            size |-> [a \in Addr |-> IF a = HEAP_START
                        THEN HEAP_END - HEAP_START - R_HEADER_SIZE ELSE 0],
            link |-> [a \in Addr |-> NULL],
            index_head |-> HEAP_START]
  /\ ret = NULL

GET_NEXT_HEADER(m, a) == a + m.size[a] + R_HEADER_SIZE

\* The loop "while(cur)" that leaves at a region of at least need bytes: the
\* values of prev and cur when it ends.
RECURSIVE WalkToSize(_, _, _, _)
WalkToSize(m, need, prev, cur) ==
  IF cur = NULL \/ m.size[cur] >= need
    THEN [prev |-> prev, cur |-> cur]
    ELSE WalkToSize(m, need, cur, m.link[cur])

\* The loop "while(it2!=r)" of kfree: the value of it1 when it ends.
RECURSIVE WalkTo(_, _, _, _)
WalkTo(m, r, it1, it2) ==
  IF it2 = r THEN it1 ELSE WalkTo(m, r, it2, m.link[it2])

add_free_region(m, prev, next, new) ==
  LET m1 == IF prev = NULL THEN [m EXCEPT !.index_head = new]
                           ELSE [m EXCEPT !.link[prev] = new]
  IN  [m1 EXCEPT !.link[new] = next]

del_free_region(m, prev, deleted) ==
  IF prev # NULL THEN [m EXCEPT !.link[prev] = m.link[deleted]]
                 ELSE [m EXCEPT !.index_head = m.link[deleted]]

\* Mutant: the region goes to the head of the list, whatever its size.
search_and_add_free_region_head(m, new) == add_free_region(m, NULL, m.index_head, new)

search_and_add_free_region(m, new) ==
  LET w == WalkToSize(m, m.size[new], NULL, m.index_head)
  IN  add_free_region(m, w.prev, w.cur, new)

add_alloc_region(m, a) ==
  LET next == GET_NEXT_HEADER(m, a)
  IN  IF next >= HEAP_END \/ m.type[next] = "free" THEN m
      ELSE [m EXCEPT !.link[next] = a]

\* Mutant: room for one header too many is asked for.
Need_double(n) == n + 2 * R_HEADER_SIZE

\* What a free region must have besides its own header, which stays behind.
Need(n) == n + R_HEADER_SIZE

kmalloc(n) ==
  LET w == WalkToSize(mem, Need(n), NULL, mem.index_head)
      m1 == del_free_region(mem, w.prev, w.cur)
      m2 == search_and_add_free_region([m1 EXCEPT !.size[w.cur] = @ - n - R_HEADER_SIZE], w.cur)
      alloc_hd == GET_NEXT_HEADER(m2, w.cur)
      m3 == [m2 EXCEPT !.type[alloc_hd] = "alloc",
                       !.size[alloc_hd] = n,
                       !.link[alloc_hd] = w.cur]
  IN  \/ w.cur = NULL /\ ret' = NULL /\ UNCHANGED mem
      \/ /\ w.cur # NULL
         /\ mem' = add_alloc_region(m3, alloc_hd)
         /\ ret' = alloc_hd + R_HEADER_SIZE

\* Mutants: the region on one side is taken for allocated, so that it is not merged.
FreeBefore_none(header) == NULL
FreeAfter_none(header) == NULL

\* The free region physically before, or after, the one at header; NULL if there is none.
FreeBefore(header) ==
  LET before == mem.link[header]
  IN  IF mem.type[before] = "alloc" THEN NULL ELSE before

FreeAfter(header) ==
  LET after == GET_NEXT_HEADER(mem, header)
  IN  IF after >= HEAP_END \/ mem.type[after] = "alloc" THEN NULL ELSE after

\* Takes r, when it is not NULL, out of the free list.
DropFree(m, r) ==
  IF r = NULL THEN m ELSE del_free_region(m, WalkTo(m, r, NULL, m.index_head), r)

\* The region at u takes in the region at r, when that is not NULL or u itself.
Absorb(m, u, r) ==
  IF r \in {NULL, u} THEN m
  ELSE [m EXCEPT !.size[u] = @ + R_HEADER_SIZE + m.size[r],
                 !.type[r] = "none", !.size[r] = 0, !.link[r] = NULL]

\* Mutant: the region that follows keeps its link.
PointBack_skipped(m, u) == m

\* After the merge, the region that follows points back to the merged one.
PointBack(m, u) ==
  LET next == GET_NEXT_HEADER(m, u)
  IN  IF next >= HEAP_END THEN m ELSE [m EXCEPT !.link[next] = u]

kfree(header) ==
  LET next    == FreeAfter(header)
      prev    == FreeBefore(header)
      m1      == DropFree(DropFree([mem EXCEPT !.type[header] = "free"], prev), next)
      unified == IF prev = NULL THEN header ELSE prev
      m2      == Absorb(Absorb(m1, unified, header), unified, next)
  IN  /\ mem' = PointBack(search_and_add_free_region(m2, unified), unified)
      /\ UNCHANGED ret

-----------------------------------------------------------------------------

Headers == {a \in Addr : mem.type[a] # "none"}

\* The callers give back only what kmalloc gave them ("don't check sanify for
\* free function", malloc.c:34).
Next ==
  \/ \E n \in Sizes : kmalloc(n)
  \/ \E a \in Headers : mem.type[a] = "alloc" /\ kfree(a)

Spec == Init /\ [][Next]_vars

\* The chain of links from a, cut after fuel regions: longer than the free regions
\* are many if it does not end.
RECURSIVE Chain(_, _, _)
Chain(m, a, fuel) ==
  IF a = NULL \/ fuel = 0 THEN <<>> ELSE <<a>> \o Chain(m, m.link[a], fuel - 1)

FreeList == Chain(mem, mem.index_head, HEAP_END)

=============================================================================
