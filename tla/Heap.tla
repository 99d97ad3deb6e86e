-------------------------------- MODULE Heap --------------------------------
(***************************************************************************)
(* The kernel heap of kernel/malloc.c: kmalloc and kfree over one range of *)
(* memory [HEAP_START, HEAP_END) cut into regions, each behind a header.   *)
(*                                                                         *)
(* type, size and link are the fields of struct RegionHeader, indexed by   *)
(* the address of the header; type is "none" at an address that holds no   *)
(* header.  The linked list of free regions that starts at index_head is   *)
(* the sequence index; link is kept for the allocated regions, where it    *)
(* is the header of the region physically before (malloc.h).  HeapLinks    *)
(* models the same code with every list a chain of link fields; HeapLevels *)
(* checks that it implements this one.                                     *)
(*                                                                         *)
(* The heap has one caller at a time: init_console and the FAT driver run  *)
(* before interrupts are enabled, so each call is one step.                *)
(***************************************************************************)
EXTENDS Integers, Sequences

CONSTANTS HEAP_START, HEAP_END,  \* bounds of the heap, in bytes
          R_HEADER_SIZE,         \* sizeof(struct RegionHeader)
          Sizes                  \* the sizes the callers ask for

ASSUME HeapAssumption ==
  /\ HEAP_START \in Nat \ {0}
  /\ HEAP_END \in Nat
  /\ R_HEADER_SIZE \in Nat \ {0}
  /\ HEAP_START + R_HEADER_SIZE <= HEAP_END
  /\ Sizes \subseteq Nat

NULL == 0

Addr == HEAP_START .. HEAP_END - 1

VARIABLES type, size, link, \* the header fields, by header address
          index,            \* the free list, smallest region first
          ret               \* what the last kmalloc returned

vars == <<type, size, link, index, ret>>

-----------------------------------------------------------------------------

\* init_heap: one free region spans the heap.
Init ==
  /\ type = [a \in Addr |-> IF a = HEAP_START THEN "free" ELSE "none"]
  /\ size = [a \in Addr |-> IF a = HEAP_START
                              THEN HEAP_END - HEAP_START - R_HEADER_SIZE ELSE 0]
  /\ link = [a \in Addr |-> NULL]
  /\ index = <<HEAP_START>>
  /\ ret = NULL

\* GET_NEXT_HEADER, over a given size field.
GET_NEXT_HEADER(sz, a) == a + sz[a] + R_HEADER_SIZE

\* The loop "while(cur)" over a free list, leaving at the first region of at
\* least need bytes, stops at position j; j is past the end when none is.
StopsAt(list, sz, need, j) ==
  /\ j \in 1 .. Len(list) + 1
  /\ \A k \in 1 .. j - 1 : sz[list[k]] < need
  /\ j <= Len(list) => sz[list[j]] >= need

\* add_free_region: new goes between positions j - 1 and j of the list.
add_free_region(list, j, new) ==
  SubSeq(list, 1, j - 1) \o <<new>> \o SubSeq(list, j, Len(list))

\* del_free_region: the list without its i-th region.
del_free_region(list, i) ==
  SubSeq(list, 1, i - 1) \o SubSeq(list, i + 1, Len(list))

\* add_alloc_region: the allocated region after a points back to a.
add_alloc_region(lk, a) ==
  LET next == GET_NEXT_HEADER(size', a)
  IN  IF next < HEAP_END /\ type[next] # "free"
        THEN [lk EXCEPT ![next] = a] ELSE lk

\* The free bytes a region must have for a block of n bytes: its own header
\* stays behind, so the block's header comes out of them.
Need(n) == n + R_HEADER_SIZE

\* kmalloc takes the first region that fits, cuts the block off its end and
\* puts what is left, its header included, back in the list.
kmalloc(n) ==
  \E i \in 1 .. Len(index) + 1 :
    /\ StopsAt(index, size, Need(n), i)
    /\ \/ /\ i = Len(index) + 1
          /\ ret' = NULL
          /\ UNCHANGED <<type, size, link, index>>
       \/ /\ i <= Len(index)
          /\ LET cur      == index[i]
                 left     == size[cur] - n - R_HEADER_SIZE
                 others   == del_free_region(index, i)
                 alloc_hd == cur + left + R_HEADER_SIZE
             IN  /\ size' = [size EXCEPT ![cur] = left, ![alloc_hd] = n]
                 /\ \E j \in 1 .. Len(others) + 1 :
                      /\ StopsAt(others, size, left, j)
                      /\ index' = add_free_region(others, j, cur)
                 /\ type' = [type EXCEPT ![alloc_hd] = "alloc"]
                 /\ link' = add_alloc_region([link EXCEPT ![alloc_hd] = cur], alloc_hd)
                 /\ ret' = alloc_hd + R_HEADER_SIZE

\* kfree looks r up in the list and takes it out.
Unlink(list, r) ==
  del_free_region(list, CHOOSE p \in 1 .. Len(list) : list[p] = r)

\* Whether the regions before and after the allocated region a are free.
PrevFree(a) == type[link[a]] = "free"
NextFree(a) ==
  LET next == GET_NEXT_HEADER(size, a) IN next < HEAP_END /\ type[next] = "free"

\* What a region gains by taking in the region r behind it.
Gain(r) == R_HEADER_SIZE + size[r]

\* kfree of the block whose header is at a: the region is merged with the free
\* regions next to it and goes back to the list; the region after it points back.
kfree(a) ==
  LET prev     == link[a]
      next     == GET_NEXT_HEADER(size, a)
      list1    == IF PrevFree(a) THEN Unlink(index, prev) ELSE index
      list2    == IF NextFree(a) THEN Unlink(list1, next) ELSE list1
      unified  == IF PrevFree(a) THEN prev ELSE a
      absorbed == (IF PrevFree(a) THEN {a} ELSE {}) \cup (IF NextFree(a) THEN {next} ELSE {})
      total    == size[unified] + (IF PrevFree(a) THEN Gain(a) ELSE 0)
                                + (IF NextFree(a) THEN Gain(next) ELSE 0)
      end      == unified + total + R_HEADER_SIZE
  IN  /\ type[a] = "alloc"
      /\ type' = [x \in Addr |-> IF x = unified THEN "free"
                                 ELSE IF x \in absorbed THEN "none" ELSE type[x]]
      /\ size' = [x \in Addr |-> IF x = unified THEN total
                                 ELSE IF x \in absorbed THEN 0 ELSE size[x]]
      /\ link' = [x \in Addr |-> IF x = end THEN unified
                                 ELSE IF x \in absorbed \cup {unified} THEN NULL
                                 ELSE link[x]]
      /\ \E j \in 1 .. Len(list2) + 1 :
           /\ StopsAt(list2, size, total, j)
           /\ index' = add_free_region(list2, j, unified)
      /\ UNCHANGED ret

Next == (\E n \in Sizes : kmalloc(n)) \/ (\E a \in Addr : kfree(a))

Spec == Init /\ [][Next]_vars

-----------------------------------------------------------------------------

\* The addresses of the headers, and the header or end of heap after a region.
Regions == {a \in Addr : type[a] # "none"}
FreeRegions == {a \in Addr : type[a] = "free"}
AllocRegions == {a \in Addr : type[a] = "alloc"}
End(a) == GET_NEXT_HEADER(size, a)

TypeOK ==
  /\ type \in [Addr -> {"free", "alloc", "none"}]
  /\ size \in [Addr -> Nat]
  /\ link \in [Addr -> Addr \cup {NULL}]
  /\ index \in Seq(Addr)
  /\ ret \in {NULL} \cup Addr \cup {HEAP_END}

\* The regions tile the heap: the first starts at HEAP_START, each ends where
\* another starts or at HEAP_END, no two overlap and no byte is lost.  kmalloc's
\* cut and kfree's merge must neither lose nor double a byte (malloc.c:367-373,
\* 429-438).
Tiling ==
  /\ HEAP_START \in Regions
  /\ \A a \in Regions : End(a) \in Regions \cup {HEAP_END}
  /\ \A a, b \in Regions : a < b => End(a) <= b
  /\ \A x \in Addr : \E a \in Regions : a <= x /\ x < End(a)

\* Two free regions are never neighbours: kfree merges with both sides
\* (malloc.c:407-438), so free memory is never split.
Coalesced ==
  \A a \in FreeRegions : End(a) \notin FreeRegions

\* The link of an allocated region is the region physically before it, which is
\* what kfree merges with (malloc.h:18, malloc.c:391).
BackLinks ==
  \A a \in AllocRegions : link[a] \in Regions /\ End(link[a]) = a

\* list holds every region of R once and nothing else, smallest first.
Lists(list, R, sz) ==
  /\ list \in Seq(Addr)
  /\ \A i \in 1 .. Len(list) : list[i] \in R
  /\ \A i, j \in 1 .. Len(list) : list[i] = list[j] => i = j
  /\ \A a \in R : \E i \in 1 .. Len(list) : list[i] = a
  /\ \A i, j \in 1 .. Len(list) : i <= j => sz[list[i]] <= sz[list[j]]

\* The free list holds the free regions, smallest first (malloc.h:19-20): no
\* region is lost from the list, listed twice or listed while in use, although
\* kmalloc and kfree unlink and re-insert regions whose size they change.
FreeListExact == Lists(index, FreeRegions, size)

\* The inductive invariant: what kmalloc and kfree need of each other.
IInv == TypeOK /\ Tiling /\ Coalesced /\ BackLinks /\ FreeListExact

\* kmalloc gives up only when memory really is exhausted: when no region on the
\* list fits a request (malloc.c:363-365), no stretch of n bytes plus two headers
\* (the block's and the one left behind) is free of allocated regions.
FailsOnlyWhenFull ==
  \A n \in Sizes :
    (\A i \in 1 .. Len(index) : size[index[i]] < n + R_HEADER_SIZE)
      => ~\E lo \in Addr :
            /\ lo + n + 2 * R_HEADER_SIZE <= HEAP_END
            /\ \A a \in AllocRegions :
                 End(a) <= lo \/ lo + n + 2 * R_HEADER_SIZE <= a

\* Once every block has been given back the heap is as init_heap left it,
\* whatever the order of the calls: one free region of the full size.
AllFreedIsInitial ==
  AllocRegions = {} =>
    /\ Regions = {HEAP_START}
    /\ index = <<HEAP_START>>
    /\ End(HEAP_START) = HEAP_END

\* kmalloc cuts its block from a free region that no other fitting free region
\* undercuts: "search best fitting (least waste)" (malloc.c:62).
BestFit ==
  [][\A a \in Addr : type[a] = "none" /\ type'[a] = "alloc" =>
       \A f \in FreeRegions :
         size[f] >= size'[a] + R_HEADER_SIZE => size[f] >= size[link'[a]]]_vars

\* The blocks the callers hold, and the promise made to them: the heap
\* implements Allocator.
Blocks == {<<a + R_HEADER_SIZE, size[a]>> : a \in AllocRegions}
Promise == INSTANCE Allocator WITH blocks <- Blocks
ImplementsAllocator == Promise!Spec

=============================================================================
