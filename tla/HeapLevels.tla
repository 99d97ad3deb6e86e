---------------------------- MODULE HeapLevels ----------------------------
(***************************************************************************)
(* The heap at both levels at once: the pointer code of HeapLinks runs,    *)
(* and the variables of Heap follow it by a refinement mapping.            *)
(* What is checked of Heap's variables is therefore checked of the pointer *)
(* code, and Heap's own specification is the one it has to implement.      *)
(***************************************************************************)
EXTENDS Heap

VARIABLE mem \* the headers and index_head of HeapLinks

Links == INSTANCE HeapLinks

\* The headers and sizes are the same; Heap keeps the links of allocated regions
\* only, and has the chain of links from index_head as a sequence.
BackLink == [a \in Addr |-> IF mem.type[a] = "alloc" THEN mem.link[a] ELSE NULL]

LinksInit ==
  /\ Links!Init
  /\ type = mem.type /\ size = mem.size /\ link = BackLink /\ index = Links!FreeList

LinksNext ==
  /\ Links!Next
  /\ type' = mem'.type /\ size' = mem'.size /\ link' = BackLink' /\ index' = Links!FreeList'

LinksSpec == LinksInit /\ [][LinksNext]_<<mem, vars>>

\* The pointer code implements Heap: whatever kmalloc and kfree do to the links, the
\* headers in use, their sizes, the back links and the free list change as that
\* module says.  One field is both the next free region and the region before
\* (malloc.h:18-20), and kfree's last statement (malloc.c:445) writes it without
\* looking at which kind of region it belongs to.
ImplementsHeap == Spec

=============================================================================
