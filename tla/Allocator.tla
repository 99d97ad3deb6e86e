------------------------------ MODULE Allocator ------------------------------
(***************************************************************************)
(* What kernel/malloc.c promises its callers, without regions or lists: a  *)
(* set of live blocks <<address, length>>, each owning its bytes and the   *)
(* header in front of them.                                                *)
(***************************************************************************)
EXTENDS Integers

CONSTANTS HEAP_START, HEAP_END, R_HEADER_SIZE, Sizes

NULL == 0

VARIABLES blocks, \* the blocks handed out and not yet given back
          ret     \* what the last kmalloc returned

vars == <<blocks, ret>>

\* The bytes [lo, hi) belong to no live block.
Unused(lo, hi) ==
  /\ HEAP_START <= lo /\ hi <= HEAP_END
  /\ \A b \in blocks : b[1] + b[2] <= lo \/ hi <= b[1] - R_HEADER_SIZE

Init == blocks = {} /\ ret = NULL

\* A new block overlaps no live one.
Alloc(n) ==
  \E a \in HEAP_START .. HEAP_END :
    /\ Unused(a - R_HEADER_SIZE, a + n)
    /\ blocks' = blocks \cup {<<a, n>>}
    /\ ret' = a

\* NULL means that no unused stretch holds n bytes and two headers.
Fail(n) ==
  /\ ~\E lo \in HEAP_START .. HEAP_END : Unused(lo, lo + n + 2 * R_HEADER_SIZE)
  /\ ret' = NULL
  /\ UNCHANGED blocks

\* Giving a block back leaves every other block alone.
Free(b) ==
  /\ blocks' = blocks \ {b}
  /\ UNCHANGED ret

Next ==
  \/ \E n \in Sizes : Alloc(n) \/ Fail(n)
  \/ \E b \in blocks : Free(b)

Spec == Init /\ [][Next]_vars

=============================================================================
