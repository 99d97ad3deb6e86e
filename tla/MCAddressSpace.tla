-------------------------- MODULE MCAddressSpace --------------------------
(***************************************************************************)
(* AddressSpace for TLC.  The programs are laid out as usr/init/init.ld    *)
(* does: text, then data from the next page on.  One has its text inside a *)
(* page and no data, one fills its page, so that the page mapped past the  *)
(* text is the first of the data, and one crosses into another page table. *)
(***************************************************************************)
EXTENDS AddressSpace

Program(first, tsize, dsize) ==
  [vma_text |-> first, text_size |-> tsize,
   vma_data |-> first + (tsize + 1) \div 2, data_size |-> dsize]

MCHeaders == {Program(0, 1, 0), Program(0, 2, 3), Program(0, 3, 1),
              Program(W - 2, 5, 4), Program(W - 1, 2, 1)}

=============================================================================
