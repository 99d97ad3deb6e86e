------------------------------- MODULE MCAta -------------------------------
(***************************************************************************)
(* A drive of three sectors of two words.                                  *)
(***************************************************************************)
EXTENDS Ata

\* A drive the driver supports, of 5 * 2 ^ BITS + 3 sectors, and one without LBA.
Drive == [info |-> 64, major |-> 112, capabilities |-> 512, max_lba |-> <<3, 5>>]
Identified == {Drive, [Drive EXCEPT !.capabilities = 0]}

=============================================================================
