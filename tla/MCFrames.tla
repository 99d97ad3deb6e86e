----------------------------- MODULE MCFrames -----------------------------
(***************************************************************************)
(* Frames for TLC: bytes of three bits, ranges that end on a byte and      *)
(* inside one, and overlap, as the calls of test_frame and of the kernel do.*)
(***************************************************************************)
EXTENDS Frames

MCRanges == {<<3, 11>>, <<6, 11>>, <<3, 8>>, <<9, 10>>}

=============================================================================
