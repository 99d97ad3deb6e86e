---------------------------- MODULE MCBootLoad ----------------------------
(***************************************************************************)
(* Both floppies, 1.44M and 2.88M, from the first sector to the last.      *)
(***************************************************************************)
EXTENDS BootLoad

Floppies == {18, 36}

=============================================================================
