----------------------------- MODULE MCConsole -----------------------------
(***************************************************************************)
(* Console in small: rows of 2 columns, a window of 3 rows, an input line  *)
(* of up to 2 rows, a history of one row more than the window.             *)
(***************************************************************************)
EXTENDS Console

NoticeOf == <<"a", NL>>

=============================================================================
