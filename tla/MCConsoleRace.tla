--------------------------- MODULE MCConsoleRace ---------------------------
(***************************************************************************)
(* ConsoleRace with the sizes of MCConsole.                                *)
(***************************************************************************)
EXTENDS ConsoleRace

NoticeOf == <<"a", NL>>

=============================================================================
