----------------------------- MODULE MCKeyboard -----------------------------
(***************************************************************************)
(* Keyboard with a few of the keys: press and release of A, Shift, Enter,  *)
(* the keypad's * (whose make code ends PrintScreen, and whose break code  *)
(* 0xB7 begins its release), and Up, Down and right Ctrl behind 0xE0.      *)
(***************************************************************************)
EXTENDS Keyboard

\* The entries of the table that those keys use; the length is that of the code.
Table == [i \in 1 .. 86 |-> CASE i = 29 -> "ENTER" [] i = 31 -> "A" [] i = 43 -> "SHIFT"
                              [] i = 56 -> "WILDCARD" [] OTHER -> "EMPTY"]

=============================================================================
