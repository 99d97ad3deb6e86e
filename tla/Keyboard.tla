------------------------------ MODULE Keyboard ------------------------------
(***************************************************************************)
(* The scan code machine of drivers/keyboard.c.  A key event is the        *)
(* sequence of bytes that a keyboard sends for it in scan code set 1; each *)
(* byte raises an interrupt and kb_handler collects it.  Bytes arrive in   *)
(* order; a byte may be lost.                                              *)
(***************************************************************************)
EXTENDS Integers, Sequences

CONSTANTS keycode_tbl, \* the table of key codes of one-byte scan codes
          Plain,       \* the bytes that are an event of their own
          Extended     \* the bytes that are an event behind 0xE0

Scancode == 0 .. 255
E0 == 224
E1 == 225
SHIFT_MAKE == 42      \* 0x2A
PRINT_BREAK == 183    \* 0xB7

PrintScreen        == <<E0, SHIFT_MAKE, E0, 55>>
PrintScreenRelease == <<E0, PRINT_BREAK, E0, 170>>
Pause              == <<E1, 29, 69, E1, 157, 197>>

\* The keyboards the driver is written for send no 0xE0 or 0xE1 as a plain byte,
\* no fake shifts, and no code right behind the table.
ASSUME KeyboardAssumption ==
  /\ Plain \subseteq Scancode \ {E0, E1, Len(keycode_tbl)}
  /\ Extended \subseteq Scancode \ {SHIFT_MAKE, PRINT_BREAK}
  /\ keycode_tbl \in Seq(STRING)

Events == {<<m>> : m \in Plain} \cup {<<E0, m>> : m \in Extended}
            \cup {PrintScreen, PrintScreenRelease, Pause}

\* The key codes of a byte alone and of a byte behind 0xE0.
TableKey(sc) == IF sc < Len(keycode_tbl) THEN keycode_tbl[sc + 1] ELSE "EMPTY"
ExtendedKey(sc) == IF sc = 200 THEN "UP_RELEASE"
                   ELSE IF sc = 208 THEN "DOWN_RELEASE" ELSE "EMPTY"

\* The key code an event stands for.
Meaning(e) ==
  IF e = PrintScreen THEN "PRINTSCR"
  ELSE IF e = PrintScreenRelease THEN "PRINTSCR_RELEASE"
  ELSE IF e = Pause THEN "PAUSE"
  ELSE IF Len(e) = 2 THEN ExtendedKey(e[2]) ELSE TableKey(e[1])

VARIABLES scancode_history, \* the bytes collected; the code reads no entry above its depth
          event, pos, \* the event being sent, and how many of its bytes are out
          key,        \* the key code of the last byte, "none" if it was collected
          lost,       \* whether a byte was lost and five quiet events have not passed
          quiet       \* one-byte events received in a row since the last lost byte

kbvars == <<scancode_history, event, pos, key, lost, quiet>>

scancode_depth == Len(scancode_history)

PrintKey == scancode_history[1] = E0 /\ scancode_history[2] \in {SHIFT_MAKE, PRINT_BREAK}

\* Mutant: a Pause sequence is collected to its last byte.
Collects_all(sc) ==
  \/ scancode_depth = 0 /\ sc \in {E0, E1}
  \/ scancode_depth = 1 /\ (scancode_history[1] = E1 \/ sc \in {SHIFT_MAKE, PRINT_BREAK})
  \/ scancode_depth = 3 /\ ~PrintKey
  \/ scancode_depth \in {2, 4, 5}

\* The branches that end in goto _put_scan_history.
Collects(sc) ==
  \/ scancode_depth = 0 /\ sc \in {E0, E1}
  \/ scancode_depth = 1 /\ (scancode_history[1] = E1 \/ sc \in {SHIFT_MAKE, PRINT_BREAK})
  \/ scancode_depth = 3 /\ ~PrintKey
  \/ scancode_depth \in {2, 4}

\* Mutant: PrintScreen and its release are swapped.
KeyCode_swapped(sc) ==
  IF scancode_depth = 0 THEN TableKey(sc)
  ELSE IF scancode_depth = 1 THEN ExtendedKey(sc)
  ELSE IF scancode_depth = 3 /\ scancode_history[2] = PRINT_BREAK THEN "PRINTSCR"
  ELSE IF scancode_depth = 3 THEN "PRINTSCR_RELEASE" ELSE "PAUSE"

\* The key code of a byte that ends a sequence.
KeyCode(sc) ==
  IF scancode_depth = 0 THEN TableKey(sc)
  ELSE IF scancode_depth = 1 THEN ExtendedKey(sc)
  ELSE IF scancode_depth = 3 /\ scancode_history[2] = SHIFT_MAKE THEN "PRINTSCR"
  ELSE IF scancode_depth = 3 THEN "PRINTSCR_RELEASE" ELSE "PAUSE"

-----------------------------------------------------------------------------

\* kb_handler: the byte is collected, or it ends the sequence and a key code goes
\* to shell_get_key_code.
kb_handler(sc) ==
  \/ /\ Collects(sc)
     /\ scancode_history' = Append(scancode_history, sc)
     /\ key' = "none"
  \/ /\ ~Collects(sc)
     /\ scancode_history' = <<>>
     /\ key' = KeyCode(sc)

Pending == pos < Len(event)

Send(e) ==
  /\ ~Pending
  /\ event' = e /\ pos' = 0
  /\ lost' = (lost /\ quiet < 5) /\ quiet' = IF quiet < 5 THEN quiet ELSE 0
  /\ UNCHANGED <<scancode_history, key>>

Receive ==
  /\ Pending
  /\ kb_handler(event[pos + 1])
  /\ pos' = pos + 1
  /\ quiet' = IF lost /\ Len(event) = 1 THEN quiet + 1 ELSE 0
  /\ UNCHANGED <<event, lost>>

Lose ==
  /\ Pending
  /\ pos' = pos + 1 /\ lost' = TRUE /\ quiet' = 0
  /\ UNCHANGED <<scancode_history, event, key>>

KbInit ==
  /\ scancode_history = <<>>
  /\ event = <<>> /\ pos = 0
  /\ key = "none" /\ lost = FALSE /\ quiet = 0

KbNext == (\E e \in Events : Send(e)) \/ Receive \/ Lose

KbSpec == KbInit /\ [][KbNext]_kbvars

-----------------------------------------------------------------------------

\* The collected bytes fit scancode_history, whatever bytes arrive or get lost:
\* the handler never indexes past its six entries.
KbTypeOK ==
  /\ scancode_history \in Seq(Scancode) /\ scancode_depth <= 5
  /\ event \in Events \cup {<<>>} /\ pos \in 0 .. Len(event)
  /\ lost \in BOOLEAN /\ quiet \in 0 .. 5

\* An event whose bytes all arrive reaches the shell as its key code with its last
\* byte, and no byte before that is taken for a key, whatever was sent before; after
\* a loss this holds again once five one-byte events have passed.
KeysExact ==
  ~lost /\ pos > 0 => key = IF pos = Len(event) THEN Meaning(event) ELSE "none"

\* A lost byte confuses the handler for at most five one-byte events (key presses
\* and releases): then it is back at the start of a sequence.
Recovers == quiet = 5 => scancode_depth = 0

=============================================================================
