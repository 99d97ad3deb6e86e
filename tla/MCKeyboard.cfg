CONSTANTS
  keycode_tbl <- Table
  Plain = {30, 42, 158, 183}
  Extended = {200, 29}
SPECIFICATION KbSpec
INVARIANTS KeysExact Recovers
