----------------------------- MODULE ConsoleOps -----------------------------
(***************************************************************************)
(* The operations of the console, kernel/console.c over kernel/vga.c, and  *)
(* what the shell (kernel/shell.c) does to it for a key, as operators.     *)
(*                                                                         *)
(* Their argument c and their value are records of the C globals.  history *)
(* is a ring: byte number n is at n % CONSOLE_HISTORY_SIZE.  window is the *)
(* window buffer by index, screen the text memory of the VGA by            *)
(* row * COL + col: the input line on top, then the rows of the window,    *)
(* then the status bar that nothing writes.                                *)
(***************************************************************************)
EXTENDS Integers, Sequences, SequencesExt, FiniteSetsExt

CONSTANTS console_max_col, console_max_row, status_bar_lines,
          CONSOLE_HISTORY_SIZE, INPUT_AREA_MAX_ROW, VGA_MAX_ROW,
          UINT,    \* the modulus of uint32_t; any number far above the sizes
          NL, NUL, \* the bytes '\n' and 0
          Junk,    \* a byte of memory that was never written
          Letters, \* the other bytes that are printed and typed
          Notice   \* the text printed for PrintScreen and Pause

COL == console_max_col

ASSUME ConsoleAssumption ==
  /\ COL \in Nat \ {0} /\ console_max_row - 1 - status_bar_lines > 0
  /\ VGA_MAX_ROW >= console_max_row /\ Junk \notin Letters \cup {NL, NUL}

max_window_size == (console_max_row - 1 - status_bar_lines) * COL
WinIdx == 0 .. max_window_size - 1
Byte   == Letters \cup {NL, NUL}

\* vga_write_char, which ignores a row outside the text memory.
vga_write_char(screen, c, x, y) ==
  IF y < VGA_MAX_ROW THEN [screen EXCEPT ![y * COL + x] = c] ELSE screen

\* The rows of input beyond the first that n characters take.
inpws_to_rn(n) == IF n <= COL THEN 0 ELSE (n - 1) \div COL

-----------------------------------------------------------------------------
\* Rows of the history.

\* The search back from next_start: it ends at the oldest byte kept, after
\* COL bytes, or behind a '\n' other than the one right before next_start.
prev_line_start(c, next_start) ==
  LET oldest == IF c.history_cnt > CONSOLE_HISTORY_SIZE
                  THEN c.history_cnt - CONSOLE_HISTORY_SIZE ELSE 0
  IN  Max({o \in 0 .. next_start :
             \/ o <= oldest
             \/ next_start - o >= COL
             \/ o # next_start /\ c.history[(o - 1) % CONSOLE_HISTORY_SIZE] = NL})

\* Mutant: the '\n' that ends a row is left to the next row.
next_line_start_before(c, line_start) ==
  Min({o \in line_start .. line_start + COL :
         \/ o >= c.history_cnt
         \/ o - line_start = COL
         \/ o > line_start /\ c.history[o % CONSOLE_HISTORY_SIZE] = NL})

\* The search forward: to the end of the history, over COL bytes, or past a '\n'.
next_line_start(c, line_start) ==
  Min({o \in line_start .. line_start + COL :
         \/ o >= c.history_cnt
         \/ o - line_start = COL
         \/ o > line_start /\ c.history[(o - 1) % CONSOLE_HISTORY_SIZE] = NL})

\* Mutant: a '\n' in the first column of the window takes no row.
calc_window_delta_round(ws, c) ==
  IF c = NL THEN ((ws + COL - 1) \div COL) * COL - ws ELSE 1

\* How far a byte moves the end of a window of ws cells: '\n' fills its row.
calc_window_delta(ws, c) ==
  IF c = NL THEN COL - ((ws + COL) % COL) ELSE 1

-----------------------------------------------------------------------------
\* The window buffer and the screen.

\* draw_window: all cells whose row is above the status bar.
draw_window(c) ==
  LET top == (inpws_to_rn(c.input_cnt) + 1) * COL
      end == (console_max_row - status_bar_lines) * COL
  IN  [c EXCEPT !.screen = [p \in DOMAIN @ |->
         IF p >= top /\ p < end /\ p - top \in WinIdx
           THEN IF c.window[p - top] = NL THEN NUL ELSE c.window[p - top]
           ELSE @[p]]]

\* output_window_one_to_vga: one cell, unless it is as low as the status bar.
output_window_one_to_vga(c, widx, b) ==
  LET row == widx \div COL + inpws_to_rn(c.input_cnt) + 1
  IN  IF row >= console_max_row - status_bar_lines THEN c
      ELSE [c EXCEPT !.screen =
              vga_write_char(@, IF b = NL THEN NUL ELSE b, widx % COL, row)]

\* The loop of update_window_buffer from byte i on, with the cells filled so far;
\* behind a '\n' the row is filled with 0.
RECURSIVE Fill(_, _, _)
Fill(c, cells, i) ==
  IF Len(cells) < max_window_size /\ i < c.history_cnt
    THEN LET b   == c.history[i % CONSOLE_HISTORY_SIZE]
             pad == IF b = NL THEN (-1 - Len(cells)) % COL ELSE 0
         IN  Fill(c, cells \o <<b>> \o [k \in 1 .. pad |-> NUL], i + 1)
    ELSE [cells |-> cells, last |-> i]

update_window_buffer(c) ==
  LET filled == Fill(c, <<>>, c.window_first_history)
      size   == Len(filled.cells)
  IN  [c EXCEPT !.window_size = size, !.window_last_history = filled.last,
                !.window = [w \in WinIdx |-> IF w < size THEN filled.cells[w + 1] ELSE NUL]]

\* window_move_up and window_move_down return early if the start does not move.
window_move_up(c) ==
  LET start == prev_line_start(c, c.window_first_history)
  IN  IF start >= c.window_first_history THEN c
      ELSE draw_window(update_window_buffer([c EXCEPT !.window_first_history = start]))

move_down_window_start_position(c) ==
  [c EXCEPT !.window_first_history = next_line_start(c, @)]

window_move_down(c) ==
  IF next_line_start(c, c.window_first_history) <= c.window_first_history THEN c
  ELSE draw_window(update_window_buffer(move_down_window_start_position(c)))

-----------------------------------------------------------------------------
\* write_console_one, in the parts that ConsoleRace interleaves.

Following(c) == c.history_cnt = c.window_last_history

\* A window that shows older history jumps to the end of it.
Jump(c) ==
  IF Following(c) THEN c
  ELSE [c EXCEPT !.window_size = 0, !.window_first_history = c.history_cnt]

Grow(c, b) == [c EXCEPT !.window_size = @ + calc_window_delta(@, b)]

\* Mutant: the counter is advanced before the byte is stored.
Store_after(c, b) ==
  [c EXCEPT !.history[(c.history_cnt + 1) % CONSOLE_HISTORY_SIZE] = b,
            !.history_cnt = @ + 1]

Store(c, b) ==
  [c EXCEPT !.history[c.history_cnt % CONSOLE_HISTORY_SIZE] = b,
            !.history_cnt = @ + 1]

\* Past its end the window moves down a row; within it, the cells from old on
\* are filled.
Place(c, old, b) ==
  IF c.window_size > max_window_size
    THEN draw_window(update_window_buffer(move_down_window_start_position(c)))
    ELSE [c EXCEPT !.window = [w \in WinIdx |->
            IF w = c.window_size - 1 THEN b
            ELSE IF w >= old /\ w < c.window_size - 1 THEN NUL ELSE @[w]]]

Show(c, follow, b) ==
  IF follow THEN output_window_one_to_vga(c, c.window_size - 1, b)
            ELSE draw_window(update_window_buffer(c))

write_console_one(c, b) ==
  LET at     == Jump(c)
      stored == Store(Grow(at, b), b)
  IN  Show(Place([stored EXCEPT !.window_last_history = stored.history_cnt],
                 at.window_size, b),
           Following(c), b)

\* print_chars, printstr: byte by byte.
write_all(c, bytes) == FoldLeft(write_console_one, c, bytes)

console_clear(c) ==
  draw_window(update_window_buffer(
    [c EXCEPT !.window_first_history = c.history_cnt,
              !.window_last_history = c.history_cnt]))

-----------------------------------------------------------------------------
\* The input line.

valid_input_cnt(n) == inpws_to_rn(n) < INPUT_AREA_MAX_ROW

\* draw_input_if_need: a line that did not get shorter has its last row cleared
\* and its last character drawn (for an empty line input_buf[-1], at a row far
\* outside the memory); a shorter one is drawn anew over the old one.
draw_input_if_need(c, old) ==
  LET n    == c.input_cnt
      row  == n - (n % COL)
      end  == (n - 1) % UINT
      wipe == [p \in DOMAIN c.screen |-> IF p \in row .. row + COL - 1 THEN NUL ELSE c.screen[p]]
  IN  [c EXCEPT !.screen =
         IF n >= old
           THEN vga_write_char(wipe, IF n = 0 THEN Junk ELSE c.input_buf[n - 1],
                               end % COL, end \div COL)
           ELSE [p \in DOMAIN @ |-> IF p >= old THEN @[p]
                                    ELSE IF p < n THEN c.input_buf[p] ELSE NUL]]

\* Mutant: the window is not drawn again when the input line changes its rows.
check_resize_layout_never(old, new) == FALSE

check_resize_layout(old, new) == inpws_to_rn(old) # inpws_to_rn(new)

console_clear_input(c) ==
  draw_window(draw_input_if_need([c EXCEPT !.input_cnt = 0], c.input_cnt))

flush_input_buffer(c) ==
  console_clear_input(write_all(c, [i \in 1 .. c.input_cnt |-> c.input_buf[i - 1]] \o <<NL>>))

get_input_char(c, b) ==
  LET n   == c.input_cnt
      new == [c EXCEPT !.input_buf[n] = b, !.input_cnt = n + 1]
  IN  IF ~valid_input_cnt(n + 1) THEN c
      ELSE IF check_resize_layout(n, n + 1) THEN draw_window(draw_input_if_need(new, n))
      ELSE [new EXCEPT !.screen = vga_write_char(@, b, n % COL, n \div COL)]

\* Mutant: the new count is not checked, so an empty line wraps.
modify_input_cnt_wrap(c, delta) ==
  LET n   == (c.input_cnt + delta) % UINT
      new == draw_input_if_need([c EXCEPT !.input_cnt = n], c.input_cnt)
  IN  IF check_resize_layout(c.input_cnt, n) THEN draw_window(new) ELSE new

\* modify_input_cnt: an unsigned subtraction; an empty line wraps and is refused.
modify_input_cnt(c, delta) ==
  LET n   == (c.input_cnt + delta) % UINT
      new == draw_input_if_need([c EXCEPT !.input_cnt = n], c.input_cnt)
  IN  IF ~valid_input_cnt(n) THEN c
      ELSE IF check_resize_layout(c.input_cnt, n) THEN draw_window(new) ELSE new

Capacity == INPUT_AREA_MAX_ROW * COL

\* The keys that print a notice, and all that the shell tells apart.
NoticeKeys == {"PRINTSCR", "PRINTSCR_RELEASE", "PAUSE"}
KeyCodes == Letters \cup NoticeKeys \cup {"EMPTY", "UP_RELEASE", "DOWN_RELEASE", "ENTER", "BACKSPACE"}

shell_get_key_code(c, key) ==
  CASE key = "UP_RELEASE"   -> window_move_up(c)
    [] key = "DOWN_RELEASE" -> window_move_down(c)
    [] key = "ENTER"        -> flush_input_buffer(c)
    [] key = "BACKSPACE"    -> modify_input_cnt(c, -1)
    [] key \in NoticeKeys   -> write_all(c, Notice)
    [] key \in Letters      -> get_input_char(c, key)
    [] OTHER                -> c

\* init_console, then vga_clear_all of main: history is zeroed, window is not.
init_console ==
  [history |-> [i \in 0 .. CONSOLE_HISTORY_SIZE - 1 |-> NUL],
   window |-> [w \in WinIdx |-> Junk],
   screen |-> [p \in 0 .. VGA_MAX_ROW * COL - 1 |-> NUL],
   input_buf |-> [i \in 0 .. Capacity |-> Junk],
   history_cnt |-> 0, window_first_history |-> 0, window_last_history |-> 0,
   window_size |-> 0, input_cnt |-> 0]

=============================================================================
